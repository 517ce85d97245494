-------------------------------------- MODULE Paths_proofs ---------------------------------------
(************************************************************************************************)
(* How a peer is reached, and what may be sent on the way: for any realms,                      *)
(* candidates, ports, sockets and chunks, and for any lanes, rates, packets                     *)
(* and losses.  Every module here is a part of MCServices, about which                          *)
(* Services_proofs concludes.                                                                   *)
(*                                                                                              *)
(*   RealmServer    a request carries the loop's own session and an answer what the control has *)
(*                  (RequestsAreItsOwn, AnswersAreTrue); whatever lives once the server closes  *)
(*                  is what it deregisters, or was lost (CloseKnows)                            *)
(*   RealmPunch     a family races over its open socket, once the two sides know each other     *)
(*                  (RacersHaveSockets), and who sends was told (PacketsHaveSenders)            *)
(*   PortHop        a port left in the round was drawn at the earliest when the last one began  *)
(*                  (AgesAreRounds); a socket gives way to a younger one (YoungerReplace)       *)
(*   Gecko          the chunks gathered for a packet are apart and of one number and total      *)
(*                  (Gathers), so that as many as the total are all of them                     *)
(*   CubicSender    what is under way past the last cut was sent in a flight nobody cut for     *)
(*                  (FlightsAreApart), and a window that was cut stays cut (CutStands)          *)
(*   TuicBBR        a recovery lasts past the last loss (RecoveryLasts), and windows stay       *)
(*                  within their bounds (WindowsHold); the erasure sender pays for a step of    *)
(*                  compensation with a round (ErasureIInv)                                     *)
(*   PathModel      what a lane was told at its last exchange is still a part of what its       *)
(*                  nodes carried (ToldFits); the aliases of groups lead to one group for what  *)
(*                  was merged (Leads, Together), and to none that was not (Unparted)           *)
(*   PacketQueue    the ring shows what was emplaced and not yet removed (Shows)                *)
(************************************************************************************************)
EXTENDS RealmServer, RealmPunch, PortHop, Gecko, PathModel, TuicBBR, CubicSender, PacketQueue,
        SumTheorems, FiniteSetTheorems, SequenceTheorems, TLAPS

-----------------------------------------------------------------------------
(* RealmServer: what the control has is known *)

RunnerStates ==
  {"waits", "looks", "discovers", "found", "registers", "registered", "beats", "beaten", "unknown"}

RealmTypeOK ==
  /\ network \in Nat \ {0} /\ resetSignal \in BOOLEAN /\ cache \in [of: Nat, fresh: BOOLEAN]
  /\ flight \in Nat /\ event \in {"none", "discovers"}
  /\ runner \in [at: RunnerStates, what: Nat, id: Nat, bound: Nat]
  /\ ticket \in 0..issued /\ published \in Nat
  /\ control \in [1..Tickets -> Nat] /\ issued \in 0..Tickets
  /\ lost \in [beats: BOOLEAN, tickets: SUBSET Nat]
  /\ closing \in [at: {"no", "deregisters", "done"}, id: 0..issued]

\* What is not issued does not live.
IssuedFirst == \A t \in 1..Tickets : control[t] # 0 => t <= issued
\* Whose number the loop's request carries, and that a registration replaces nothing that lives.
RequestsAreItsOwn ==
  /\ runner.at \in {"waits", "looks", "discovers", "found", "registers"} => runner.id = 0
  /\ runner.at = "registered" => runner.id \in 1..issued
  /\ runner.at \in {"beats", "beaten", "unknown"} => runner.id = ticket /\ ticket # 0
  /\ runner.at \in {"registers", "registered", "unknown"} => ~Live(ticket)
\* What the control has when its answer is under way.
AnswersAreTrue ==
  /\ runner.at = "registered" /\ Live(runner.id) => control[runner.id] = runner.what
  /\ runner.at = "beaten" /\ Live(ticket) /\ runner.what # 0 => control[ticket] = runner.what
  /\ runner.at = "beats" \/ (runner.at = "beaten" /\ runner.what = 0) =>
       (Live(ticket) /\ ~lost.beats => control[ticket] = published)
\* A discovery that is to answer a reset began no earlier.
DiscoveredSince ==
  /\ runner.bound <= network /\ flight <= network
  /\ runner.at = "discovers" /\ runner.bound # 0 => flight >= runner.bound
  /\ runner.at = "found" /\ runner.bound # 0 => flight = 0 \/ flight >= runner.bound
\* What lives once the server closes is what it deregisters, or lost.
CloseKnows ==
  Cancelled =>
    /\ \A t \in 1..Tickets : Live(t) => t = closing.id \/ t \in lost.tickets
    /\ runner.at = "registers" => issued + 1 \in lost.tickets
    /\ runner.at = "registered" => runner.id \in lost.tickets
    /\ closing.at = "deregisters" => closing.id # 0

RealmIInv ==
  RealmTypeOK /\ IssuedFirst /\ RequestsAreItsOwn /\ AnswersAreTrue /\ DiscoveredSince /\ CloseKnows /\ RealmInv

LEMMA RealmStarts == RealmInit => RealmIInv
<1> SUFFICES ASSUME RealmInit PROVE RealmIInv
    OBVIOUS
<1> USE RealmConstants DEF RealmInit, RunnerRests, Live, Cancelled
<1>1. RealmTypeOK BY DEF RealmTypeOK, RunnerStates
<1>2. IssuedFirst /\ RequestsAreItsOwn BY DEF IssuedFirst, RequestsAreItsOwn
<1>3. AnswersAreTrue /\ DiscoveredSince /\ CloseKnows BY DEF AnswersAreTrue, DiscoveredSince, CloseKnows
<1>4. RealmInv BY DEF RealmInv
<1> QED BY <1>1, <1>2, <1>3, <1>4 DEF RealmIInv

LEMMA RealmStepKept == RealmIInv /\ [RealmNext]_realmVars => RealmIInv'
<1> SUFFICES ASSUME RealmIInv, [RealmNext]_realmVars PROVE RealmIInv'
    OBVIOUS
<1>0. /\ RealmTypeOK /\ IssuedFirst /\ RequestsAreItsOwn /\ AnswersAreTrue /\ DiscoveredSince /\ CloseKnows /\ RealmInv
      /\ Networks \in Nat /\ Tickets \in Nat
  BY RealmConstants DEF RealmIInv
<1> USE <1>0
<1>1. CASE NetworkChanges
  <2>1. network' = network + 1 /\ network' \in Nat \ {0} /\ resetSignal' = TRUE
    BY <1>1 DEF NetworkChanges, RealmTypeOK
  <2>2. UNCHANGED <<cache, flight, runner, event, ticket, published, control, issued, lost, closing>>
    BY <1>1, <2>1 DEF NetworkChanges
  <2> QED BY <2>1, <2>2
         DEF RealmIInv, RealmTypeOK, RunnerStates, IssuedFirst, RequestsAreItsOwn, AnswersAreTrue, DiscoveredSince,
             CloseKnows, RealmInv, Cancelled, Live
<1>2. CASE CacheAges
  <2>1. cache' \in [of: Nat, fresh: BOOLEAN] /\ cache'.of = cache.of
    BY <1>2 DEF CacheAges, RealmTypeOK
  <2>2. UNCHANGED <<network, resetSignal, flight, runner, event, ticket, published, control, issued, lost, closing>>
    BY <1>2, <2>1 DEF CacheAges
  <2> QED BY <2>1, <2>2
         DEF RealmIInv, RealmTypeOK, RunnerStates, IssuedFirst, RequestsAreItsOwn, AnswersAreTrue, DiscoveredSince,
             CloseKnows, RealmInv, Cancelled, Live
<1>3. CASE EventArrives
  <2>1. event' = "discovers" /\ flight' \in Nat /\ flight' = (IF flight = 0 THEN network ELSE flight)
    BY <1>3 DEF EventArrives, Flying, RealmTypeOK
  <2>2. UNCHANGED <<network, resetSignal, cache, runner, ticket, published, control, issued, lost, closing>>
    BY <1>3, <2>1 DEF EventArrives
  <2> QED BY <2>1, <2>2
         DEF RealmIInv, RealmTypeOK, RunnerStates, IssuedFirst, RequestsAreItsOwn, AnswersAreTrue, DiscoveredSince,
             CloseKnows, RealmInv, Cancelled, Live
<1>4. CASE RunResets
  <2>1. runner.at = "waits" /\ runner.id = 0
        /\ runner' = [at |-> "looks", what |-> 0, id |-> 0, bound |-> network]
        /\ cache' \in [of: Nat, fresh: BOOLEAN] /\ resetSignal' = FALSE
    BY <1>4 DEF RunResets, RunnerRests, RealmTypeOK
  <2>2. UNCHANGED <<network, flight, event, ticket, published, control, issued, lost, closing>>
    BY <1>4, <2>1 DEF RunResets
  <2>3. RealmTypeOK' /\ IssuedFirst' /\ RequestsAreItsOwn'
    BY <2>1, <2>2 DEF RealmTypeOK, RunnerStates, IssuedFirst, RequestsAreItsOwn, Live
  <2>4. AnswersAreTrue' /\ DiscoveredSince'
    BY <2>1, <2>2 DEF RealmTypeOK, RequestsAreItsOwn, AnswersAreTrue, DiscoveredSince, RealmInv, Live
  <2>5. CloseKnows' /\ RealmInv'
    BY <2>1, <2>2
    DEF RealmTypeOK, RequestsAreItsOwn, AnswersAreTrue, DiscoveredSince, CloseKnows, RealmInv, Cancelled, Live
  <2> QED BY <2>3, <2>4, <2>5 DEF RealmIInv
<1>5. CASE RunLooks
  <2>1. runner.at = "looks" /\ runner'.at = (IF cache.fresh THEN "found" ELSE "discovers")
        /\ runner'.what = runner.what /\ runner'.id = runner.id
        /\ runner'.bound = (IF cache.fresh \/ flight # 0 THEN 0 ELSE runner.bound)
        /\ runner' \in [at: RunnerStates, what: Nat, id: Nat, bound: Nat]
    BY <1>5 DEF RunLooks, RealmTypeOK, RunnerStates
  <2>2. flight' \in Nat /\ flight' = (IF cache.fresh \/ flight # 0 THEN flight ELSE network)
    BY <1>5, <2>1 DEF RunLooks, Flying, RealmTypeOK
  <2>3. UNCHANGED <<network, resetSignal, cache, event, ticket, published, control, issued, lost, closing>>
    BY <1>5, <2>1, <2>2 DEF RunLooks
  <2> QED BY <2>1, <2>2, <2>3
         DEF RealmIInv, RealmTypeOK, RunnerStates, IssuedFirst, RequestsAreItsOwn, AnswersAreTrue, DiscoveredSince,
             CloseKnows, RealmInv, Cancelled, Live
<1>6. CASE FlightEnds
  <2>1. flight # 0 /\ flight' = 0 /\ event' = "none"
        /\ UNCHANGED <<network, resetSignal, ticket, published, control, issued, lost, closing>>
    BY <1>6 DEF FlightEnds
  <2>2. CASE /\ \E n \in flight..network : cache' = [of |-> n, fresh |-> TRUE]
             /\ runner' = IF runner.at = "discovers" THEN [runner EXCEPT !.at = "found"] ELSE runner
    <3>1. PICK n \in flight..network : cache' = [of |-> n, fresh |-> TRUE]
      BY <2>2
    <3>2. n \in Nat /\ flight <= n /\ cache'.of = n /\ cache' \in [of: Nat, fresh: BOOLEAN]
      BY <2>1, <3>1 DEF RealmTypeOK
    <3>3. runner'.at = (IF runner.at = "discovers" THEN "found" ELSE runner.at)
          /\ runner'.what = runner.what /\ runner'.id = runner.id /\ runner'.bound = runner.bound
          /\ runner' \in [at: RunnerStates, what: Nat, id: Nat, bound: Nat]
      BY <2>2 DEF RealmTypeOK, RunnerStates
    <3>4. RealmTypeOK' /\ IssuedFirst' /\ RequestsAreItsOwn'
      BY <2>1, <3>2, <3>3 DEF RealmTypeOK, RunnerStates, IssuedFirst, RequestsAreItsOwn, Live
    <3>5. AnswersAreTrue' /\ DiscoveredSince'
      BY <2>1, <3>2, <3>3 DEF RealmTypeOK, RequestsAreItsOwn, AnswersAreTrue, DiscoveredSince, RealmInv, Live
    <3>6. CloseKnows' /\ RealmInv'
      BY <2>1, <3>2, <3>3
      DEF RealmTypeOK, RequestsAreItsOwn, AnswersAreTrue, DiscoveredSince, CloseKnows, RealmInv, Cancelled, Live
    <3> QED BY <3>4, <3>5, <3>6 DEF RealmIInv
  <2>3. CASE /\ runner' = IF runner.at = "discovers" THEN RunnerRests ELSE runner
             /\ UNCHANGED cache
    <3>1. CASE runner.at = "discovers"
      <4>1. runner'.at = "waits" /\ runner'.id = 0 /\ runner'.bound = 0
            /\ runner' \in [at: RunnerStates, what: Nat, id: Nat, bound: Nat]
        BY <2>3, <3>1 DEF RunnerRests, RunnerStates
      <4> QED BY <2>1, <2>3, <3>1, <4>1
             DEF RealmIInv, RealmTypeOK, RunnerStates, IssuedFirst, RequestsAreItsOwn, AnswersAreTrue, DiscoveredSince,
                 CloseKnows, RealmInv, Cancelled, Live
    <3>2. CASE runner.at # "discovers"
      <4>1. runner' = runner
        BY <2>3, <3>2
      <4> QED BY <2>1, <2>3, <3>2, <4>1
             DEF RealmIInv, RealmTypeOK, RunnerStates, IssuedFirst, RequestsAreItsOwn, AnswersAreTrue, DiscoveredSince,
                 CloseKnows, RealmInv, Cancelled, Live
    <3> QED BY <3>1, <3>2
  <2> QED BY <1>6, <2>2, <2>3 DEF FlightEnds
<1>7. CASE RunFound
  <2>1. runner.at = "found" /\ runner.id = 0 /\ runner' \in {RunnerRests, Registers, Beats}
        /\ (runner' = Registers => ticket = 0 /\ ~Cancelled) /\ (runner' = Beats => ticket # 0)
    BY <1>7 DEF RunFound, Sent, RequestsAreItsOwn, Registers, Beats, RunnerRests
  <2>2. UNCHANGED <<network, resetSignal, cache, flight, event, ticket, published, control, issued, lost, closing>>
    BY <1>7, <2>1 DEF RunFound
  <2>3. runner'.at \in {"waits", "registers", "beats"} /\ runner'.bound = 0
        /\ runner' \in [at: RunnerStates, what: Nat, id: Nat, bound: Nat]
        /\ (runner'.at = "registers" => runner' = Registers) /\ (runner'.at = "beats" => runner' = Beats)
        /\ runner'.id = (IF runner'.at = "beats" THEN ticket ELSE 0)
    BY <2>1, <2>2 DEF RunnerRests, Registers, Beats, Unpublished, RunnerStates, RealmTypeOK
  <2>4. RealmTypeOK' /\ IssuedFirst' /\ RequestsAreItsOwn'
    BY <2>1, <2>2, <2>3 DEF RealmTypeOK, RunnerStates, IssuedFirst, RequestsAreItsOwn, Live
  <2>5. AnswersAreTrue' /\ DiscoveredSince'
    BY <2>1, <2>2, <2>3 DEF RealmTypeOK, RequestsAreItsOwn, AnswersAreTrue, DiscoveredSince, RealmInv, Live
  <2>6. CloseKnows' /\ RealmInv'
    BY <2>1, <2>2, <2>3
    DEF RealmTypeOK, RequestsAreItsOwn, AnswersAreTrue, DiscoveredSince, CloseKnows, RealmInv, Cancelled, Live
  <2> QED BY <2>4, <2>5, <2>6 DEF RealmIInv
<1>8. CASE HeartbeatDue
  <2>1. runner.at = "waits" /\ runner.id = 0 /\ runner' \in {RunnerRests, Registers, Beats}
        /\ (runner' = Registers => ticket = 0 /\ ~Cancelled) /\ (runner' = Beats => ticket # 0)
    BY <1>8 DEF HeartbeatDue, RunnerRests, Registers, Beats
  <2>2. UNCHANGED <<network, resetSignal, cache, flight, event, ticket, published, control, issued, lost, closing>>
    BY <1>8, <2>1 DEF HeartbeatDue
  <2>3. runner'.at \in {"waits", "registers", "beats"} /\ runner'.bound = 0
        /\ runner' \in [at: RunnerStates, what: Nat, id: Nat, bound: Nat]
        /\ (runner'.at = "registers" => runner' = Registers) /\ (runner'.at = "beats" => runner' = Beats)
        /\ runner'.id = (IF runner'.at = "beats" THEN ticket ELSE 0)
    BY <2>1, <2>2 DEF RunnerRests, Registers, Beats, Unpublished, RunnerStates, RealmTypeOK
  <2>4. RealmTypeOK' /\ IssuedFirst' /\ RequestsAreItsOwn'
    BY <2>1, <2>2, <2>3 DEF RealmTypeOK, RunnerStates, IssuedFirst, RequestsAreItsOwn, Live
  <2>5. AnswersAreTrue' /\ DiscoveredSince'
    BY <2>1, <2>2, <2>3 DEF RealmTypeOK, RequestsAreItsOwn, AnswersAreTrue, DiscoveredSince, RealmInv, Live
  <2>6. CloseKnows' /\ RealmInv'
    BY <2>1, <2>2, <2>3
    DEF RealmTypeOK, RequestsAreItsOwn, AnswersAreTrue, DiscoveredSince, CloseKnows, RealmInv, Cancelled, Live
  <2> QED BY <2>4, <2>5, <2>6 DEF RealmIInv
<1>9. CASE ControlRegisters
  <2>1. runner.at = "registers" /\ runner.id = 0 /\ issued + 1 \in 1..Tickets /\ issued' = issued + 1
        /\ UNCHANGED <<network, resetSignal, cache, flight, event, ticket, published, lost, closing>>
    BY <1>9 DEF ControlRegisters, RequestsAreItsOwn, RealmTypeOK
  <2>2. control' \in [1..Tickets -> Nat] /\ control'[issued + 1] = runner.what
        /\ \A t \in 1..Tickets : t # issued + 1 => control'[t] = control[t]
    BY <1>9, <2>1 DEF ControlRegisters, RealmTypeOK
  <2>3. runner' = [runner EXCEPT !.at = "registered", !.id = issued + 1]
    BY <1>9, <2>1, <2>2 DEF ControlRegisters
  <2>4. issued + 1 \in Nat /\ issued + 1 > issued /\ runner \in [at: RunnerStates, what: Nat, id: Nat, bound: Nat]
    BY <2>1, <2>2, <2>3 DEF RealmTypeOK
  <2>5. runner'.at = "registered" /\ runner'.id = issued + 1 /\ runner'.what = runner.what
        /\ runner'.bound = runner.bound /\ runner' \in [at: RunnerStates, what: Nat, id: Nat, bound: Nat]
    BY <2>1, <2>2, <2>3, <2>4 DEF RunnerStates
  <2>6. ticket \in Nat /\ ticket <= issued /\ closing.id \in Nat /\ closing.id <= issued
    BY <2>1, <2>2, <2>4, <2>5 DEF RealmTypeOK
  <2>7. ticket # issued + 1 /\ closing.id # issued + 1 /\ issued <= Tickets
    BY <2>1, <2>2, <2>4, <2>5, <2>6 DEF RealmTypeOK
  <2>8. ~Live(ticket)
    BY <2>1, <2>2, <2>4, <2>5, <2>6, <2>7 DEF RequestsAreItsOwn
  <2>9. ticket # 0 => ticket \in 1..Tickets
    BY <2>1, <2>2, <2>4, <2>5, <2>6, <2>7, <2>8 DEF RealmTypeOK
  <2>10. ~Live(ticket)'
    BY <2>1, <2>2, <2>4, <2>5, <2>6, <2>7, <2>8, <2>9 DEF Live
  <2>11. \A t \in 1..Tickets : t # issued + 1 => Live(t)' = Live(t)
    BY <2>1, <2>2, <2>4, <2>5, <2>6, <2>7, <2>8, <2>9, <2>10 DEF Live
  <2> QED BY <2>1, <2>2, <2>4, <2>5, <2>6, <2>7, <2>8, <2>9, <2>10, <2>11
         DEF RealmIInv, RealmTypeOK, RunnerStates, IssuedFirst, RequestsAreItsOwn, AnswersAreTrue, DiscoveredSince,
             CloseKnows, RealmInv, Cancelled, Live
<1>10. CASE ControlHears
  <2>1. runner.at = "beats" /\ runner.id = ticket /\ ticket # 0 /\ ticket \in 1..Tickets
        /\ UNCHANGED <<network, resetSignal, cache, flight, event, ticket, published, issued, lost, closing>>
    BY <1>10 DEF ControlHears, RequestsAreItsOwn, RealmTypeOK
  <2>2. runner' = [runner EXCEPT !.at = IF Live(ticket) THEN "beaten" ELSE "unknown"]
    BY <1>10, <2>1 DEF ControlHears
  <2>3. runner'.at = (IF Live(ticket) THEN "beaten" ELSE "unknown") /\ runner'.id = ticket /\ runner'.what = runner.what
        /\ runner'.bound = runner.bound /\ runner' \in [at: RunnerStates, what: Nat, id: Nat, bound: Nat]
    BY <2>1, <2>2 DEF RealmTypeOK, RunnerStates
  <2>4. control' \in [1..Tickets -> Nat] /\ (\A t \in 1..Tickets : t # ticket => control'[t] = control[t])
        /\ control'[ticket] = (IF Live(ticket) /\ runner.what # 0 THEN runner.what ELSE control[ticket])
    BY <1>10, <2>1, <2>3 DEF ControlHears, RealmTypeOK
  <2>5. \A t \in 1..Tickets : Live(t)' = Live(t)
    BY <2>1, <2>3, <2>4 DEF Live
  <2> QED BY <2>1, <2>3, <2>4, <2>5
         DEF RealmIInv, RealmTypeOK, RunnerStates, IssuedFirst, RequestsAreItsOwn, AnswersAreTrue, DiscoveredSince,
             CloseKnows, RealmInv, Cancelled, Live
<1>11. CASE Registered
  <2>1. runner.at = "registered" /\ ticket' = runner.id /\ runner.id \in 1..issued
        /\ UNCHANGED <<network, resetSignal, cache, flight, event, control, issued, lost, closing>>
    BY <1>11 DEF Registered, RequestsAreItsOwn
  <2>2. published' \in Nat /\ (runner.what # 0 => published' = runner.what)
    BY <1>11, <2>1 DEF Registered, Recorded, RealmTypeOK
  <2>3. runner' = RunnerRests /\ runner'.at = "waits" /\ runner'.id = 0 /\ runner'.bound = 0
        /\ runner' \in [at: RunnerStates, what: Nat, id: Nat, bound: Nat]
    BY <1>11, <2>1, <2>2 DEF Registered, RunnerRests, RunnerStates
  <2>4. ~Live(ticket) /\ ticket \in Nat
    BY <2>1, <2>2, <2>3 DEF RequestsAreItsOwn, RealmTypeOK
  <2> QED BY <2>1, <2>2, <2>3, <2>4
         DEF RealmIInv, RealmTypeOK, RunnerStates, IssuedFirst, RequestsAreItsOwn, AnswersAreTrue, DiscoveredSince,
             CloseKnows, RealmInv, Cancelled, Live
<1>12. CASE Beaten
  <2>1. runner.at = "beaten" /\ runner.id = ticket
        /\ UNCHANGED <<network, resetSignal, cache, flight, event, ticket, control, issued, lost, closing>>
    BY <1>12 DEF Beaten, RequestsAreItsOwn
  <2>2. published' \in Nat /\ published' = (IF runner.what = 0 THEN published ELSE runner.what)
    BY <1>12, <2>1 DEF Beaten, Recorded, RealmTypeOK
  <2>3. runner'.at = "waits" /\ runner'.id = 0 /\ runner'.bound = 0
        /\ runner' \in [at: RunnerStates, what: Nat, id: Nat, bound: Nat]
    BY <1>12, <2>1, <2>2 DEF Beaten, RunnerRests, RunnerStates
  <2> QED BY <2>1, <2>2, <2>3
         DEF RealmIInv, RealmTypeOK, RunnerStates, IssuedFirst, RequestsAreItsOwn, AnswersAreTrue, DiscoveredSince,
             CloseKnows, RealmInv, Cancelled, Live
<1>13. CASE SessionInvalid
  <2>1. runner.at = "unknown" /\ runner.id = ticket /\ ~Live(ticket)
        /\ UNCHANGED <<network, resetSignal, cache, flight, event, ticket, published, control, issued, lost, closing>>
    BY <1>13 DEF SessionInvalid, RequestsAreItsOwn
  <2>2. runner'.at \in {"waits", "registers"} /\ runner'.id = 0 /\ runner'.bound = 0 /\ (Cancelled => runner'.at = "waits")
        /\ runner' \in [at: RunnerStates, what: Nat, id: Nat, bound: Nat]
    BY <1>13, <2>1 DEF SessionInvalid, Sent, Registers, RunnerRests, RunnerStates, RealmTypeOK
  <2> QED BY <2>1, <2>2
         DEF RealmIInv, RealmTypeOK, RunnerStates, IssuedFirst, RequestsAreItsOwn, AnswersAreTrue, DiscoveredSince,
             CloseKnows, RealmInv, Cancelled, Live
<1>14. CASE AnswerLost
  <2>1. runner.at \in {"registers", "beats", "registered", "beaten", "unknown"}
        /\ runner'.at = "waits" /\ runner'.id = 0 /\ runner'.bound = 0
        /\ runner' \in [at: RunnerStates, what: Nat, id: Nat, bound: Nat]
    BY <1>14 DEF AnswerLost, RunnerRests, RunnerStates
  <2>2. UNCHANGED <<network, resetSignal, cache, flight, event, ticket, published, control, issued, closing>>
    BY <1>14, <2>1 DEF AnswerLost
  <2>3. /\ lost' \in [beats: BOOLEAN, tickets: SUBSET Nat] /\ lost.tickets \subseteq lost'.tickets
        /\ lost.beats => lost'.beats
        /\ runner.at = "registered" => runner.id \in lost'.tickets
        /\ runner.at = "beaten" /\ runner.what # 0 => lost'.beats
    BY <1>14, <2>1, <2>2 DEF AnswerLost, RealmTypeOK
  <2>4. Live(ticket) /\ ~lost'.beats => control[ticket] = published
    BY <2>1, <2>2, <2>3 DEF RequestsAreItsOwn, AnswersAreTrue, RealmTypeOK
  <2>5. \A t \in 1..Tickets : Live(t)' = Live(t)
    BY <2>1, <2>2, <2>3, <2>4 DEF Live
  <2>6. Live(ticket)' = Live(ticket)
    BY <2>1, <2>2, <2>3, <2>4, <2>5 DEF Live
  <2> QED BY <2>1, <2>2, <2>3, <2>4, <2>5, <2>6
         DEF RealmIInv, RealmTypeOK, RunnerStates, IssuedFirst, RequestsAreItsOwn, AnswersAreTrue, DiscoveredSince,
             CloseKnows, RealmInv, Cancelled, Live
<1>15. CASE Closes
  <2>1. closing' \in [at: {"no", "deregisters", "done"}, id: 0..issued] /\ closing'.id = ticket
        /\ closing'.at = (IF ticket = 0 THEN "done" ELSE "deregisters")
    BY <1>15 DEF Closes, RealmTypeOK
  <2>2. UNCHANGED <<network, resetSignal, cache, flight, runner, event, ticket, published, control, issued>>
    BY <1>15, <2>1 DEF Closes
  <2>3. /\ lost' \in [beats: BOOLEAN, tickets: SUBSET Nat] /\ lost.tickets \subseteq lost'.tickets
        /\ lost.beats = lost'.beats
        /\ runner.at = "registered" => runner.id \in lost'.tickets
        /\ runner.at = "registers" => issued + 1 \in lost'.tickets
    BY <1>15, <2>1, <2>2 DEF Closes, RealmTypeOK
  <2>4. \A t \in 1..Tickets : Live(t) => t = ticket \/ t \in lost'.tickets
    BY <2>1, <2>2, <2>3 DEF RealmInv, RequestsAreItsOwn, RunnerStates, RealmTypeOK
  <2>5. \A t \in 1..Tickets : Live(t)' = Live(t)
    BY <2>1, <2>2, <2>3, <2>4 DEF Live
  <2> QED BY <2>1, <2>2, <2>3, <2>4, <2>5
         DEF RealmIInv, RealmTypeOK, RunnerStates, IssuedFirst, RequestsAreItsOwn, AnswersAreTrue, DiscoveredSince,
             CloseKnows, RealmInv, Cancelled, Live
<1>16. CASE Deregistered
  <2>1. closing.at = "deregisters" /\ closing' = [closing EXCEPT !.at = "done"]
        /\ UNCHANGED <<network, resetSignal, cache, flight, runner, event, ticket, published, issued>>
    BY <1>16 DEF Deregistered
  <2>2. closing.id \in 1..Tickets /\ closing'.at = "done" /\ closing'.id = closing.id
        /\ closing' \in [at: {"no", "deregisters", "done"}, id: 0..issued]
    <3>1. closing \in [at: {"no", "deregisters", "done"}, id: 0..issued] /\ issued \in 0..Tickets
      BY DEF RealmTypeOK
    <3>2. closing.id # 0
      BY <2>1 DEF CloseKnows, Cancelled
    <3> QED BY <2>1, <3>1, <3>2
  <2>3. CASE control' = [control EXCEPT ![closing.id] = 0] /\ UNCHANGED lost
    <3>1. control' \in [1..Tickets -> Nat] /\ control'[closing.id] = 0
          /\ \A t \in 1..Tickets : t # closing.id => control'[t] = control[t]
      BY <2>2, <2>3 DEF RealmTypeOK
    <3>2. \A t \in 1..Tickets : Live(t)' => Live(t) /\ t # closing.id /\ control'[t] = control[t]
      BY <2>2, <3>1 DEF Live
    <3>3. UNCHANGED lost /\ (Live(ticket)' => Live(ticket) /\ control'[ticket] = control[ticket] /\ ticket \in 1..Tickets)
      BY <2>1, <2>3, <3>2 DEF RealmTypeOK, Live
    <3>4. RealmTypeOK' /\ IssuedFirst' /\ RequestsAreItsOwn'
      BY <2>1, <2>2, <3>1, <3>2, <3>3 DEF RealmTypeOK, RunnerStates, IssuedFirst, RequestsAreItsOwn, Live
    <3>5. AnswersAreTrue' /\ DiscoveredSince'
      BY <2>1, <2>2, <3>1, <3>2, <3>3 DEF RealmTypeOK, RequestsAreItsOwn, AnswersAreTrue, DiscoveredSince, RealmInv, Live
    <3>6. CloseKnows' /\ RealmInv'
      BY <2>1, <2>2, <3>1, <3>2, <3>3
      DEF RealmTypeOK, RequestsAreItsOwn, AnswersAreTrue, DiscoveredSince, CloseKnows, RealmInv, Cancelled, Live
    <3> QED BY <3>4, <3>5, <3>6 DEF RealmIInv
  <2>4. CASE lost' = [lost EXCEPT !.tickets = @ \cup {closing.id}] /\ UNCHANGED control
    <3>1. lost \in [beats: BOOLEAN, tickets: SUBSET Nat] /\ closing.id \in Nat
      BY <2>2 DEF RealmTypeOK
    <3>2. lost.tickets \cup {closing.id} \in SUBSET Nat
      BY <3>1
    <3>3. lost'.beats = lost.beats /\ lost'.tickets = lost.tickets \cup {closing.id}
          /\ lost' \in [beats: BOOLEAN, tickets: SUBSET Nat]
      BY <2>4, <3>1, <3>2
    <3>4. UNCHANGED control /\ (\A t \in 1..Tickets : Live(t)' = Live(t))
      BY <2>4 DEF Live
    <3> QED BY <2>1, <2>2, <3>3, <3>4
           DEF RealmIInv, RealmTypeOK, RunnerStates, IssuedFirst, RequestsAreItsOwn, AnswersAreTrue, DiscoveredSince,
               CloseKnows, RealmInv, Cancelled, Live
  <2> QED BY <1>16, <2>3, <2>4 DEF Deregistered
<1>17. ASSUME NEW t \in 1..Tickets, ControlForgets(t) PROVE RealmIInv'
  <2>1. control' \in [1..Tickets -> Nat] /\ control'[t] = 0
        /\ UNCHANGED <<network, resetSignal, cache, flight, runner, event, ticket, published, issued, lost, closing>>
        /\ \A u \in 1..Tickets : u # t => control'[u] = control[u]
    BY <1>17 DEF ControlForgets, RealmTypeOK
  <2>2. \A u \in 1..Tickets : Live(u)' => Live(u) /\ control'[u] = control[u]
    BY <2>1 DEF Live
  <2>3. Live(ticket)' => Live(ticket) /\ control'[ticket] = control[ticket] /\ ticket \in 1..Tickets
    BY <2>1, <2>2 DEF RealmTypeOK, Live
  <2>4. runner.at = "registered" => runner.id \in 1..Tickets
    BY DEF RequestsAreItsOwn, RealmTypeOK
  <2>5. RealmTypeOK' /\ IssuedFirst' /\ RequestsAreItsOwn'
    BY <2>1, <2>2, <2>3, <2>4 DEF RealmTypeOK, RunnerStates, IssuedFirst, RequestsAreItsOwn, Live
  <2>6. AnswersAreTrue' /\ DiscoveredSince'
    BY <2>1, <2>2, <2>3, <2>4 DEF RealmTypeOK, RequestsAreItsOwn, AnswersAreTrue, DiscoveredSince, RealmInv, Live
  <2>7. CloseKnows' /\ RealmInv'
    BY <2>1, <2>2, <2>3, <2>4
    DEF RealmTypeOK, RequestsAreItsOwn, AnswersAreTrue, DiscoveredSince, CloseKnows, RealmInv, Cancelled, Live
  <2> QED BY <2>5, <2>6, <2>7 DEF RealmIInv
<1>18. CASE UNCHANGED realmVars
  <2>1. UNCHANGED <<network, resetSignal, cache, flight, runner, event, ticket, published, control, issued, lost, closing>>
    BY <1>18 DEF realmVars
  <2> QED BY <2>1
         DEF RealmIInv, RealmTypeOK, RunnerStates, IssuedFirst, RequestsAreItsOwn, AnswersAreTrue, DiscoveredSince,
             CloseKnows, RealmInv, Cancelled, Live
<1> QED BY <1>1, <1>2, <1>3, <1>4, <1>5, <1>6, <1>7, <1>8, <1>9, <1>10, <1>11, <1>12, <1>13, <1>14, <1>15, <1>16,
           <1>17, <1>18 DEF RealmNext

THEOREM RegistrationsAreKnown == RealmSpec => []RealmInv
<1>1. RealmSpec => []RealmIInv BY RealmStarts, RealmStepKept, PTL DEF RealmSpec
<1> QED BY <1>1, PTL DEF RealmIInv

-----------------------------------------------------------------------------
(* RealmPunch: what a race leaves open *)

PunchTypeOK ==
  /\ stage \in {"opens", "maps", "discovers", "connects", "races", "authenticates", "done", "failed", "ended"}
  /\ sock \in [Families -> {"none", "open", "closed"}]
  /\ mapping \in {"none", "mapped", "removed", "kept", "forgotten"}
  /\ racer \in [Families -> {"idle", "punches", "met", "failed"}]
  /\ winner \in Families \cup {NoWinner}
  /\ responder \in {"none", "responds", "met", "failed"}
  /\ toServer \subseteq Families \X PunchTypes /\ toClient \subseteq Families \X PunchTypes

\* A family races once the control introduced the two sides, over its open socket.
RacersHaveSockets ==
  \A f \in Families : racer[f] # "idle" =>
    /\ stage \in {"races", "authenticates", "done", "failed", "ended"}
    /\ stage = "races" => sock[f] = "open"
\* Who sends has been told of the attempt.
PacketsHaveSenders ==
  /\ toServer # {} => \E f \in Families : racer[f] # "idle"
  /\ toClient # {} => responder # "none"
NotYetMapped == stage \in {"opens", "maps"} => mapping = "none"

PunchIInv == PunchTypeOK /\ RacersHaveSockets /\ PacketsHaveSenders /\ NotYetMapped /\ PunchInv

LEMMA PunchStarts == PunchInit => PunchIInv
  BY DEF PunchInit, PunchIInv, PunchTypeOK, RacersHaveSockets, PacketsHaveSenders, NotYetMapped, PunchInv,
         NoWinner, OpenFamilies

\* What closing leaves.
LEMMA ClosedIsClosed ==
  ASSUME PunchTypeOK, NEW fs
  PROVE  /\ Closing(fs) \in [Families -> {"none", "open", "closed"}]
         /\ \A f \in Families : Closing(fs)[f] = "open" <=> f \notin fs /\ sock[f] = "open"
  BY DEF Closing, PunchTypeOK

LEMMA GivingUpLetsGo ==
  ASSUME PunchIInv, GivesUp, stage # "done",
         UNCHANGED <<winner, racer, responder, toServer, toClient>>
  PROVE  PunchIInv'
<1>1. Closing(Families) \in [Families -> {"none", "open", "closed"}]
      /\ \A f \in Families : Closing(Families)[f] # "open"
  BY ClosedIsClosed DEF PunchIInv
<1>2. mapping' \in {"none", "removed", "forgotten"}
  BY DEF PunchIInv, PunchTypeOK, PunchInv, GivesUp, Unmapped
<1>3. OpenFamilies' = {} /\ stage' = "failed" /\ sock' = Closing(Families)
  BY <1>1 DEF OpenFamilies, GivesUp
<1> QED BY <1>1, <1>2, <1>3 DEF PunchIInv, PunchTypeOK, RacersHaveSockets, PacketsHaveSenders, NotYetMapped, PunchInv

LEMMA PunchStepKept == PunchIInv /\ [PunchNext]_punchVars => PunchIInv'
<1> SUFFICES ASSUME PunchIInv, [PunchNext]_punchVars PROVE PunchIInv'
    OBVIOUS
<1> USE DEF PunchIInv
<1>1. CASE OpensFamilies
  BY <1>1 DEF OpensFamilies, PunchTypeOK, RacersHaveSockets, PacketsHaveSenders, NotYetMapped, PunchInv, OpenFamilies
<1>2. CASE MapsPort
  BY <1>2 DEF MapsPort, PunchTypeOK, RacersHaveSockets, PacketsHaveSenders, NotYetMapped, PunchInv, OpenFamilies
<1>3. CASE Discovers
  <2>1. PICK fs \in SUBSET OpenFamilies :
          IF fs = {} THEN GivesUp
          ELSE stage' = "connects" /\ sock' = Closing(Families \ fs) /\ UNCHANGED mapping
    BY <1>3 DEF Discovers
  <2>2. CASE fs = {}
    BY <1>3, <2>1, <2>2, GivingUpLetsGo DEF Discovers
  <2>3. CASE fs # {}
    <3>1. Closing(Families \ fs) \in [Families -> {"none", "open", "closed"}]
      BY ClosedIsClosed
    <3> QED BY <1>3, <2>1, <2>3, <3>1
            DEF Discovers, PunchTypeOK, RacersHaveSockets, PacketsHaveSenders, NotYetMapped, PunchInv
  <2> QED BY <2>2, <2>3
<1>4. CASE ServerIsTold
  <2>1. toClient' \subseteq Families \X PunchTypes
    BY <1>4 DEF ServerIsTold, PunchTypeOK, OpenFamilies, PunchTypes
  <2> QED BY <1>4, <2>1
          DEF ServerIsTold, PunchTypeOK, RacersHaveSockets, PacketsHaveSenders, NotYetMapped, PunchInv, OpenFamilies
<1>5. CASE Connects
  <2>1. CASE stage' = "races" /\ racer' = [f \in Families |-> IF sock[f] = "open" THEN "punches" ELSE "idle"]
             /\ UNCHANGED <<sock, mapping>>
    BY <1>5, <2>1
       DEF Connects, PunchTypeOK, RacersHaveSockets, PacketsHaveSenders, NotYetMapped, PunchInv, OpenFamilies
  <2>2. CASE GivesUp /\ UNCHANGED racer
    BY <1>5, <2>2, GivingUpLetsGo DEF Connects
  <2> QED BY <1>5, <2>1, <2>2 DEF Connects
<1>6. CASE RaceLost
  BY <1>6, GivingUpLetsGo DEF RaceLost
<1>7. CASE RealmAuthenticates
  <2>1. CASE GivesUp
    BY <1>7, <2>1, GivingUpLetsGo DEF RealmAuthenticates
  <2>2. CASE stage' = "done" /\ mapping' = Adopted /\ UNCHANGED sock
    BY <1>7, <2>2
       DEF RealmAuthenticates, Adopted, Unmapped, PunchTypeOK, RacersHaveSockets, PacketsHaveSenders, NotYetMapped,
           PunchInv, OpenFamilies
  <2> QED BY <1>7, <2>1, <2>2 DEF RealmAuthenticates
<1>8. CASE RealmConnEnds
  <2>1. Closing(Families) \in [Families -> {"none", "open", "closed"}]
        /\ \A f \in Families : Closing(Families)[f] # "open"
    BY ClosedIsClosed
  <2>2. OpenFamilies' = {}
    BY <1>8, <2>1 DEF RealmConnEnds, OpenFamilies
  <2> QED BY <1>8, <2>1, <2>2
          DEF RealmConnEnds, PunchTypeOK, RacersHaveSockets, PacketsHaveSenders, NotYetMapped, PunchInv
<1>9. CASE ResponderHellos
  <2>1. toClient' \subseteq Families \X PunchTypes
    BY <1>9 DEF ResponderHellos, PunchTypeOK, PunchTypes
  <2> QED BY <1>9, <2>1
          DEF ResponderHellos, PunchTypeOK, RacersHaveSockets, PacketsHaveSenders, NotYetMapped, PunchInv, OpenFamilies
<1>10. CASE ResponderFails
  BY <1>10
     DEF ResponderFails, PunchTypeOK, RacersHaveSockets, PacketsHaveSenders, NotYetMapped, PunchInv, OpenFamilies
<1>11. CASE PunchLost
  <2>1. toClient' \subseteq toClient /\ toServer' \subseteq toServer
    BY <1>11 DEF PunchLost
  <2> QED BY <1>11, <2>1
          DEF PunchLost, PunchTypeOK, RacersHaveSockets, PacketsHaveSenders, NotYetMapped, PunchInv, OpenFamilies
<1>12. ASSUME NEW f \in Families, PunchHello(f) PROVE PunchIInv'
  <2>1. toServer' \subseteq Families \X PunchTypes
    BY <1>12 DEF PunchHello, PunchTypeOK, PunchTypes
  <2> QED BY <1>12, <2>1
          DEF PunchHello, PunchTypeOK, RacersHaveSockets, PacketsHaveSenders, NotYetMapped, PunchInv, OpenFamilies
<1>13. ASSUME NEW f \in Families, PunchReads(f) PROVE PunchIInv'
  <2>1. toServer' \subseteq Families \X PunchTypes /\ toClient' \subseteq toClient /\ toClient # {}
    BY <1>13 DEF PunchReads, PunchTypeOK, PunchTypes
  <2>2. racer[f] = "punches" /\ racer' \in [Families -> {"idle", "punches", "met", "failed"}]
        /\ racer'[f] = "met" /\ \A g \in Families \ {f} : racer'[g] = racer[g]
    BY <1>13 DEF PunchReads, Meets, PunchTypeOK
  <2>3. UNCHANGED <<stage, sock, mapping, winner, responder>>
    BY <1>13 DEF PunchReads
  <2> QED BY <2>1, <2>2, <2>3
          DEF PunchTypeOK, RacersHaveSockets, PacketsHaveSenders, NotYetMapped, PunchInv, OpenFamilies
<1>14. ASSUME NEW f \in Families, PunchFails(f) PROVE PunchIInv'
  <2>1. racer[f] = "punches" /\ racer' \in [Families -> {"idle", "punches", "met", "failed"}]
        /\ racer'[f] = "failed" /\ \A g \in Families \ {f} : racer'[g] = racer[g]
    BY <1>14 DEF PunchFails, PunchTypeOK
  <2>2. UNCHANGED <<stage, sock, mapping, winner, responder, toServer, toClient>>
    BY <1>14 DEF PunchFails
  <2> QED BY <2>1, <2>2
          DEF PunchTypeOK, RacersHaveSockets, PacketsHaveSenders, NotYetMapped, PunchInv, OpenFamilies
<1>15. ASSUME NEW f \in Families, RaceWon(f) PROVE PunchIInv'
  <2>1. Closing(Losers(f)) \in [Families -> {"none", "open", "closed"}]
        /\ \A g \in Families : Closing(Losers(f))[g] = "open" <=> g \notin Losers(f) /\ sock[g] = "open"
    BY ClosedIsClosed
  <2>2. sock[f] = "open"
    BY <1>15 DEF RaceWon, RacersHaveSockets
  <2>3. OpenFamilies' = {f}
    BY <1>15, <2>1, <2>2 DEF RaceWon, OpenFamilies, Losers
  <2> QED BY <1>15, <2>1, <2>3
          DEF RaceWon, PunchTypeOK, RacersHaveSockets, PacketsHaveSenders, NotYetMapped, PunchInv
<1>16. ASSUME NEW f \in Families, ResponderReads(f) PROVE PunchIInv'
  <2>1. toClient' \subseteq Families \X PunchTypes /\ toServer' \subseteq toServer /\ toServer # {}
    BY <1>16 DEF ResponderReads, PunchTypeOK, PunchTypes
  <2>2. responder' = "met" /\ UNCHANGED <<stage, sock, mapping, racer, winner>>
    BY <1>16 DEF ResponderReads
  <2> QED BY <2>1, <2>2
          DEF PunchTypeOK, RacersHaveSockets, PacketsHaveSenders, NotYetMapped, PunchInv, OpenFamilies
<1>17. CASE UNCHANGED punchVars
  BY <1>17
     DEF punchVars, PunchTypeOK, RacersHaveSockets, PacketsHaveSenders, NotYetMapped, PunchInv, OpenFamilies
<1> QED BY <1>1, <1>2, <1>3, <1>4, <1>5, <1>6, <1>7, <1>8, <1>9, <1>10, <1>11, <1>12, <1>13, <1>14, <1>15, <1>16, <1>17
        DEF PunchNext

THEOREM TheRaceIsCleanedUp == PunchSpec => []PunchInv
<1>1. PunchSpec => []PunchIInv BY PunchStarts, PunchStepKept, PTL DEF PunchSpec
<1> QED BY <1>1, PTL DEF PunchIInv

-----------------------------------------------------------------------------
(* PortHop: the walk of the dials *)

HopTypeOK ==
  /\ left \subseteq Pool /\ age \in [Pool -> Nat]
  /\ dialed \in [Dials -> [port: 0..PoolPorts, window: Seq(Samples), hopped: Nat, moved: {"no", "draws"}]]

\* A port this round still has was drawn in the last one, at its beginning at the earliest;
\* another was drawn in this one.
Drawn == PoolPorts - Cardinality(left)
AgesAreRounds ==
  \A p \in Pool : age[p] <= IF p \in left THEN PoolPorts - 1 + Drawn ELSE Drawn - 1

\* A window is begun with a hop, or long after.
WindowsAreSince ==
  \A d \in Dials : Len(dialed[d].window) <= DetectSamples /\ Len(dialed[d].window) <= dialed[d].hopped

HopIInv == HopTypeOK /\ AgesAreRounds /\ WindowsAreSince /\ HopInv

LEMMA PoolIsFinite ==
  /\ IsFiniteSet(Pool) /\ Cardinality(Pool) = PoolPorts
  /\ \A S \in SUBSET Pool : IsFiniteSet(S) /\ Cardinality(S) \in Nat /\ Cardinality(S) <= PoolPorts
  /\ \A S \in SUBSET Pool : Cardinality(S) = 0 <=> S = {}
<1>1. IsFiniteSet(Pool) /\ Cardinality(Pool) = PoolPorts
  BY HopConstants, FS_Interval DEF Pool
<1>2. ASSUME NEW S \in SUBSET Pool
      PROVE  IsFiniteSet(S) /\ Cardinality(S) \in Nat /\ Cardinality(S) <= PoolPorts /\ (Cardinality(S) = 0 <=> S = {})
  BY <1>1, FS_Subset, FS_CardinalityType, FS_EmptySet
<1> QED BY <1>1, <1>2

LEMMA WalkStarts == HopInit => HopIInv
<1> SUFFICES ASSUME HopInit PROVE HopIInv
    OBVIOUS
<1> USE HopConstants DEF HopInit
<1>1. HopTypeOK
  BY DEF HopTypeOK, NoDial, LongAgo
<1>2. AgesAreRounds
  BY PoolIsFinite DEF AgesAreRounds, Drawn
<1>3. WindowsAreSince
  BY DEF WindowsAreSince, NoDial, LongAgo
<1>4. HopInv
  BY DEF HopInv, NoDial
<1> QED BY <1>1, <1>2, <1>3, <1>4 DEF HopIInv

\* Whoever draws, the walk goes on.
LEMMA DrawingKeepsTheRounds ==
  ASSUME HopTypeOK, AgesAreRounds, NEW p \in Pool, Draws(p)
  PROVE  /\ left' \subseteq Pool /\ age' \in [Pool -> Nat] /\ AgesAreRounds'
         /\ \A q \in Pool : age'[q] <= 2 * PoolPorts - 2
<1> USE HopConstants
<1>1. p \in Round /\ Round \subseteq Pool /\ left' = Round \ {p} /\ left' \subseteq Pool
  BY DEF Draws, Round, HopTypeOK
<1>2. age' \in [Pool -> Nat] /\ age'[p] = 0 /\ \A q \in Pool \ {p} : age'[q] = age[q] + 1
  BY DEF Draws, DrawAges, HopTypeOK
<1> DEFINE k == Cardinality(Round)
           m == Cardinality(left')
<1>3. k \in Nat /\ k <= PoolPorts /\ m \in Nat /\ m = k - 1
  BY <1>1, PoolIsFinite, FS_RemoveElement
<1>4. \A q \in Pool : age[q] \in Nat /\ age[q] <= (IF q \in Round THEN 2 * PoolPorts - 1 - k ELSE PoolPorts - k - 1)
  <2>1. CASE left = {}
    <3>1. k = PoolPorts /\ Cardinality(left) = 0
      BY <2>1, PoolIsFinite DEF Round
    <3> QED BY <2>1, <3>1 DEF AgesAreRounds, Drawn, Round, HopTypeOK
  <2>2. CASE left # {}
    <3>1. k = Cardinality(left)
      BY <2>2 DEF Round
    <3>2. Round = left /\ Drawn = PoolPorts - k
      BY <2>2, <3>1 DEF Round, Drawn
    <3> HIDE DEF k, m
    <3> QED BY <1>3, <3>2 DEF AgesAreRounds, HopTypeOK
  <2> QED BY <2>1, <2>2
<1> HIDE DEF k, m
<1>5. \A q \in Pool : age'[q] <= (IF q \in left' THEN 2 * PoolPorts - 1 - m ELSE PoolPorts - m - 1)
  BY <1>1, <1>2, <1>3, <1>4
<1>6. AgesAreRounds'
  BY <1>3, <1>5 DEF AgesAreRounds, Drawn, m
<1>7. \A q \in Pool : age'[q] <= 2 * PoolPorts - 2
  <2>1. ASSUME NEW q \in Pool PROVE age'[q] <= 2 * PoolPorts - 2
    <3>1. CASE q \in left'
      <4>1. m # 0
        BY <1>1, <3>1, PoolIsFinite DEF m
      <4> QED BY <1>2, <1>3, <1>5, <3>1, <4>1
    <3>2. CASE q \notin left'
      BY <1>2, <1>3, <1>5, <3>2
    <3> QED BY <3>1, <3>2
  <2> QED BY <2>1
<1> QED BY <1>1, <1>2, <1>6, <1>7

\* A poll's window is no longer than the time since the hop.
LEMMA PollingCounts ==
  ASSUME HopTypeOK, WindowsAreSince, NEW d \in Dials, NEW s \in Samples
  PROVE  /\ Sampled(d, s) \in Seq(Samples) /\ Len(Sampled(d, s)) <= DetectSamples
         /\ Longer(dialed[d].hopped) \in Nat /\ Len(Sampled(d, s)) <= Longer(dialed[d].hopped)
<1> USE HopConstants
<1> DEFINE w == dialed[d].window
           h == dialed[d].hopped
<1>1. w \in Seq(Samples) /\ h \in Nat /\ Len(w) <= DetectSamples /\ Len(w) <= h /\ Len(w) \in Nat
  BY DEF HopTypeOK, WindowsAreSince
<1> HIDE DEF w, h
<1>2. CASE Len(w) < DetectSamples
  <2>1. Sampled(d, s) = Append(w, s)
    BY <1>2 DEF Sampled, w
  <2>2. Append(w, s) \in Seq(Samples) /\ Len(Append(w, s)) = Len(w) + 1
    BY <1>1
  <2> QED BY <1>1, <1>2, <2>1, <2>2 DEF Longer, LongAgo, h
<1>3. CASE Len(w) = DetectSamples
  <2>1. Sampled(d, s) = Append(Tail(w), s)
    BY <1>3 DEF Sampled, w
  <2>2. Tail(w) \in Seq(Samples) /\ Len(Tail(w)) = Len(w) - 1
    BY <1>1, <1>3
  <2>3. Append(Tail(w), s) \in Seq(Samples) /\ Len(Append(Tail(w), s)) = Len(w)
    BY <1>1, <1>3, <2>2
  <2> QED BY <1>1, <1>3, <2>1, <2>3 DEF Longer, LongAgo, h
<1> QED BY <1>1, <1>2, <1>3

\* What becomes of one dial is looked at alone.
LEMMA OneDialMoves ==
  ASSUME HopIInv, NEW d \in Dials, dialed' = [dialed EXCEPT ![d] = dialed'[d]],
         dialed'[d] \in [port: 0..PoolPorts, window: Seq(Samples), hopped: Nat, moved: {"no", "draws"}],
         Len(dialed'[d].window) <= DetectSamples, Len(dialed'[d].window) <= dialed'[d].hopped,
         dialed'[d].moved = "draws" =>
           HopSilent(dialed'[d].window) /\ dialed'[d].hopped >= Cooldown,
         left' \subseteq Pool, age' \in [Pool -> Nat], AgesAreRounds', \A q \in Pool : age'[q] <= 2 * PoolPorts - 2
  PROVE  HopIInv'
<1>1. \A e \in Dials \ {d} : dialed'[e] = dialed[e]
  BY DEF HopIInv, HopTypeOK
<1>2. HopTypeOK'
  BY DEF HopIInv, HopTypeOK
<1>3. WindowsAreSince'
  BY <1>1 DEF HopIInv, WindowsAreSince
<1>4. ASSUME NEW e \in Dials, dialed'[e].moved = "draws"
      PROVE  HopSilent(dialed'[e].window) /\ dialed'[e].hopped >= Cooldown /\ dialed'[e].hopped >= DetectSamples
  <2>1. CASE e = d
    <3>1. Len(dialed'[d].window) = DetectSamples
      BY <1>4, <2>1 DEF HopSilent
    <3> QED BY <1>4, <2>1, <3>1
  <2>2. CASE e # d
    BY <1>1, <1>4, <2>2 DEF HopIInv, HopInv
  <2> QED BY <2>1, <2>2
<1> QED BY <1>2, <1>3, <1>4 DEF HopIInv, HopInv

LEMMA WalkStepKept == HopIInv /\ [HopNext]_hopVars => HopIInv'
<1> SUFFICES ASSUME HopIInv, [HopNext]_hopVars PROVE HopIInv'
    OBVIOUS
<1> USE HopConstants
<1>0. /\ HopTypeOK /\ AgesAreRounds /\ WindowsAreSince
      /\ \A q \in Pool : age[q] <= 2 * PoolPorts - 2
      /\ \A d \in Dials : dialed[d].moved = "draws" => HopSilent(dialed[d].window) /\ dialed[d].hopped >= Cooldown
  BY DEF HopIInv, HopInv
<1> DEFINE Record == [port: 0..PoolPorts, window: Seq(Samples), hopped: Nat, moved: {"no", "draws"}]
<1>1. ASSUME NEW d \in Dials, Dialed(d) PROVE HopIInv'
  <2>1. PICK p \in Pool : Draws(p) /\ dialed' = [dialed EXCEPT ![d].port = p]
    BY <1>1 DEF Dialed
  <2>2. /\ dialed'[d] \in Record /\ dialed' = [dialed EXCEPT ![d] = dialed'[d]]
        /\ dialed'[d].window = dialed[d].window /\ dialed'[d].hopped = dialed[d].hopped
        /\ dialed'[d].moved = dialed[d].moved
    <3>1. dialed[d] \in Record /\ p \in 0..PoolPorts /\ dialed'[d] = [dialed[d] EXCEPT !.port = p]
      BY <1>0, <2>1 DEF HopTypeOK, Pool
    <3>2. dialed' = [dialed EXCEPT ![d] = dialed'[d]]
      BY <1>0, <2>1, <3>1 DEF HopTypeOK
    <3> QED BY <3>1, <3>2
  <2> QED BY <1>0, <2>1, <2>2, DrawingKeepsTheRounds, OneDialMoves DEF WindowsAreSince
<1>2. ASSUME NEW d \in Dials, DialCloses(d) PROVE HopIInv'
  <2>1. UNCHANGED <<left, age>> /\ dialed' = [dialed EXCEPT ![d] = NoDial]
    BY <1>2 DEF DialCloses
  <2>2. /\ dialed'[d] = NoDial /\ dialed'[d] \in Record /\ dialed' = [dialed EXCEPT ![d] = dialed'[d]]
        /\ Len(dialed'[d].window) = 0 /\ dialed'[d].moved = "no"
    BY <1>0, <2>1 DEF HopTypeOK, NoDial, LongAgo
  <2>3. left' \subseteq Pool /\ age' \in [Pool -> Nat] /\ AgesAreRounds' /\ \A q \in Pool : age'[q] <= 2 * PoolPorts - 2
    BY <1>0, <2>1 DEF HopTypeOK, AgesAreRounds, Drawn
  <2> QED BY <2>2, <2>3, OneDialMoves
<1>3. ASSUME NEW d \in Dials, NEW s \in Samples, Polls(d, s) PROVE HopIInv'
  <2>1. /\ UNCHANGED <<left, age>>
        /\ dialed' = [dialed EXCEPT ![d].hopped = Longer(@), ![d].window = Sampled(d, s),
                                    ![d].moved = IF Detects(d, s) THEN "draws" ELSE "no"]
    BY <1>3 DEF Polls
  <2>2. Sampled(d, s) \in Seq(Samples) /\ Longer(dialed[d].hopped) \in Nat
    BY <1>0, PollingCounts
  <2>3. /\ dialed'[d] \in Record /\ dialed' = [dialed EXCEPT ![d] = dialed'[d]]
        /\ dialed'[d].window = Sampled(d, s) /\ dialed'[d].hopped = Longer(dialed[d].hopped)
        /\ dialed'[d].moved = "draws" => Detects(d, s)
    BY <1>0, <2>1, <2>2 DEF HopTypeOK
  <2>4. left' \subseteq Pool /\ age' \in [Pool -> Nat] /\ AgesAreRounds' /\ \A q \in Pool : age'[q] <= 2 * PoolPorts - 2
    BY <1>0, <2>1 DEF HopTypeOK, AgesAreRounds, Drawn
  <2>5. Len(Sampled(d, s)) <= DetectSamples /\ Len(Sampled(d, s)) <= Longer(dialed[d].hopped)
    BY <1>0, PollingCounts
  <2>6. Detects(d, s) => HopSilent(Sampled(d, s)) /\ Longer(dialed[d].hopped) >= Cooldown
    BY DEF Detects
  <2> QED BY <2>3, <2>4, <2>5, <2>6, OneDialMoves
<1>4. ASSUME NEW d \in Dials, HopDraws(d) PROVE HopIInv'
  <2>1. PICK p \in Pool : /\ Draws(p)
                          /\ dialed' = IF p = dialed[d].port THEN dialed ELSE [dialed EXCEPT ![d] = Hopped(d, p)]
    BY <1>4 DEF HopDraws
  <2>2. CASE p = dialed[d].port
    <3>1. dialed'[d] = dialed[d] /\ dialed'[d] \in Record /\ dialed' = [dialed EXCEPT ![d] = dialed'[d]]
      BY <1>0, <2>1, <2>2 DEF HopTypeOK
    <3> QED BY <1>0, <2>1, <3>1, DrawingKeepsTheRounds, OneDialMoves DEF WindowsAreSince
  <2>3. CASE p # dialed[d].port
    <3>1. /\ dialed'[d] = Hopped(d, p) /\ dialed' = [dialed EXCEPT ![d] = dialed'[d]]
          /\ dialed'[d] \in Record
          /\ Len(dialed'[d].window) = 0 /\ dialed'[d].moved = "no" /\ dialed'[d].hopped = 0
      <4>1. dialed[d] \in Record /\ p \in 0..PoolPorts /\ dialed'[d] = Hopped(d, p)
        BY <1>0, <2>1, <2>3 DEF HopTypeOK, Pool
      <4>2. dialed' = [dialed EXCEPT ![d] = dialed'[d]]
        BY <2>1, <2>3, <4>1
      <4>3. Hopped(d, p).port = p /\ Hopped(d, p).window = <<>> /\ Hopped(d, p).hopped = 0 /\ Hopped(d, p).moved = "no"
            /\ Hopped(d, p) = [port |-> p, window |-> <<>>, hopped |-> 0, moved |-> "no"]
        BY <4>1 DEF Hopped
      <4> QED BY <4>1, <4>2, <4>3
    <3>2. left' \subseteq Pool /\ age' \in [Pool -> Nat] /\ AgesAreRounds' /\ \A q \in Pool : age'[q] <= 2 * PoolPorts - 2
      BY <1>0, <2>1, DrawingKeepsTheRounds
    <3> QED BY <3>1, <3>2, OneDialMoves
  <2> QED BY <2>2, <2>3
<1>5. CASE UNCHANGED hopVars
  BY <1>0, <1>5 DEF hopVars, HopIInv, HopTypeOK, AgesAreRounds, Drawn, WindowsAreSince, HopInv
<1> QED BY <1>1, <1>2, <1>3, <1>4, <1>5 DEF HopNext

THEOREM EveryPortComesAround == HopSpec => []HopInv
<1>1. HopSpec => []HopIInv BY WalkStarts, WalkStepKept, PTL DEF HopSpec
<1> QED BY <1>1, PTL DEF HopIInv

-----------------------------------------------------------------------------
(* PortHop: the sockets of one hopping connection *)

HopSocketTypeOK ==
  /\ dials \in 1..HopSockets /\ open \subseteq 1..dials /\ due \subseteq 1..dials /\ felt \subseteq 1..dials
  /\ currentConn \in 1..dials /\ previousConn \in 0..dials
  /\ recv \in [1..HopSockets -> {"none", "reads", "reports", "ended"}]
  /\ hopper \in [at: {"waits", "dials", "swaps", "starts", "ended"}, new: 0..dials, old: 0..dials]
  /\ packets \in Nat /\ errs \in {0, 1}
  /\ hopClose \in [at: {"no", "closes", "done"}, rest: SUBSET (1..dials)]

\* Sockets are replaced by younger ones, and the hop under way has one to install, then one to close.
YoungerReplace ==
  /\ previousConn < currentConn
  /\ hopper.at \in {"waits", "dials", "ended"} => hopper.new = 0 /\ hopper.old = 0
  /\ hopper.at = "swaps" => hopper.new > currentConn /\ hopper.old = 0 /\ (~Lapsed => hopper.new \in open)
  /\ hopper.at = "starts" => hopper.new = currentConn /\ hopper.old < previousConn

\* The close found what is there.
CloseFound == hopClose.rest = IF hopClose.at = "closes" THEN {currentConn, previousConn} \ {0} ELSE {}

HopSocketIInv == HopSocketTypeOK /\ YoungerReplace /\ CloseFound /\ HopSocketInv

LEMMA HopSocketStarts == HopSocketInit => HopSocketIInv
  BY HopSocketConstants DEF HopSocketInit, HopSocketIInv, HopSocketTypeOK, YoungerReplace, CloseFound, HopSocketInv, HopIdle

LEMMA HopSocketStepKept == HopSocketIInv /\ [HopSocketNext]_hopSocketVars => HopSocketIInv'
<1> SUFFICES ASSUME HopSocketIInv, [HopSocketNext]_hopSocketVars PROVE HopSocketIInv'
    OBVIOUS
<1> USE HopSocketConstants DEF HopSocketIInv, HopSocketTypeOK, YoungerReplace, CloseFound, HopSocketInv, HopIdle, HopDone,
                               Lapsed
<1>1. CASE HopBegins
  BY <1>1 DEF HopBegins
<1>2. CASE HopDials
  <2>1. hopper.at = "dials" /\ dials < HopSockets /\ dials' = dials + 1 /\ open' = open \cup {dials + 1}
        /\ UNCHANGED <<due, currentConn, previousConn, recv, packets, errs, hopClose, felt>>
    BY <1>2 DEF HopDials
  <2>2. hopper.new = 0 /\ hopper.old = 0 /\ hopper' = [at |-> "swaps", new |-> dials + 1, old |-> 0]
    BY <1>2, <2>1 DEF HopDials
  <2>3. dials + 1 \in 1..HopSockets /\ 1..dials \subseteq 1..(dials + 1)
    BY <2>1
  <2> QED BY <2>1, <2>2, <2>3
<1>3. CASE HopFails
  BY <1>3 DEF HopFails
<1>4. CASE HopSwaps
  <2>1. hopper.at = "swaps" /\ hopper.old = 0 /\ hopper.new \in 1..dials /\ hopper.new > currentConn
        /\ UNCHANGED <<dials, due, recv, packets, errs, hopClose, felt>>
    BY <1>4 DEF HopSwaps
  <2>2. CASE HopDone
    <3>1. hopper' = HopIdle /\ open' = open \ {hopper.new} /\ UNCHANGED <<currentConn, previousConn>>
      BY <1>4, <2>2 DEF HopSwaps
    <3> QED BY <2>1, <2>2, <3>1
  <2>3. CASE ~HopDone
    <3>1. previousConn' = currentConn /\ currentConn' = hopper.new /\ UNCHANGED open
          /\ hopper'.at = "starts" /\ hopper'.new = hopper.new /\ hopper'.old = previousConn
          /\ hopper' \in [at: {"waits", "dials", "swaps", "starts", "ended"}, new: 0..dials, old: 0..dials]
      BY <1>4, <2>3 DEF HopSwaps
    <3> QED BY <2>1, <2>3, <3>1
  <2> QED BY <2>2, <2>3
<1>5. CASE HopStarts
  <2>1. hopper.at = "starts" /\ hopper.new = currentConn /\ hopper.old < previousConn /\ hopper' = HopIdle
        /\ open' = open \ {hopper.old} /\ UNCHANGED <<dials, due, currentConn, previousConn, packets, errs, hopClose, felt>>
    BY <1>5 DEF HopStarts
  <2>2. recv' \in [1..HopSockets -> {"none", "reads", "reports", "ended"}] /\ recv'[currentConn] = "reads"
        /\ \A s \in 1..HopSockets : s # currentConn => recv'[s] = recv[s]
    BY <1>5, <2>1 DEF HopStarts
  <2>3. HopSocketTypeOK' /\ YoungerReplace' /\ CloseFound'
    BY <2>1, <2>2
  <2>4. open' \subseteq open /\ previousConn # hopper.old /\ currentConn # hopper.old
    BY <2>1
  <2>5. HopSocketInv'
    <3>1. hopper'.at = "waits" /\ hopper'.new = 0 /\ hopper'.old = 0
      BY <2>1
    <3>2. open' \subseteq {currentConn, previousConn} \cup hopClose.rest
      BY <2>1
    <3>3. hopClose.at = "no" => {currentConn, previousConn} \ {0} \subseteq open'
      BY <2>1, <2>4
    <3>4. hopClose.at = "done" => open' = {}
      BY <2>1
    <3>5. \A s \in open' : recv'[s] # "none" /\ (s \in {currentConn, previousConn} => recv'[s] = "reads" \/ s \in felt)
      BY <2>1, <2>2, <2>4
    <3> QED BY <2>1, <3>1, <3>2, <3>3, <3>4, <3>5
  <2> QED BY <2>3, <2>5
<1>6. CASE HopReads
  <2>1. packets' \in Nat /\ errs' \in {0, 1}
        /\ UNCHANGED <<dials, open, due, currentConn, previousConn, recv, hopper, hopClose, felt>>
    BY <1>6 DEF HopReads
  <2> QED BY <2>1
<1>7. CASE HopCloses
  BY <1>7 DEF HopCloses
<1>8. CASE HopClosed
  BY <1>8 DEF HopClosed
<1>9. ASSUME NEW past \in BOOLEAN, SetsDeadline(past) PROVE HopSocketIInv'
  BY <1>9 DEF SetsDeadline
<1>10. ASSUME NEW s \in 1..HopSockets, RecvPacket(s) PROVE HopSocketIInv'
  BY <1>10 DEF RecvPacket
<1>11. ASSUME NEW s \in 1..HopSockets, RecvTimesOut(s) PROVE HopSocketIInv'
  BY <1>11 DEF RecvTimesOut
<1>12. ASSUME NEW s \in 1..HopSockets, RecvReports(s) PROVE HopSocketIInv'
  BY <1>12 DEF RecvReports
<1>13. ASSUME NEW s \in 1..HopSockets, RecvEnds(s) PROVE HopSocketIInv'
  BY <1>13 DEF RecvEnds
<1>14. CASE UNCHANGED hopSocketVars
  BY <1>14 DEF hopSocketVars
<1> QED BY <1>1, <1>2, <1>3, <1>4, <1>5, <1>6, <1>7, <1>8, <1>9, <1>10, <1>11, <1>12, <1>13, <1>14 DEF HopSocketNext

THEOREM NoSocketIsLeftBehind == HopSocketSpec => []HopSocketInv
<1>1. HopSocketSpec => []HopSocketIInv BY HopSocketStarts, HopSocketStepKept, PTL DEF HopSocketSpec
<1> QED BY <1>1, PTL DEF HopSocketIInv

-----------------------------------------------------------------------------
(* Gecko: chunks of one packet *)

ChunkSet == [src: GeckoSources, msg: Nat, idx: Nat \ {0}, total: Nat \ {0}]
EntrySet == [src: GeckoSources, id: 0..(GeckoIds - 1), total: Nat \ {0}, got: SUBSET ChunkSet, deadline: Nat]

\* Chunks that one entry holds are of one number, cut into as many, and apart.
Gathers(got, src, id, total) ==
  /\ IsFiniteSet(got)
  /\ \A c \in got : c.src = src /\ NumberOf(c.msg) = id /\ c.total = total /\ c.idx <= total
  /\ \A c, d \in got : c.idx = d.idx => c = d
Gathered(e) == Gathers(e.got, e.src, e.id, e.total)
Begun(e) == e.got # {} /\ ~Whole(e)

\* What the entries of a reassembly have in common, whether or not one was just made.
Sound(es) ==
  /\ es \subseteq EntrySet /\ IsFiniteSet(es)
  /\ \A e \in es : Gathered(e)
  /\ \A e, o \in es : o.src = e.src /\ o.id = e.id => o = e
  /\ \A s \in GeckoSources : Of(es, s) <= MaxPerSource
  /\ kind = "packet" => Cardinality(es) <= MaxReassembly
GivenWhole(parts) ==
  /\ \A c, d \in parts : c.src = d.src /\ c.total = d.total /\ NumberOf(c.msg) = NumberOf(d.msg)
  /\ \A c \in parts : {d.idx : d \in parts} = 1..c.total /\ Cardinality(parts) = c.total

GeckoTypeOK ==
  /\ kind \in {"packet", "client"} /\ cutBy \in [GeckoSources -> Seq(GeckoTotals)]
  /\ nowGecko \in Nat /\ lastSweep \in Nat /\ lastSweep <= nowGecko

GeckoIInv ==
  /\ GeckoTypeOK /\ Sound(entries) /\ GivenWhole(given)
  /\ \A e \in entries : Begun(e) /\ e.deadline >= lastSweep

LEMMA GeckoStarts == GeckoInit => GeckoIInv
<1> SUFFICES ASSUME GeckoInit PROVE GeckoIInv
    OBVIOUS
<1>1. GeckoTypeOK /\ GivenWhole(given) /\ entries = {}
  BY GeckoConstants DEF GeckoInit, GeckoTypeOK, GivenWhole
<1>2. IsFiniteSet({}) /\ Cardinality({}) = 0
  BY FS_EmptySet
<1>3. \A s : {e \in {} : e.src = s} = {}
  OBVIOUS
<1>4. Sound(entries)
  BY <1>1, <1>2, <1>3, GeckoConstants DEF Sound, Of
<1> QED BY <1>1, <1>4 DEF GeckoIInv

LEMMA NumbersWrap == \A m \in Nat : NumberOf(m) \in 0..(GeckoIds - 1)
  BY GeckoConstants DEF NumberOf

\* Fewer entries are as sound.
LEMMA FewerAreSound ==
  ASSUME NEW es, Sound(es), NEW fs \in SUBSET es
  PROVE  Sound(fs)
<1>1. IsFiniteSet(fs) /\ Cardinality(fs) <= Cardinality(es)
  BY FS_Subset DEF Sound
<1>2. Cardinality(fs) \in Nat /\ Cardinality(es) \in Nat
  BY <1>1, FS_CardinalityType DEF Sound
<1>3. ASSUME NEW s \in GeckoSources PROVE Of(fs, s) <= MaxPerSource
  <2> DEFINE F == {e \in fs : e.src = s}
             E == {e \in es : e.src = s}
  <2>1. IsFiniteSet(E) /\ E \subseteq es /\ F \subseteq E
    BY FS_Subset DEF Sound
  <2>2. Cardinality(F) <= Cardinality(E) /\ Cardinality(F) \in Nat /\ Cardinality(E) \in Nat
    BY <2>1, FS_Subset, FS_CardinalityType
  <2>3. Cardinality(E) <= MaxPerSource
    BY DEF Sound, Of
  <2> QED BY <2>2, <2>3, GeckoConstants DEF Of
<1> QED BY <1>1, <1>2, <1>3, GeckoConstants DEF Sound

\* One more is as sound, if there is room for it.
LEMMA OneMoreIsSound ==
  ASSUME NEW es, Sound(es), NEW e \in EntrySet, Gathered(e),
         \A o \in es : ~(o.src = e.src /\ o.id = e.id), Of(es, e.src) < MaxPerSource,
         kind = "packet" => Cardinality(es) < MaxReassembly
  PROVE  Sound(es \cup {e})
<1> DEFINE fs == es \cup {e}
<1>1. IsFiniteSet(fs) /\ Cardinality(fs) = Cardinality(es) + 1 /\ Cardinality(es) \in Nat
  BY FS_AddElement, FS_CardinalityType DEF Sound
<1>2. ASSUME NEW s \in GeckoSources PROVE Of(fs, s) <= MaxPerSource
  <2> DEFINE E == {o \in es : o.src = s}
  <2>1. IsFiniteSet(E) /\ Cardinality(E) \in Nat /\ Cardinality(E) <= MaxPerSource
    BY FS_Subset, FS_CardinalityType DEF Sound, Of
  <2>2. CASE e.src = s
    <3>1. Of(fs, s) = Cardinality(E \cup {e})
      <4>1. {o \in fs : o.src = s} = E \cup {e}
        BY <2>2
      <4> QED BY <4>1 DEF Of
    <3>2. Cardinality(E) < MaxPerSource
      BY <2>2 DEF Of
    <3>3. e \notin E
      OBVIOUS
    <3> HIDE DEF E, fs
    <3>4. Cardinality(E \cup {e}) = Cardinality(E) + 1
      BY <2>1, <3>3, FS_AddElement
    <3> QED BY <2>1, <3>1, <3>2, <3>4, GeckoConstants
  <2>3. CASE e.src # s
    <3>1. {o \in fs : o.src = s} = E
      BY <2>3
    <3> QED BY <2>1, <3>1 DEF Of
  <2> QED BY <2>2, <2>3
<1>3. /\ fs \subseteq EntrySet /\ \A o \in fs : Gathered(o)
      /\ \A o, p \in fs : p.src = o.src /\ p.id = o.id => p = o
  BY DEF Sound
<1>4. kind = "packet" => Cardinality(fs) <= MaxReassembly
  BY <1>1, GeckoConstants
<1> HIDE DEF fs
<1> QED BY <1>1, <1>2, <1>3, <1>4 DEF Sound, fs

\* One in the place of another of its source and number is as sound.
LEMMA ReplacedIsSound ==
  ASSUME NEW es, Sound(es), NEW o \in es, NEW e \in EntrySet, Gathered(e), e.src = o.src, e.id = o.id
  PROVE  Sound((es \ {o}) \cup {e})
<1> DEFINE rest == es \ {o}
           E == {p \in es : p.src = e.src}
<1>1. Sound(rest)
  BY FewerAreSound
<1>2. IsFiniteSet(es) /\ IsFiniteSet(E) /\ o \in E
  BY FS_Subset DEF Sound
<1>3. Cardinality(rest) = Cardinality(es) - 1 /\ Cardinality(es) \in Nat /\ Cardinality(rest) \in Nat
  BY <1>1, <1>2, FS_RemoveElement, FS_CardinalityType DEF Sound
<1>4. Cardinality(E \ {o}) = Cardinality(E) - 1 /\ Cardinality(E) \in Nat /\ Cardinality(E) <= MaxPerSource
  BY <1>2, FS_RemoveElement, FS_CardinalityType DEF Sound, Of, EntrySet
<1>5. Of(rest, e.src) = Cardinality(E \ {o})
  <2>1. {p \in rest : p.src = e.src} = E \ {o}
    OBVIOUS
  <2> QED BY <2>1 DEF Of
<1>6. Of(rest, e.src) < MaxPerSource
  <2> HIDE DEF rest, E
  <2> QED BY <1>4, <1>5, GeckoConstants
<1>7. kind = "packet" => Cardinality(rest) < MaxReassembly
  BY <1>3, GeckoConstants DEF Sound
<1>8. \A p \in rest : ~(p.src = e.src /\ p.id = e.id)
  BY DEF Sound
<1> HIDE DEF rest, E
<1> QED BY <1>1, <1>6, <1>7, <1>8, OneMoreIsSound DEF rest

\* As many chunks apart as the total are all of them.
LEMMA EveryChunkIsThere ==
  ASSUME NEW e \in EntrySet, Gathered(e), Whole(e)
  PROVE  GivenWhole(e.got)
<1> DEFINE n == e.total
           ix == [c \in e.got |-> c.idx]
<1>1. n \in Nat \ {0} /\ IsFiniteSet(e.got) /\ Cardinality(e.got) = n
  BY DEF EntrySet, Gathered, Gathers, Whole
<1>2. \A c \in e.got : c.idx \in 1..n /\ c.total = n
  BY DEF EntrySet, ChunkSet, Gathered, Gathers
<1>3. ix \in Injection(e.got, 1..n)
  BY <1>2 DEF Gathered, Gathers, Injection, IsInjective
<1>4. IsFiniteSet(1..n) /\ Cardinality(1..n) = n
  <2>1. 1 \in Int /\ n \in Int /\ ~(1 > n) /\ n - 1 + 1 = n
    BY <1>1
  <2> HIDE DEF n
  <2> QED BY <2>1, FS_Interval
<1>5. ix \in Surjection(e.got, 1..n)
  BY <1>1, <1>3, <1>4, FS_Injection
<1>6. {d.idx : d \in e.got} = 1..n
  BY <1>2, <1>5 DEF Surjection
<1> QED BY <1>1, <1>2, <1>6 DEF GivenWhole, Gathered, Gathers

\* A chunk that arrived, for an entry of its source and number.
Meant(e, c) == c \in ChunkSet /\ c.idx <= c.total /\ c.src = e.src /\ NumberOf(c.msg) = e.id

\* What is made of a chunk: it is refused, kept, or the last.
LEMMA TakingIsSound ==
  ASSUME NEW es, Sound(es), NEW e \in es, NEW c, Meant(e, c), Takes(es, e, c), GivenWhole(given),
         \A o \in es \ {e} : Begun(o), ~Refuses(e, c) \/ Begun(e),
         NEW t \in Nat, \A o \in es : o.deadline >= t, UNCHANGED kind
  PROVE  /\ Sound(entries)' /\ GivenWhole(given')
         /\ \A o \in entries' : Begun(o) /\ o.deadline >= t
<1>0. e \in EntrySet /\ Gathered(e)
  BY DEF Sound
<1> DEFINE w == With(e, c)
<1>1. CASE Refuses(e, c)
  BY <1>1 DEF Takes, Sound
<1>2. CASE ~Refuses(e, c)
  <2>1. w.src = e.src /\ w.id = e.id /\ w.total = e.total /\ w.deadline = e.deadline /\ w.got = e.got \cup {c}
        /\ w \in EntrySet
    BY <1>0 DEF With, EntrySet, Meant
  <2>2. Gathered(w)
    <3>1. IsFiniteSet(w.got)
      BY <1>0, <2>1, FS_AddElement DEF Gathered, Gathers
    <3>2. c.total = e.total /\ \A g \in e.got : g.idx # c.idx
      BY <1>2 DEF Refuses
    <3> QED BY <1>0, <2>1, <3>1, <3>2 DEF Gathered, Gathers, Meant
  <2> HIDE DEF w
  <2>3. CASE Whole(w)
    <3>1. entries' = es \ {e} /\ given' = w.got
      BY <1>2, <2>3 DEF Takes, w
    <3>2. Sound(es \ {e})
      BY FewerAreSound
    <3> QED BY <2>1, <2>2, <2>3, <3>1, <3>2, EveryChunkIsThere DEF Sound
  <2>4. CASE ~Whole(w)
    <3>1. entries' = (es \ {e}) \cup {w} /\ given' = given
      BY <1>2, <2>4 DEF Takes, w
    <3>2. Sound((es \ {e}) \cup {w})
      BY <2>1, <2>2, ReplacedIsSound
    <3>3. Begun(w)
      BY <2>1, <2>4 DEF Begun
    <3> QED BY <2>1, <3>1, <3>2, <3>3 DEF Sound
  <2> QED BY <2>3, <2>4
<1> QED BY <1>1, <1>2

\* What is left after the sweep, and that a deadline was not missed.
LEMMA SweepingIsSound ==
  ASSUME GeckoIInv, Swept
  PROVE  /\ GeckoTypeOK' /\ Sound(Kept) /\ lastSweep' \in Nat /\ lastSweep' <= nowGecko
         /\ \A e \in Kept : Begun(e) /\ e.deadline >= lastSweep'
<1>1. Kept \subseteq entries /\ Sound(Kept)
  BY FewerAreSound DEF GeckoIInv, Kept
<1>2. GeckoTypeOK' /\ lastSweep' \in Nat /\ lastSweep' <= nowGecko
  BY DEF GeckoIInv, GeckoTypeOK, Swept
<1>3. \A e \in Kept : e.deadline >= lastSweep'
  BY DEF GeckoIInv, GeckoTypeOK, Sound, EntrySet, Swept, Kept
<1> QED BY <1>1, <1>2, <1>3 DEF GeckoIInv

\* A chunk in the air.
LEMMA AirIsChunks ==
  ASSUME GeckoTypeOK, NEW c \in Air
  PROVE  c \in ChunkSet /\ c.idx <= c.total
<1>0. PICK s \in GeckoSources : \E m \in DOMAIN cutBy[s] : c \in Chunks(s, m, cutBy[s][m])
  BY DEF Air
<1>1. PICK m \in DOMAIN cutBy[s] : c \in Chunks(s, m, cutBy[s][m])
  BY <1>0
<1>2. m \in Nat /\ cutBy[s][m] \in Nat \ {0}
  <2>1. cutBy[s] \in Seq(GeckoTotals)
    BY DEF GeckoTypeOK
  <2>2. m \in 1..Len(cutBy[s]) /\ cutBy[s][m] \in GeckoTotals
    BY <2>1
  <2>3. cutBy[s][m] \in Nat \ {0}
    BY <2>2, GeckoConstants
  <2>4. Len(cutBy[s]) \in Nat
    BY <2>1
  <2> QED BY <2>2, <2>3, <2>4
<1>3. PICK i \in 1..cutBy[s][m] : c = [src |-> s, msg |-> m, idx |-> i, total |-> cutBy[s][m]]
  BY <1>1 DEF Chunks
<1> QED BY <1>2, <1>3 DEF ChunkSet

LEMMA FreshIsSound ==
  ASSUME GeckoTypeOK, NEW c \in ChunkSet
  PROVE  /\ Fresh(c) \in EntrySet /\ Gathered(Fresh(c)) /\ ~Refuses(Fresh(c), c)
         /\ Fresh(c).src = c.src /\ Fresh(c).id = NumberOf(c.msg) /\ Fresh(c).deadline = nowGecko + 2
<1>1. IsFiniteSet({})
  BY FS_EmptySet
<1>2. /\ c.src \in GeckoSources /\ c.msg \in Nat /\ c.idx \in Nat \ {0} /\ c.total \in Nat \ {0}
      /\ NumberOf(c.msg) \in 0..(GeckoIds - 1) /\ nowGecko + 2 \in Nat
  BY NumbersWrap DEF ChunkSet, GeckoTypeOK
<1>3. Fresh(c) = [src |-> c.src, id |-> NumberOf(c.msg), total |-> c.total, got |-> {}, deadline |-> nowGecko + 2]
  BY DEF Fresh
<1>4. /\ Fresh(c).src = c.src /\ Fresh(c).id = NumberOf(c.msg) /\ Fresh(c).total = c.total
      /\ Fresh(c).got = {} /\ Fresh(c).deadline = nowGecko + 2
  BY <1>3
<1>5. Fresh(c) \in EntrySet
  BY <1>2, <1>3 DEF EntrySet
<1>6. Gathered(Fresh(c))
  BY <1>1, <1>4 DEF Gathered, Gathers
<1>7. ~Refuses(Fresh(c), c)
  BY <1>4 DEF Refuses
<1> QED BY <1>4, <1>5, <1>6, <1>7

LEMMA ArrivalsKept ==
  ASSUME GeckoIInv, NEW c \in Air, ChunkArrives(c) \/ ClientChunkArrives(c)
  PROVE  GeckoIInv'
<1>1. Swept /\ kind' = kind
  BY DEF ChunkArrives, ClientChunkArrives, Swept
<1>2. /\ GeckoTypeOK' /\ Sound(Kept) /\ lastSweep' \in Nat /\ lastSweep' <= nowGecko
      /\ \A e \in Kept : Begun(e) /\ e.deadline >= lastSweep'
  BY <1>1, SweepingIsSound
<1>3. GeckoTypeOK /\ GivenWhole(given) /\ c \in ChunkSet /\ c.idx <= c.total
  BY AirIsChunks DEF GeckoIInv
<1>4. ASSUME NEW es, Sound(es), NEW e \in es, Meant(e, c), Takes(es, e, c), \A o \in es \ {e} : Begun(o),
             ~Refuses(e, c) \/ Begun(e), \A o \in es : o.deadline >= lastSweep'
      PROVE  GeckoIInv'
  BY <1>1, <1>2, <1>3, <1>4, TakingIsSound DEF GeckoIInv
<1>5. CASE Found(Kept, c) # {}
  <2>1. PICK e \in Found(Kept, c) : Takes(Kept, e, c)
    BY <1>5 DEF ChunkArrives, ClientChunkArrives
  <2>2. e \in Kept /\ Meant(e, c)
    BY <1>3 DEF Found, Meant
  <2> QED BY <1>2, <1>4, <2>1, <2>2
<1>6. CASE Found(Kept, c) = {} /\ Full(Kept, c)
  <2>1. entries' = Kept /\ given' = given
    BY <1>6 DEF ChunkArrives, ClientChunkArrives
  <2> QED BY <1>1, <1>2, <1>3, <2>1 DEF GeckoIInv, Sound
<1>7. CASE Found(Kept, c) = {} /\ ~Full(Kept, c)
  <2> DEFINE f == Fresh(c)
  <2>1. /\ f \in EntrySet /\ Gathered(f) /\ ~Refuses(f, c) /\ Meant(f, c) /\ f.src = c.src
        /\ f.deadline >= lastSweep' /\ f.id = NumberOf(c.msg)
    BY <1>2, <1>3, FreshIsSound DEF Meant, GeckoTypeOK
  <2> HIDE DEF f
  <2>2. \A o \in Kept : ~(o.src = f.src /\ o.id = f.id)
    BY <1>7, <2>1 DEF Found
  <2>3. Of(Kept, f.src) < MaxPerSource
    <3>1. {o \in Kept : o.src = f.src} \subseteq Kept /\ IsFiniteSet(Kept)
      BY <1>2 DEF Sound
    <3>2. Of(Kept, f.src) \in Nat
      BY <3>1, FS_Subset, FS_CardinalityType DEF Of
    <3> QED BY <1>7, <2>1, <3>2, GeckoConstants DEF Full
  <2>4. ASSUME NEW rest \in SUBSET Kept, Takes(rest \cup {f}, f, c), kind = "packet" => Cardinality(rest) < MaxReassembly
        PROVE  GeckoIInv'
    <3>1. Sound(rest)
      BY <1>2, FewerAreSound
    <3>2. Of(rest, f.src) < MaxPerSource
      <4>1. IsFiniteSet({o \in Kept : o.src = f.src}) /\ {o \in rest : o.src = f.src} \subseteq {o \in Kept : o.src = f.src}
        BY <1>2, FS_Subset DEF Sound
      <4>2. Of(rest, f.src) \in Nat /\ Of(Kept, f.src) \in Nat /\ Of(rest, f.src) <= Of(Kept, f.src)
        BY <4>1, FS_Subset, FS_CardinalityType DEF Of
      <4> QED BY <2>3, <4>2, GeckoConstants
    <3>3. Sound(rest \cup {f})
      BY <2>1, <2>2, <2>4, <3>1, <3>2, OneMoreIsSound
    <3> QED BY <1>2, <1>4, <2>1, <2>4, <3>3
  <2>5. CASE ClientChunkArrives(c)
    <3>1. kind = "client" /\ Takes(Kept \cup {f}, f, c)
      BY <1>7, <2>5 DEF ClientChunkArrives, f
    <3> QED BY <2>4, <3>1
  <2>6. CASE ChunkArrives(c)
    <3>1. PICK es : Makes(Kept, c, es) /\ Takes(es, f, c)
      BY <1>7, <2>6 DEF ChunkArrives, f
    <3>2. Cardinality(Kept) \in Nat /\ IsFiniteSet(Kept)
      BY <1>2, FS_CardinalityType DEF Sound
    <3>3. CASE Cardinality(Kept) >= MaxReassembly
      <4>1. PICK o \in Oldest(Kept) : es = (Kept \ {o}) \cup {f}
        BY <3>1, <3>3 DEF Makes, f
      <4>2. o \in Kept /\ Cardinality(Kept \ {o}) = Cardinality(Kept) - 1
        BY <3>2, FS_RemoveElement DEF Oldest
      <4>3. kind = "packet" => Cardinality(Kept \ {o}) < MaxReassembly
        BY <1>2, <3>2, <4>2, GeckoConstants DEF Sound
      <4> QED BY <2>4, <3>1, <4>1, <4>3
    <3>4. CASE ~(Cardinality(Kept) >= MaxReassembly)
      <4>1. es = Kept \cup {f}
        BY <3>1, <3>4 DEF Makes, f
      <4> QED BY <2>4, <3>1, <3>2, <3>4, <4>1, GeckoConstants
    <3> QED BY <3>3, <3>4
  <2> QED BY <2>5, <2>6
<1> QED BY <1>5, <1>6, <1>7

LEMMA GeckoStepKept == GeckoIInv /\ [GeckoNext]_geckoVars => GeckoIInv'
<1> SUFFICES ASSUME GeckoIInv, [GeckoNext]_geckoVars PROVE GeckoIInv'
    OBVIOUS
<1>1. CASE GeckoTick
  BY <1>1 DEF GeckoTick, GeckoIInv, GeckoTypeOK, Sound
<1>2. ASSUME NEW s \in GeckoSources, NEW t \in GeckoTotals, CutsPacket(s, t) PROVE GeckoIInv'
  <2>1. cutBy' \in [GeckoSources -> Seq(GeckoTotals)]
    BY <1>2 DEF CutsPacket, GeckoIInv, GeckoTypeOK
  <2> QED BY <1>2, <2>1 DEF CutsPacket, GeckoIInv, GeckoTypeOK, Sound
<1>3. ASSUME NEW c \in Air, ChunkArrives(c) \/ ClientChunkArrives(c) PROVE GeckoIInv'
  BY <1>3, ArrivalsKept
<1>4. CASE UNCHANGED geckoVars
  BY <1>4 DEF geckoVars, GeckoIInv, GeckoTypeOK, Sound
<1> QED BY <1>1, <1>2, <1>3, <1>4 DEF GeckoNext

THEOREM PacketsAreTheirOwnChunks == GeckoSpec => []GeckoInv
<1>1. GeckoSpec => []GeckoIInv BY GeckoStarts, GeckoStepKept, PTL DEF GeckoSpec
<1>2. GeckoIInv => GeckoInv BY DEF GeckoIInv, GeckoInv, GivenWhole, Sound, Begun
<1> QED BY <1>1, <1>2, PTL

-----------------------------------------------------------------------------
(* CubicSender: one cut for a flight, and a window within its bounds *)

LEMMA ProductsGrow ==
  ASSUME NEW a \in Nat, NEW b \in Nat, NEW c \in Nat, a <= b
  PROVE  a * c \in Nat /\ b * c \in Nat /\ a * c <= b * c /\ c * a <= c * b
<1>1. PICK d \in Nat : b = a + d
  <2>1. b - a \in Nat /\ b = a + (b - a) OBVIOUS
  <2> QED BY <2>1
<1>2. (a + d) * c = a * c + d * c /\ d * c \in Nat /\ a * c \in Nat /\ c * a = a * c /\ c * b = b * c OBVIOUS
<1> QED BY <1>1, <1>2

LEMMA TheLarger == ASSUME NEW a \in Int, NEW b \in Int PROVE Max({a, b}) = IF a >= b THEN a ELSE b
<1> DEFINE m == IF a >= b THEN a ELSE b
<1>1. m \in {a, b} /\ \A y \in {a, b} : m >= y OBVIOUS
<1>2. \A x \in {a, b} : (\A y \in {a, b} : x >= y) => x = m OBVIOUS
<1> QED BY <1>1, <1>2 DEF Max

LEMMA TheSmaller == ASSUME NEW a \in Int, NEW b \in Int PROVE Min({a, b}) = IF a <= b THEN a ELSE b
<1> DEFINE m == IF a <= b THEN a ELSE b
<1>1. m \in {a, b} /\ \A y \in {a, b} : m <= y OBVIOUS
<1>2. \A x \in {a, b} : (\A y \in {a, b} : x <= y) => x = m OBVIOUS
<1> QED BY <1>1, <1>2 DEF Min

\* A finite set of numbers has a least and a greatest.
LEMMA ExtremesExist ==
  ASSUME NEW S, IsFiniteSet(S), S # {}, S \subseteq Nat
  PROVE  /\ Min(S) \in S /\ \A x \in S : Min(S) <= x
         /\ Max(S) \in S /\ \A x \in S : Max(S) >= x
<1>1. \E x \in S : \A y \in S : x <= y BY LeastNatural
<1>2. \E x \in S : \A y \in S : x >= y
  <2> DEFINE F == {T \in SUBSET S : T = {} \/ \E x \in T : \A y \in T : x >= y}
  <2>1. ASSUME NEW T \in SUBSET S, NEW x \in S, T \in F, x \notin T PROVE T \cup {x} \in F
    <3>1. T \cup {x} \in SUBSET S OBVIOUS
    <3>2. CASE T = {} BY <3>1, <3>2
    <3>3. CASE T # {}
      <4>1. PICK m \in T : \A y \in T : m >= y BY <2>1, <3>3
      <4>2. m \in Nat /\ x \in Nat /\ T \subseteq Nat OBVIOUS
      <4>3. CASE m >= x BY <3>1, <4>1, <4>3
      <4>4. CASE x >= m
        <5>1. \A y \in T \cup {x} : x >= y BY <4>1, <4>2, <4>4
        <5> QED BY <3>1, <5>1
      <4> QED BY <4>2, <4>3, <4>4
    <3> QED BY <3>2, <3>3
  <2>2. {} \in F OBVIOUS
  <2> HIDE DEF F
  <2>3. \A T \in SUBSET S : T \in F BY <2>1, <2>2, SetInduction
  <2>4. S \in F BY <2>3
  <2> QED BY <2>4 DEF F
<1> QED BY <1>1, <1>2 DEF Min, Max

CubicTypes ==
  /\ sentTo \in Nat \cup {NonePN} /\ ackedTo \in Int /\ cutTo \in Int /\ cutTo <= sentTo
  /\ win \in Nat /\ threshold \in Nat /\ dgram \in CubicSizes
  /\ flights \in Nat /\ blamed \subseteq 0..(flights - 1)
  /\ DOMAIN air \subseteq 0..sentTo
  /\ \A p \in DOMAIN air : air[p].size \in Nat /\ air[p].flight \in 0..flights

\* What a loss of a packet that is under way would be blamed on has not been blamed: packets
\* that went out before the last cut do not cut again.
FlightsAreApart == ~cutTwice /\ \A p \in DOMAIN air : p > cutTo => air[p].flight \notin blamed
CutStands == cutTo # NonePN /\ ackedTo <= cutTo => win <= threshold \/ win <= LeastBytes
Bounded == win >= LeastWindow * Min(CubicSizes) /\ win < MostBytes + dgram
CubicIInv == CubicTypes /\ FlightsAreApart /\ CutStands /\ Bounded

\* The least window of a datagram is no less than that of the smallest, and no more than the largest.
LEMMA WindowsOf ==
  ASSUME NEW s \in CubicSizes
  PROVE  /\ s \in Nat /\ s > 0 /\ LeastWindow * s \in Nat /\ LargestWindow * s \in Nat /\ FirstWindow * s \in Nat
         /\ LeastWindow * Min(CubicSizes) \in Nat /\ LeastWindow * Min(CubicSizes) <= LeastWindow * s
         /\ LeastWindow * s <= FirstWindow * s /\ FirstWindow * s <= LargestWindow * s
<1> USE CubicConstants
<1>1. s \in Nat \ {0} /\ Min(CubicSizes) \in Nat /\ Min(CubicSizes) <= s BY ExtremesExist
<1>2. LeastWindow \in Nat /\ FirstWindow \in Nat /\ LargestWindow \in Nat /\ LeastWindow <= FirstWindow /\ FirstWindow <= LargestWindow
  OBVIOUS
<1>3. LeastWindow * s \in Nat /\ FirstWindow * s \in Nat /\ LeastWindow * s <= FirstWindow * s BY <1>1, <1>2, ProductsGrow
<1>4. LargestWindow * s \in Nat /\ FirstWindow * s <= LargestWindow * s BY <1>1, <1>2, ProductsGrow
<1>5. LeastWindow * Min(CubicSizes) \in Nat /\ LeastWindow * Min(CubicSizes) <= LeastWindow * s
  <2>1. LeastWindow * Min(CubicSizes) \in Nat BY <1>1, <1>2
  <2> QED BY <1>1, <1>2, <2>1, ProductsGrow
<1> QED BY <1>1, <1>3, <1>4, <1>5

LEMMA CubicStarts == CubicInit => CubicIInv
<1> SUFFICES ASSUME CubicInit PROVE CubicIInv OBVIOUS
<1>1. dgram \in CubicSizes /\ Max(CubicSizes) \in Nat BY ExtremesExist, CubicConstants DEF CubicInit
<1>2. threshold \in Nat
  <2>1. LargestWindow * Max(CubicSizes) \in Nat BY <1>1, CubicConstants
  <2> QED BY <2>1 DEF CubicInit, Unlimited
<1>3. win = FirstWindow * dgram BY DEF CubicInit
<1>4. CubicTypes BY <1>1, <1>2, <1>3, WindowsOf DEF CubicInit, CubicTypes, NonePN
<1>5. Bounded BY <1>1, <1>3, WindowsOf DEF Bounded, MostBytes
<1> QED BY <1>4, <1>5 DEF CubicInit, CubicIInv, FlightsAreApart, CutStands

LEMMA SendingKeepsWindow == CubicIInv /\ SendsPacket => CubicIInv'
<1> SUFFICES ASSUME CubicIInv, SendsPacket PROVE CubicIInv' OBVIOUS
<1>1. /\ sentTo \in Nat \cup {NonePN} /\ sentTo' = sentTo + 1 /\ flights \in Nat /\ blamed \subseteq 0..(flights - 1)
      /\ DOMAIN air \subseteq 0..sentTo /\ cutTo <= sentTo /\ cutTo \in Int /\ dgram \in Nat
      /\ UNCHANGED <<ackedTo, cutTo, win, threshold, dgram, flights, blamed, cutTwice>>
  BY WindowsOf DEF CubicIInv, CubicTypes, SendsPacket
<1>2. /\ DOMAIN air' = DOMAIN air \cup {sentTo'}
      /\ \A p \in DOMAIN air : p # sentTo' /\ air'[p] = air[p]
      /\ air'[sentTo'].size = dgram /\ air'[sentTo'].flight = flights
  <2>1. \A p \in DOMAIN air : p # sentTo' BY <1>1 DEF NonePN
  <2> QED BY <2>1 DEF SendsPacket
<1>3. sentTo' \in Nat /\ DOMAIN air' \subseteq 0..sentTo' /\ cutTo' <= sentTo'
  BY <1>1, <1>2 DEF NonePN
<1>4. CubicTypes' BY <1>1, <1>2, <1>3 DEF CubicIInv, CubicTypes
<1>5. FlightsAreApart' BY <1>1, <1>2 DEF CubicIInv, FlightsAreApart
<1> QED BY <1>1, <1>4, <1>5 DEF CubicIInv, CutStands, Bounded, LeastBytes, MostBytes

\* A packet of the flight lands: those that stay are as they were.
LEMMA LandingKeeps ==
  ASSUME CubicIInv, NEW p \in DOMAIN air, Landed(p)
  PROVE  /\ p \in Nat /\ p <= sentTo /\ DOMAIN air' \subseteq DOMAIN air /\ \A q \in DOMAIN air' : air'[q] = air[q]
         /\ air[p].size \in Nat /\ air[p].flight \in 0..flights
BY DEF CubicIInv, CubicTypes, Landed, NonePN

LEMMA AckKeepsWindow == ASSUME CubicIInv, NEW p \in DOMAIN air, PacketAcked(p) PROVE CubicIInv'
<1>1. /\ p \in Nat /\ p <= sentTo /\ DOMAIN air' \subseteq DOMAIN air /\ \A q \in DOMAIN air' : air'[q] = air[q]
      /\ air[p].size \in Nat
  BY LandingKeeps DEF PacketAcked
<1>2. /\ UNCHANGED <<sentTo, cutTo, threshold, dgram, flights, blamed, cutTwice>> /\ ackedTo' = Max({p, ackedTo})
      /\ win \in Nat /\ dgram \in CubicSizes /\ ackedTo \in Int /\ cutTo \in Int
  BY DEF PacketAcked, CubicIInv, CubicTypes
<1>3. ackedTo' \in Int /\ ackedTo' >= ackedTo /\ ackedTo' >= p BY <1>1, <1>2, TheLarger
<1>4. MostBytes \in Nat /\ MostBytes' = MostBytes /\ LeastBytes' = LeastBytes /\ dgram \in Nat
  BY <1>2, WindowsOf DEF MostBytes, LeastBytes
<1>5. win' \in Nat /\ win' >= win /\ (win' = win \/ win' < MostBytes + dgram)
  <2>1. CASE UNCHANGED win BY <1>2, <2>1
  <2>2. CASE win < MostBytes /\ win' = win + dgram BY <1>2, <1>4, <2>2
  <2>3. CASE win < MostBytes /\ win' \in CubicGrowth(air[p].size)
    <3>1. PICK w \in win..(win + air[p].size) : win' = Min({w, MostBytes}) BY <2>3 DEF CubicGrowth
    <3>2. w \in Nat /\ w >= win BY <1>1, <1>2, <3>1
    <3>3. dgram > 0 BY <1>2, WindowsOf
    <3> QED BY <1>2, <1>4, <2>3, <3>1, <3>2, <3>3, TheSmaller
  <2> QED BY <2>1, <2>2, <2>3 DEF PacketAcked, Increased
<1>6. CubicTypes' BY <1>1, <1>2, <1>3, <1>5 DEF CubicIInv, CubicTypes
<1>7. FlightsAreApart' BY <1>1, <1>2 DEF CubicIInv, FlightsAreApart
<1>8. CutStands'
  <2> SUFFICES ASSUME cutTo # NonePN, ackedTo' <= cutTo PROVE win' <= threshold \/ win' <= LeastBytes
      BY <1>2, <1>4 DEF CutStands
  <2>1. ackedTo <= cutTo /\ ackedTo' # NonePN BY <1>1, <1>2, <1>3 DEF NonePN
  <2>2. win' = win BY <2>1 DEF PacketAcked, InRecovery
  <2> QED BY <2>1, <2>2 DEF CubicIInv, CutStands
<1>9. Bounded'
  <2>1. LeastWindow * Min(CubicSizes) \in Nat BY <1>2, WindowsOf
  <2> QED BY <1>2, <1>4, <1>5, <2>1 DEF CubicIInv, Bounded
<1> QED BY <1>6, <1>7, <1>8, <1>9 DEF CubicIInv

LEMMA LossKeepsWindow == ASSUME CubicIInv, NEW p \in DOMAIN air, PacketLost(p) PROVE CubicIInv'
<1>1. /\ p \in Nat /\ p <= sentTo /\ DOMAIN air' \subseteq DOMAIN air /\ \A q \in DOMAIN air' : air'[q] = air[q]
      /\ air[p].flight \in 0..flights
  BY LandingKeeps DEF PacketLost
<1>2. /\ UNCHANGED <<sentTo, ackedTo, dgram>> /\ win \in Nat /\ dgram \in CubicSizes /\ flights \in Nat
      /\ sentTo \in Int /\ cutTo \in Int /\ DOMAIN air \subseteq 0..sentTo
  BY DEF PacketLost, CubicIInv, CubicTypes, NonePN
<1>3. /\ LeastBytes' = LeastBytes /\ MostBytes' = MostBytes /\ LeastBytes \in Nat /\ MostBytes \in Nat
      /\ LeastBytes <= MostBytes /\ LeastWindow * Min(CubicSizes) <= LeastBytes /\ LeastWindow * Min(CubicSizes) \in Nat
      /\ dgram \in Nat /\ dgram > 0
  BY <1>2, WindowsOf DEF LeastBytes, MostBytes
<1>4. CASE p <= cutTo
  <2>1. UNCHANGED <<win, threshold, cutTo, flights, blamed, cutTwice>> BY <1>4 DEF PacketLost
  <2>2. CubicTypes' BY <1>1, <1>2, <2>1 DEF CubicIInv, CubicTypes
  <2>3. FlightsAreApart' BY <1>1, <2>1 DEF CubicIInv, FlightsAreApart
  <2> QED BY <1>2, <1>3, <2>1, <2>2, <2>3 DEF CubicIInv, CutStands, Bounded
<1>5. CASE ~(p <= cutTo)
  <2>1. /\ win' = Max({LeastBytes, (7 * win) \div 10}) /\ threshold' = win' /\ cutTo' = sentTo
        /\ flights' = flights + 1 /\ blamed' = blamed \cup {air[p].flight}
        /\ cutTwice' = (cutTwice \/ air[p].flight \in blamed)
    BY <1>5 DEF PacketLost, CutsTo
  <2>2. (7 * win) \div 10 \in Nat /\ (7 * win) \div 10 <= win BY <1>2
  <2>3. win' \in Nat /\ win' >= LeastBytes /\ (win' = LeastBytes \/ win' <= win) BY <1>3, <2>1, <2>2, TheLarger
  <2>4. air[p].flight \notin blamed /\ ~cutTwice BY <1>1, <1>2, <1>5 DEF CubicIInv, FlightsAreApart
  <2>5. CubicTypes'
    <3>1. blamed' \subseteq 0..(flights' - 1)
      <4>1. blamed \subseteq 0..(flights - 1) BY DEF CubicIInv, CubicTypes
      <4>2. flights' - 1 = flights /\ \A f \in 0..(flights - 1) : f \in 0..flights BY <1>2, <2>1
      <4> QED BY <1>1, <2>1, <4>1, <4>2
    <3>2. \A q \in DOMAIN air' : air'[q].size \in Nat /\ air'[q].flight \in 0..flights'
      BY <1>1, <1>2, <2>1 DEF CubicIInv, CubicTypes
    <3> QED BY <1>1, <1>2, <2>1, <2>3, <3>1, <3>2 DEF CubicIInv, CubicTypes
  <2>6. FlightsAreApart'
    <3>1. \A q \in DOMAIN air' : q \in 0..sentTo BY <1>1, <1>2
    <3>2. \A q \in DOMAIN air' : ~(q > cutTo') BY <1>2, <2>1, <3>1
    <3> QED BY <2>1, <2>4, <3>2 DEF FlightsAreApart
  <2>7. CutStands' BY <1>2, <2>1, <2>3 DEF CutStands
  <2>8. Bounded' BY <1>2, <1>3, <2>3 DEF CubicIInv, Bounded
  <2> QED BY <2>5, <2>6, <2>7, <2>8 DEF CubicIInv
<1> QED BY <1>4, <1>5

LEMMA OtherStepsKeepWindow ==
  ASSUME CubicIInv,
         \/ \E b \in BOOLEAN : MaybeExitSlowStart(b) \/ TimedOut(b)
         \/ \E s \in CubicSizes : DatagramGrows(s)
  PROVE  CubicIInv'
<1>1. win \in Nat /\ dgram \in CubicSizes /\ threshold \in Nat BY DEF CubicIInv, CubicTypes
<1>2. /\ LeastBytes \in Nat /\ MostBytes \in Nat /\ LeastBytes <= MostBytes /\ dgram \in Nat /\ dgram > 0
      /\ LeastWindow * Min(CubicSizes) <= LeastBytes /\ LeastWindow * Min(CubicSizes) \in Nat
  BY <1>1, WindowsOf DEF LeastBytes, MostBytes
<1>3. ASSUME NEW b \in BOOLEAN, MaybeExitSlowStart(b) PROVE CubicIInv'
  <2>1. threshold' \in {win, threshold} /\ UNCHANGED <<sentTo, ackedTo, cutTo, win, dgram, air, flights, blamed, cutTwice>>
    BY <1>3 DEF MaybeExitSlowStart
  <2> QED BY <1>1, <2>1 DEF CubicIInv, CubicTypes, FlightsAreApart, CutStands, Bounded, LeastBytes, MostBytes
<1>4. ASSUME NEW b \in BOOLEAN, TimedOut(b) PROVE CubicIInv'
  <2>1. /\ cutTo' = NonePN /\ blamed' = {} /\ UNCHANGED <<sentTo, ackedTo, dgram, air, flights, cutTwice>>
        /\ \/ UNCHANGED <<threshold, win>>
           \/ threshold' = win \div 2 /\ win' = LeastBytes
    BY <1>4 DEF TimedOut
  <2>2. win \div 2 \in Nat BY <1>1
  <2>3. CubicTypes' BY <1>1, <1>2, <2>1, <2>2 DEF CubicIInv, CubicTypes, NonePN
  <2>4. Bounded' BY <1>1, <1>2, <2>1 DEF CubicIInv, Bounded, LeastBytes, MostBytes
  <2> QED BY <2>1, <2>3, <2>4 DEF CubicIInv, FlightsAreApart, CutStands
<1>5. ASSUME NEW s \in CubicSizes, DatagramGrows(s) PROVE CubicIInv'
  <2>1. /\ dgram' = s /\ s > dgram /\ win' = (IF win = LeastBytes THEN LeastWindow * s ELSE win)
        /\ UNCHANGED <<sentTo, ackedTo, cutTo, threshold, air, flights, blamed, cutTwice>>
    BY <1>5 DEF DatagramGrows
  <2>2. /\ s \in Nat /\ LeastBytes' = LeastWindow * s /\ MostBytes' = LargestWindow * s /\ LeastWindow * s \in Nat
        /\ LargestWindow * s \in Nat /\ LeastWindow * s <= LargestWindow * s /\ LeastWindow * Min(CubicSizes) <= LeastWindow * s
    BY <2>1, WindowsOf DEF LeastBytes, MostBytes
  <2>3. LeastBytes <= LeastBytes' /\ MostBytes <= MostBytes'
    <3>1. dgram <= s /\ LeastWindow \in Nat /\ LargestWindow \in Nat BY <1>2, <2>1, <2>2, CubicConstants
    <3>2. LeastWindow * dgram <= LeastWindow * s /\ LargestWindow * dgram <= LargestWindow * s
      BY <1>2, <2>2, <3>1, ProductsGrow
    <3> QED BY <2>2, <3>2 DEF LeastBytes, MostBytes
  <2>4. CubicTypes' BY <1>1, <2>1, <2>2 DEF CubicIInv, CubicTypes
  <2>5. CutStands' BY <1>1, <1>2, <2>1, <2>2, <2>3 DEF CubicIInv, CutStands
  <2>6. Bounded' BY <1>1, <1>2, <2>1, <2>2, <2>3 DEF CubicIInv, Bounded
  <2> QED BY <2>1, <2>4, <2>5, <2>6 DEF CubicIInv, FlightsAreApart
<1> QED BY <1>3, <1>4, <1>5

LEMMA CubicStepKeepsWindow == CubicIInv /\ [CubicNext]_cubicVars => CubicIInv'
<1> SUFFICES ASSUME CubicIInv, [CubicNext]_cubicVars PROVE CubicIInv' OBVIOUS
<1>1. CASE UNCHANGED cubicVars
  BY <1>1 DEF cubicVars, CubicIInv, CubicTypes, FlightsAreApart, CutStands, Bounded, LeastBytes, MostBytes
<1>2. CASE CubicNext
  BY <1>2, SendingKeepsWindow, AckKeepsWindow, LossKeepsWindow, OtherStepsKeepWindow DEF CubicNext
<1> QED BY <1>1, <1>2

\* For any datagram sizes, windows and timeouts, of Reno and of whatever Cubic grows by: the
\* losses of one flight cut the window once (OnCongestionEvent), a window that was cut does not
\* grow until a packet sent after the cut arrives, and it keeps within a datagram of its bounds.
THEOREM LossesCutOnce == CubicSpec => []CubicInv
<1>1. CubicIInv => CubicInv
  <2> SUFFICES ASSUME CubicIInv PROVE CubicInv OBVIOUS
  <2>1. threshold \in Nat /\ LeastBytes \in Nat /\ win \in Nat BY WindowsOf DEF CubicIInv, CubicTypes, LeastBytes
  <2>2. Max({threshold, LeastBytes}) = IF threshold >= LeastBytes THEN threshold ELSE LeastBytes BY <2>1, TheLarger
  <2> QED BY <2>1, <2>2 DEF CubicIInv, CubicInv, FlightsAreApart, CutStands, Bounded
<1>2. CubicSpec => []CubicIInv BY CubicStarts, CubicStepKeepsWindow, PTL DEF CubicSpec
<1> QED BY <1>1, <1>2, PTL

-----------------------------------------------------------------------------
(* The erasure sender of TuicBBR: a step of compensation a round *)

\* What was paid for was paid by the round of the last step, and no round pays twice.
ErasureIInv ==
  /\ arrivalLevel \in ArrivalLevels /\ applied \in ArrivalLevels \cup {Unset} /\ seededLevel \in ArrivalLevels
  /\ paidRound \in Nat /\ bbrRound \in Nat /\ paidRound <= bbrRound /\ timedPath \in BOOLEAN
  /\ fromLevel \in ArrivalLevels /\ fromRound \in Nat
  /\ fromLevel - Applied <= paidRound - fromRound
  /\ ~timedPath => arrivalLevel = seededLevel

\* However the losses of a path look: once a round at the most a sender takes a step of
\* compensation (compensationFor), and before a round trip is measured it keeps to the model's.
THEOREM CompensationIsSlow == ErasureSpec => []ErasureInv
<1> USE ErasureConstants DEF ArrivalLevels, Unset, Applied
<1>1. ErasureInit => ErasureIInv
  <2> SUFFICES ASSUME ErasureInit PROVE ErasureIInv OBVIOUS
  <2>1. seededLevel \in Nat /\ seededLevel <= TopLevel BY DEF ErasureInit
  <2>2. Applied = seededLevel BY <2>1 DEF ErasureInit
  <2>3. /\ arrivalLevel = seededLevel /\ fromLevel = seededLevel /\ applied \in {TopLevel, seededLevel, -1}
        /\ paidRound = 0 /\ bbrRound = 0 /\ fromRound = 0 /\ timedPath = FALSE
    BY DEF ErasureInit
  <2>4. fromLevel - Applied <= paidRound - fromRound
    <3> HIDE DEF Applied
    <3> QED BY <2>1, <2>2, <2>3
  <2>5. seededLevel \in ArrivalLevels /\ TopLevel \in ArrivalLevels BY DEF ErasureInit
  <2> HIDE DEF Applied, ArrivalLevels
  <2>6. arrivalLevel \in ArrivalLevels /\ fromLevel \in ArrivalLevels /\ applied \in ArrivalLevels \cup {Unset}
    BY <2>3, <2>5
  <2>7. paidRound \in Nat /\ bbrRound \in Nat /\ paidRound <= bbrRound /\ fromRound \in Nat BY <2>3
  <2>8. timedPath \in BOOLEAN /\ (~timedPath => arrivalLevel = seededLevel) BY <2>3
  <2> QED BY <2>4, <2>5, <2>6, <2>7, <2>8 DEF ErasureIInv
<1>2. ErasureIInv /\ [ErasureNext]_erasureVars => ErasureIInv'
  <2> SUFFICES ASSUME ErasureIInv, [ErasureNext]_erasureVars PROVE ErasureIInv' OBVIOUS
  <2>1. CASE UNCHANGED erasureVars BY <2>1 DEF erasureVars, ErasureIInv
  <2>2. ASSUME NEW want \in ArrivalLevels, NEW delivered \in DeliveredRates, NEW newRound \in BOOLEAN,
               NEW timed \in BOOLEAN, ErasureEvent(want, delivered, newRound, timed)
        PROVE  ErasureIInv'
    <3>1. /\ bbrRound' \in {bbrRound, bbrRound + 1} /\ bbrRound' \in Nat /\ timedPath' = (timedPath \/ timed)
          /\ seededLevel' = seededLevel
      BY <2>2 DEF ErasureEvent, ErasureIInv
    <3>2. CASE ~timedPath'
      <4>1. UNCHANGED <<arrivalLevel, applied, paidRound, fromLevel, fromRound>> BY <2>2, <3>2 DEF ErasureEvent
      <4> QED BY <3>1, <3>2, <4>1 DEF ErasureIInv
    <3>3. CASE timedPath'
      <4>1. CompensationFor(want, delivered) BY <2>2, <3>3 DEF ErasureEvent
      <4>2. CASE Raises(want)
        BY <3>1, <3>3, <4>1, <4>2 DEF CompensationFor, ErasureIInv, Raises
      <4>3. CASE ~Raises(want) /\ bbrRound' = paidRound
        BY <3>1, <3>3, <4>1, <4>3 DEF CompensationFor, ErasureIInv, Raises, HoldsBack
      <4>4. CASE ~Raises(want) /\ bbrRound' # paidRound
        BY <3>1, <3>3, <4>1, <4>4 DEF CompensationFor, ErasureIInv, Raises, HoldsBack
      <4> QED BY <4>2, <4>3, <4>4
    <3> QED BY <3>2, <3>3 DEF ErasureEvent
  <2> QED BY <2>1, <2>2 DEF ErasureNext
<1>3. ErasureIInv => ErasureInv BY DEF ErasureIInv, ErasureInv
<1> QED BY <1>1, <1>2, <1>3, PTL DEF ErasureSpec

-----------------------------------------------------------------------------
(* TuicBBR: recoveries last and windows fit *)

BBRTypes ==
  /\ sentPN \in Nat \cup {-1} /\ flying \subseteq 0..sentPN /\ size \in DatagramSizes
  /\ mode \in {"startup", "drain", "probeBW", "probeRTT"} /\ fullBandwidth \in BOOLEAN
  /\ estimate \in Nat /\ peak \in Nat
  /\ roundEnd \in Nat \cup {-1} /\ roundEnd <= sentPN /\ topAcked \in Nat \cup {-1} /\ topAcked <= sentPN
  /\ lostAt \in Int /\ recoveryEnd \in Int
  /\ recovery \in {"none", "conservation", "growth"} /\ recoveryWindow \in Nat
WindowsHold ==
  /\ cwnd \in MinCwnd..MaxCwnd /\ initial \in MinCwnd..MaxCwnd
  /\ recovery # "none" => recoveryWindow >= MinCwnd
BBRIInv == BBRTypes /\ ModesFit /\ RecoveryLasts /\ WindowsHold

LEMMA ClampedWithin ==
  ASSUME NEW w \in Int, NEW least \in Int, NEW most \in Int, least <= most
  PROVE  Clamped(w, least, most) \in least..most
BY DEF Clamped, LeastOf, MostOf

LEMMA CwndsOf ==
  ASSUME NEW s \in DatagramSizes
  PROVE  /\ s \in Nat \ {0} /\ MinPackets * s \in Nat /\ MaxPackets * s \in Nat /\ MinPackets * s <= MaxPackets * s
         /\ InitialPackets * s \in (MinPackets * s)..(MaxPackets * s)
<1>1. /\ s \in Nat \ {0} /\ MinPackets \in Nat /\ InitialPackets \in Nat /\ MaxPackets \in Nat
      /\ MinPackets <= InitialPackets /\ InitialPackets <= MaxPackets
  BY BBRConstants
<1>2. MinPackets * s \in Nat /\ InitialPackets * s \in Nat /\ MinPackets * s <= InitialPackets * s BY <1>1, ProductsGrow
<1>3. MaxPackets * s \in Nat /\ InitialPackets * s <= MaxPackets * s BY <1>1, ProductsGrow
<1> QED BY <1>1, <1>2, <1>3

LEMMA CwndBounds ==
  ASSUME size \in DatagramSizes
  PROVE  MinCwnd \in Nat /\ MaxCwnd \in Nat /\ MinCwnd <= MaxCwnd /\ size \in Nat \ {0}
BY CwndsOf DEF MinCwnd, MaxCwnd

LEMMA BBRStarts == BBRInit => BBRIInv
<1> SUFFICES ASSUME BBRInit PROVE BBRIInv OBVIOUS
<1>1. PICK s \in DatagramSizes : \A t \in DatagramSizes : s <= t BY BBRConstants
<1>2. size \in DatagramSizes
  <2>1. \A t \in DatagramSizes : t \in Nat BY BBRConstants
  <2>2. Min(DatagramSizes) \in DatagramSizes BY <1>1, <2>1 DEF Min
  <2> QED BY <2>2 DEF BBRInit
<1>3. Min(BBRRates) \in Nat
  <2>1. PICK r \in BBRRates : \A t \in BBRRates : r <= t BY BBRConstants
  <2>2. Min(BBRRates) \in BBRRates BY <2>1 DEF Min
  <2> QED BY <2>2, BBRConstants
<1>4. estimate \in Nat /\ peak = estimate BY <1>3 DEF BBRInit
<1>5. MinCwnd \in Nat /\ MaxCwnd \in Nat /\ MinCwnd <= MaxCwnd BY <1>2, CwndBounds
<1>6. initial \in MinCwnd..MaxCwnd
  <2>1. initial = InitialPackets * size BY DEF BBRInit
  <2> QED BY <1>2, <2>1, CwndsOf DEF MinCwnd, MaxCwnd
<1>7. cwnd \in MinCwnd..MaxCwnd
  <2>1. (estimate * CwndGain) \div 4 \in Int BY <1>4 DEF CwndGain
  <2> DEFINE w == (estimate * CwndGain) \div 4
  <2>2. w \in Int BY <2>1
  <2> HIDE DEF w
  <2>3. Clamped(w, MinCwnd, MaxCwnd) \in MinCwnd..MaxCwnd BY <1>5, <2>2, ClampedWithin
  <2> QED BY <1>6, <2>3 DEF BBRInit, w
<1>8. BBRTypes BY <1>2, <1>4 DEF BBRInit, BBRTypes
<1>9. ModesFit /\ RecoveryLasts BY DEF BBRInit, ModesFit, RecoveryLasts
<1>10. WindowsHold BY <1>6, <1>7 DEF BBRInit, WindowsHold
<1> QED BY <1>8, <1>9, <1>10 DEF BBRIInv

LEMMA SendingKeepsRecovery == ASSUME BBRIInv, NEW fresh \in BOOLEAN, SendsData(fresh) PROVE BBRIInv'
<1>1. /\ sentPN' = sentPN + 1 /\ flying' = flying \cup {sentPN'} /\ estimate' \in {peak, estimate}
      /\ cwnd' \in {cwnd, MostOf(cwnd, LeastOf(peak, MaxCwnd))}
      /\ UNCHANGED <<mode, fullBandwidth, roundEnd, size, initial, peak, recovery, recoveryEnd, recoveryWindow, lostAt, topAcked>>
  BY DEF SendsData
<1>2. /\ sentPN \in Nat \cup {-1} /\ flying \subseteq 0..sentPN /\ size \in DatagramSizes /\ peak \in Nat /\ estimate \in Nat
      /\ cwnd \in MinCwnd..MaxCwnd /\ roundEnd \in Int /\ roundEnd <= sentPN /\ topAcked \in Int /\ topAcked <= sentPN
  BY DEF BBRIInv, BBRTypes, WindowsHold
<1>3. MinCwnd \in Nat /\ MaxCwnd \in Nat /\ MinCwnd' = MinCwnd /\ MaxCwnd' = MaxCwnd
  BY <1>1, <1>2, CwndBounds DEF MinCwnd, MaxCwnd
<1>4. cwnd' \in MinCwnd..MaxCwnd BY <1>1, <1>2, <1>3 DEF MostOf, LeastOf
<1>5. sentPN' \in Nat /\ flying' \subseteq 0..sentPN' /\ roundEnd' <= sentPN' /\ topAcked' <= sentPN'
  BY <1>1, <1>2
<1>6. BBRTypes' BY <1>1, <1>2, <1>5 DEF BBRIInv, BBRTypes
<1>7. RecoveryLasts' BY <1>1, <1>5 DEF BBRIInv, RecoveryLasts
<1>8. WindowsHold' BY <1>1, <1>3, <1>4 DEF BBRIInv, WindowsHold
<1> QED BY <1>1, <1>6, <1>7, <1>8 DEF BBRIInv, ModesFit

LEMMA SizeKeepsWindows == ASSUME BBRIInv, NEW s \in DatagramSizes, SizeSet(s) PROVE BBRIInv'
<1> DEFINE least == MinPackets * s
           most == MaxPackets * s
           first == Clamped((initial * s) \div size, least, most)
<1>1. /\ size' = s /\ initial' = first
      /\ cwnd' = (IF cwnd = MinCwnd THEN least ELSE IF cwnd = initial THEN first ELSE Clamped(cwnd, least, most))
      /\ recoveryWindow' = Clamped(recoveryWindow, least, most)
      /\ UNCHANGED <<sentPN, flying, mode, fullBandwidth, roundEnd, estimate, peak, recovery, recoveryEnd, lostAt, topAcked>>
  BY DEF SizeSet
<1>2. /\ s \in Nat /\ least \in Nat /\ most \in Nat /\ least <= most BY CwndsOf
<1>3. /\ size \in Nat \ {0} /\ MinCwnd \in Nat /\ MaxCwnd \in Nat /\ cwnd \in MinCwnd..MaxCwnd
      /\ initial \in MinCwnd..MaxCwnd /\ recoveryWindow \in Nat
  BY CwndBounds DEF BBRIInv, BBRTypes, WindowsHold
<1>4. MinCwnd' = least /\ MaxCwnd' = most BY <1>1 DEF MinCwnd, MaxCwnd
<1>5. first \in least..most
  <2>1. initial * s \in Nat BY <1>2, <1>3
  <2> DEFINE w == (initial * s) \div size
  <2>2. w \in Int BY <1>3, <2>1
  <2>4. least \in Int /\ most \in Int /\ least <= most BY <1>2
  <2> HIDE DEF least, most, w
  <2>3. Clamped(w, least, most) \in least..most BY <2>2, <2>4, ClampedWithin
  <2> QED BY <2>3 DEF w
<1> HIDE DEF first, least, most
<1>6. cwnd' \in least..most
  <2>2. cwnd \in Int /\ least \in Int /\ most \in Int BY <1>2, <1>3
  <2>1. Clamped(cwnd, least, most) \in least..most BY <1>2, <2>2, ClampedWithin
  <2> QED BY <1>1, <1>2, <1>5, <2>1
<1>7. recoveryWindow' \in least..most BY <1>1, <1>2, <1>3, ClampedWithin
<1>8. BBRTypes' BY <1>1, <1>2, <1>7 DEF BBRIInv, BBRTypes
<1>9. WindowsHold' BY <1>1, <1>2, <1>4, <1>5, <1>6, <1>7 DEF WindowsHold
<1> QED BY <1>1, <1>8, <1>9 DEF BBRIInv, ModesFit, RecoveryLasts

\* The newest packet acknowledged is one that was sent.
LEMMA NewestWasSent ==
  ASSUME BBRTypes, NEW acks \in SUBSET flying
  PROVE  /\ NewestAcked(acks) \in Int /\ NewestAcked(acks) <= sentPN /\ NewestAcked(acks) >= -1
         /\ Cardinality(acks) \in Nat
<1>1. sentPN \in Int /\ sentPN >= -1 /\ acks \subseteq 0..sentPN BY DEF BBRTypes
<1>2. IsFiniteSet(acks) /\ Cardinality(acks) \in Nat
  <2>1. IsFiniteSet(0..sentPN) BY <1>1, FS_Interval
  <2> QED BY <1>1, <2>1, FS_Subset, FS_CardinalityType
<1>3. CASE acks = {} BY <1>1, <1>2, <1>3 DEF NewestAcked
<1>4. CASE acks # {}
  <2>1. acks \subseteq Nat BY <1>1
  <2>2. Max(acks) \in acks BY <1>2, <1>4, <2>1, ExtremesExist
  <2>3. NewestAcked(acks) \in 0..sentPN BY <1>1, <1>4, <2>2 DEF NewestAcked
  <2> QED BY <1>1, <1>2, <2>3
<1> QED BY <1>3, <1>4

\* What an event makes of the recovery.
LEMMA RecoveryMoves ==
  ASSUME BBRTypes, RecoveryLasts, NEW acks \in SUBSET flying, NEW fails,
         recovery' = RecoveryAfter(acks, fails), recoveryEnd' = EndAfter(acks, fails),
         roundEnd' = (IF StartsRound(acks) \/ Enters(acks, fails) THEN sentPN ELSE roundEnd),
         lostAt' = (IF Counts(acks, fails) THEN sentPN ELSE lostAt),
         topAcked' = MostOf(topAcked, NewestAcked(acks)), sentPN' = sentPN,
         fullBandwidth => fullBandwidth', LossIsCongestion \in BOOLEAN
  PROVE  /\ recovery' \in {"none", "conservation", "growth"} /\ recoveryEnd' \in Int
         /\ roundEnd' \in Nat \cup {-1} /\ roundEnd' <= sentPN /\ lostAt' \in Int
         /\ topAcked' \in Nat \cup {-1} /\ topAcked' <= sentPN /\ RecoveryLasts'
<1> DEFINE newest == NewestAcked(acks)
           counts == Counts(acks, fails)
<1>1. newest \in Int /\ newest <= sentPN /\ newest >= -1 BY NewestWasSent
<1>2. /\ sentPN \in Nat \cup {-1} /\ roundEnd \in Nat \cup {-1} /\ roundEnd <= sentPN /\ topAcked \in Int /\ topAcked <= sentPN /\ topAcked \in Nat \cup {-1}
      /\ lostAt \in Int /\ recoveryEnd \in Int /\ recovery \in {"none", "conservation", "growth"}
  BY DEF BBRTypes
<1>3. topAcked' \in Nat \cup {-1} /\ topAcked' <= sentPN /\ topAcked' >= topAcked /\ topAcked' >= newest
      /\ (topAcked' = topAcked \/ topAcked' = newest)
  BY <1>1, <1>2 DEF MostOf
<1>4. roundEnd' \in Nat \cup {-1} /\ roundEnd' <= sentPN /\ lostAt' \in Int /\ recoveryEnd' \in Int BY <1>2 DEF EndAfter
<1>5. /\ lostAt > topAcked => recovery # "none"
      /\ recovery # "none" => LossIsCongestion /\ fullBandwidth /\ recoveryEnd = lostAt
      /\ recovery = "conservation" => topAcked <= roundEnd
  BY DEF RecoveryLasts
<1>6. counts => LossIsCongestion /\ fullBandwidth /\ acks # {} BY DEF Counts
<1>7. CASE ~fullBandwidth \/ acks = {}
  <2>1. recovery' = recovery /\ ~counts /\ recoveryEnd' = recoveryEnd /\ lostAt' = lostAt
    BY <1>6, <1>7 DEF RecoveryAfter, EndAfter
  <2>2. recovery = "conservation" => roundEnd' = roundEnd /\ topAcked' = topAcked
    <3> SUFFICES ASSUME recovery = "conservation" PROVE roundEnd' = roundEnd /\ topAcked' = topAcked OBVIOUS
    <3>1. acks = {} BY <1>5, <1>7
    <3>2. newest = -1 BY <3>1 DEF NewestAcked
    <3>3. ~Enters(acks, fails) BY DEF Enters
    <3>4. roundEnd' = roundEnd BY <1>2, <3>2, <3>3 DEF StartsRound
    <3>5. topAcked' = topAcked BY <1>2, <3>2 DEF MostOf
    <3> QED BY <3>4, <3>5
  <2> QED BY <1>2, <1>3, <1>4, <1>5, <2>1, <2>2 DEF RecoveryLasts
<1>8. CASE fullBandwidth /\ acks # {}
  <2>1. CASE recovery = "none"
    <3>1. recovery' = IF counts THEN "conservation" ELSE "none" BY <1>8, <2>1 DEF RecoveryAfter
    <3>2. CASE counts
      <4>1. Enters(acks, fails) BY <2>1, <3>2 DEF Enters
      <4>2. roundEnd' = sentPN /\ recoveryEnd' = sentPN /\ lostAt' = sentPN BY <3>2, <4>1 DEF EndAfter
      <4> QED BY <1>2, <1>3, <1>4, <1>6, <3>1, <3>2, <4>2 DEF RecoveryLasts
    <3>3. CASE ~counts
      <4>1. lostAt' = lostAt /\ recovery' = "none" BY <3>1, <3>3
      <4> QED BY <1>2, <1>3, <1>4, <1>5, <2>1, <4>1 DEF RecoveryLasts
    <3> QED BY <3>2, <3>3
  <2>2. CASE recovery # "none" /\ ~counts /\ newest > EndAfter(acks, fails)
    <3>1. recovery' = "none" /\ recoveryEnd' = recoveryEnd /\ lostAt' = lostAt /\ newest > recoveryEnd
      BY <1>8, <2>2 DEF RecoveryAfter, EndAfter
    <3>2. ~(lostAt' > topAcked') BY <1>1, <1>2, <1>3, <1>5, <2>2, <3>1
    <3> QED BY <1>2, <1>3, <1>4, <3>1, <3>2 DEF RecoveryLasts
  <2>3. CASE recovery # "none" /\ ~(~counts /\ newest > EndAfter(acks, fails))
    <3>1. recovery' = IF recovery = "conservation" /\ StartsRound(acks) THEN "growth" ELSE recovery
      BY <1>8, <2>3 DEF RecoveryAfter
    <3>2. recovery' # "none" /\ recovery' \in {"none", "conservation", "growth"} BY <1>2, <2>3, <3>1
    <3>3. recoveryEnd' = lostAt' BY <1>5, <2>3 DEF EndAfter
    <3>4. ~Enters(acks, fails) BY <2>3 DEF Enters
    <3>5. recovery' = "conservation" => topAcked' <= roundEnd'
      <4> SUFFICES ASSUME recovery' = "conservation" PROVE topAcked' <= roundEnd' OBVIOUS
      <4>1. recovery = "conservation" /\ ~StartsRound(acks) BY <3>1
      <4>2. roundEnd' = roundEnd /\ newest <= roundEnd BY <1>1, <1>2, <3>4, <4>1 DEF StartsRound
      <4> QED BY <1>2, <1>3, <1>5, <4>1, <4>2
    <3> QED BY <1>2, <1>3, <1>4, <1>5, <2>3, <3>2, <3>3, <3>5 DEF RecoveryLasts
  <2> QED BY <2>1, <2>2, <2>3
<1> QED BY <1>7, <1>8

\* What an event makes of the mode.
LEMMA ModesMove ==
  ASSUME ModesFit, mode \in {"startup", "drain", "probeBW", "probeRTT"}, NEW rest, NEW probed, NEW over,
         mode' = ModeAfter(ModeDrained(rest), probed, over),
         fullBandwidth => fullBandwidth'
  PROVE  mode' \in {"startup", "drain", "probeBW", "probeRTT"} /\ ModesFit'
<1> DEFINE m == ModeDrained(rest)
<1>1. /\ m \in {"startup", "drain", "probeBW", "probeRTT"} /\ (m = "startup" => ~fullBandwidth')
      /\ (m \in {"drain", "probeBW"} => fullBandwidth')
  BY DEF ModeDrained, ModesFit
<1> HIDE DEF m
<1>2. mode' \in {m, "probeRTT"} \/ mode' = (IF fullBandwidth' THEN "probeBW" ELSE "startup") BY DEF ModeAfter, m
<1> QED BY <1>1, <1>2 DEF ModesFit

LEMMA EventKeepsWindows ==
  ASSUME BBRIInv, NEW acks \in SUBSET flying, NEW fails \in SUBSET (flying \ acks),
         NEW rate \in Nat, NEW turn, NEW expired, NEW over, NEW limited, NEW lossy, NEW height \in {0, 1}, NEW draw,
         CongestionEvent(acks, fails, rate, turn, expired, over, limited, lossy, height, draw)
  PROVE  BBRIInv'
<1> DEFINE gained == Cardinality(acks)
           gone == Cardinality(fails)
           rest == Cardinality(flying) - Cardinality(acks) - Cardinality(fails)
           entered == IF Enters(acks, fails) THEN 0 ELSE recoveryWindow
<1>1. /\ flying' = flying \ (acks \cup fails) /\ estimate' \in {estimate, rate}
      /\ peak' = MostOf(peak, estimate') /\ recovery' = RecoveryAfter(acks, fails) /\ recoveryEnd' = EndAfter(acks, fails)
      /\ roundEnd' = (IF StartsRound(acks) \/ Enters(acks, fails) THEN sentPN ELSE roundEnd)
      /\ lostAt' = (IF Counts(acks, fails) THEN sentPN ELSE lostAt)
      /\ topAcked' = MostOf(topAcked, NewestAcked(acks))
      /\ UNCHANGED <<sentPN, size, initial>>
  BY DEF CongestionEvent
<1>2. /\ mode' = ModeAfter(ModeDrained(rest), Probing(ModeDrained(rest), expired), over)
      /\ cwnd' = CwndAfter(gained, height) /\ recoveryWindow' = RecoveryWindowAfter(entered, gained, gone, rest)
  BY DEF CongestionEvent
<1>3. fullBandwidth' \in BOOLEAN /\ (fullBandwidth => fullBandwidth')
  <2>1. \E seen : fullBandwidth' = FullAfter(acks, limited, lossy, seen) BY DEF CongestionEvent
  <2>2. fullBandwidth \in BOOLEAN BY DEF BBRIInv, BBRTypes
  <2> QED BY <2>1, <2>2 DEF FullAfter
<1>4. gained \in Nat /\ gone \in Nat /\ Cardinality(flying) \in Nat BY NewestWasSent DEF BBRIInv
<1>5. /\ BBRTypes /\ RecoveryLasts /\ ModesFit /\ WindowsHold /\ LossIsCongestion \in BOOLEAN
  BY BBRConstants DEF BBRIInv
<1>6. /\ recovery' \in {"none", "conservation", "growth"} /\ recoveryEnd' \in Int
      /\ roundEnd' \in Nat \cup {-1} /\ roundEnd' <= sentPN /\ lostAt' \in Int
      /\ topAcked' \in Nat \cup {-1} /\ topAcked' <= sentPN /\ RecoveryLasts'
  BY <1>1, <1>3, <1>5, RecoveryMoves
<1>7. mode' \in {"startup", "drain", "probeBW", "probeRTT"} /\ ModesFit'
  BY <1>2, <1>3, <1>5, ModesMove DEF BBRTypes
<1>8. rest \in Int BY <1>4
<1> HIDE DEF gained, gone, rest, entered
<1>9. /\ MinCwnd \in Nat /\ MaxCwnd \in Nat /\ MinCwnd <= MaxCwnd /\ size \in Nat /\ estimate' \in Nat /\ peak' \in Nat
      /\ MinCwnd' = MinCwnd /\ MaxCwnd' = MaxCwnd /\ initial \in MinCwnd..MaxCwnd /\ cwnd \in MinCwnd..MaxCwnd
      /\ recoveryWindow \in Nat
  <2>1. size \in DatagramSizes /\ size' = size /\ estimate \in Nat /\ peak \in Nat BY <1>1, <1>5 DEF BBRTypes
  <2>2. estimate' \in Nat BY <1>1, <2>1
  <2>3. peak' \in Nat BY <1>1, <2>1, <2>2 DEF MostOf
  <2>4. MinCwnd' = MinCwnd /\ MaxCwnd' = MaxCwnd BY <2>1 DEF MinCwnd, MaxCwnd
  <2> QED BY <1>5, <2>1, <2>2, <2>3, <2>4, CwndBounds DEF BBRTypes, WindowsHold
<1>10. cwnd' \in MinCwnd..MaxCwnd
  <2>1. Target(estimate', CwndGain) \in Int
    <3>1. (IF estimate' = 0 THEN initial ELSE estimate') \in Nat BY <1>9
    <3>2. ((IF estimate' = 0 THEN initial ELSE estimate') * CwndGain) \div 4 \in Int BY <3>1 DEF CwndGain
    <3> DEFINE w == ((IF estimate' = 0 THEN initial ELSE estimate') * CwndGain) \div 4
    <3>3. w \in Int BY <3>2
    <3>4. Target(estimate', CwndGain) = Clamped(w, MinCwnd, MaxCwnd) BY DEF Target
    <3>6. MinCwnd \in Int /\ MaxCwnd \in Int /\ MinCwnd <= MaxCwnd BY <1>9
    <3> HIDE DEF w
    <3>5. Clamped(w, MinCwnd, MaxCwnd) \in MinCwnd..MaxCwnd BY <3>6, <3>3, ClampedWithin
    <3> QED BY <1>9, <3>4, <3>5
  <2>2. CASE mode' = "probeRTT" BY <1>2, <1>9, <2>2 DEF CwndAfter
  <2>3. CASE mode' # "probeRTT"
    <3> DEFINE t == Target(estimate', CwndGain)
               full == LeastOf(LeastOf(MaxCwnd, t + height), cwnd + gained)
               early == LeastOf(MaxCwnd, cwnd + gained)
    <3>1. cwnd' \in {MostOf(MinCwnd, full), MostOf(MinCwnd, early), MostOf(MinCwnd, cwnd)}
      BY <1>2, <2>3 DEF CwndAfter
    <3>2. t \in Int BY <2>1
    <3> HIDE DEF t
    <3>3. full \in Int /\ full <= MaxCwnd /\ early \in Int /\ early <= MaxCwnd BY <1>4, <1>9, <3>2 DEF LeastOf, gained
    <3> HIDE DEF full, early
    <3> QED BY <1>9, <3>1, <3>3 DEF MostOf
  <2> QED BY <2>2, <2>3
<1>11. recoveryWindow' \in Nat /\ (recovery' # "none" => recoveryWindow' >= MinCwnd)
  <2>1. entered \in Nat BY <1>9 DEF entered
  <2> DEFINE held == HeldInRecovery(gained, rest)
             room == IF entered >= gone THEN entered - gone ELSE size
  <2>2. held \in Nat /\ held >= MinCwnd BY <1>4, <1>8, <1>9 DEF HeldInRecovery, MostOf, gained
  <2>3. room \in Int /\ room + gained \in Int BY <1>4, <1>9, <2>1 DEF gone, gained
  <2>4. recoveryWindow' \in {entered, held, MostOf(held, room + gained), MostOf(held, room)}
        /\ (recovery' # "none" => recoveryWindow' \in {held, MostOf(held, room + gained), MostOf(held, room)})
    BY <1>2 DEF RecoveryWindowAfter
  <2> HIDE DEF held, room
  <2> QED BY <1>9, <2>1, <2>2, <2>3, <2>4 DEF MostOf
<1>12. flying' \subseteq 0..sentPN' BY <1>1, <1>5 DEF BBRTypes
<1>13. BBRTypes' BY <1>1, <1>3, <1>5, <1>6, <1>7, <1>9, <1>11, <1>12 DEF BBRTypes
<1>14. WindowsHold' BY <1>1, <1>9, <1>10, <1>11 DEF WindowsHold
<1> QED BY <1>6, <1>7, <1>13, <1>14 DEF BBRIInv

LEMMA BBRStepKeepsWindows == BBRIInv /\ [BBRNext]_bbrVars => BBRIInv'
<1> SUFFICES ASSUME BBRIInv, [BBRNext]_bbrVars PROVE BBRIInv' OBVIOUS
<1>1. CASE UNCHANGED bbrVars
  BY <1>1 DEF bbrVars, BBRIInv, BBRTypes, ModesFit, RecoveryLasts, WindowsHold, MinCwnd, MaxCwnd
<1>2. ASSUME NEW acks \in SUBSET flying, NEW fails \in SUBSET (flying \ acks),
             NEW rate \in If(acks # {}, BBRRates, {0}), NEW over, NEW expired, NEW turn, NEW limited, NEW lossy,
             NEW height \in If(fullBandwidth /\ mode # "probeRTT", {0, 1}, {0}), NEW draw,
             CongestionEvent(acks, fails, rate, turn, expired, over, limited, lossy, height, draw)
      PROVE  BBRIInv'
  <2>1. rate \in Nat /\ height \in {0, 1} BY <1>2, BBRConstants DEF If
  <2> QED BY <1>2, <2>1, EventKeepsWindows
<1>3. CASE BBRNext
  <2>1. CASE \E fresh \in BOOLEAN : SendsData(fresh) BY <2>1, SendingKeepsRecovery
  <2>2. CASE \E s \in DatagramSizes : SizeSet(s) BY <2>2, SizeKeepsWindows
  <2> QED BY <1>2, <1>3, <2>1, <2>2 DEF BBRNext
<1> QED BY <1>1, <1>3

\* For any rates, datagram sizes and windows, whatever packets an event acknowledges and
\* declares lost: a recovery lasts until a packet sent after the last loss arrives
\* (updateRecoveryState), startup ends for good, and no window leaves its bounds.
THEOREM RecoveriesLast == BBRSpec => []BBRInv
<1>1. BBRIInv => BBRInv
  <2> SUFFICES ASSUME BBRIInv PROVE BBRInv OBVIOUS
  <2>1. MinCwnd \in Nat /\ MaxCwnd \in Nat /\ MinCwnd <= MaxCwnd /\ recoveryWindow \in Nat /\ cwnd \in MinCwnd..MaxCwnd
    BY CwndBounds DEF BBRIInv, BBRTypes, WindowsHold
  <2>2. CongestionWindow \in MinCwnd..MaxCwnd
    <3> DEFINE wide == MostOf(MinCwnd, IF mode = "probeRTT" THEN MinCwnd ELSE cwnd)
    <3>1. wide \in MinCwnd..MaxCwnd BY <2>1 DEF MostOf
    <3>2. CongestionWindow = wide \/ (recovery # "none" /\ CongestionWindow = LeastOf(wide, recoveryWindow))
      BY DEF CongestionWindow
    <3> HIDE DEF wide
    <3> QED BY <2>1, <3>1, <3>2 DEF LeastOf, BBRIInv, WindowsHold
  <2> QED BY <2>2 DEF BBRIInv, BBRInv, WindowsHold, WindowsFit
<1>2. BBRSpec => []BBRIInv BY BBRStarts, BBRStepKeepsWindows, PTL DEF BBRSpec
<1> QED BY <1>1, <1>2, PTL

-----------------------------------------------------------------------------
(* What is done again and again *)

\* What holds at 0, and at the next number if it holds at one below n, holds up to n; P
\* are the numbers it holds at.
LEMMA Climb ==
  ASSUME NEW n \in Nat, NEW P, 0 \in P, \A i \in 0..n : i # n /\ i \in P => i + 1 \in P
  PROVE  0..n \subseteq P
<1> DEFINE Bad == {i \in 0..n : i \notin P}
<1>1. SUFFICES ASSUME Bad # {} PROVE FALSE OBVIOUS
<1>2. Bad \subseteq Nat OBVIOUS
<1>3. \E i \in Bad : \A j \in Bad : i <= j
  <2> HIDE DEF Bad
  <2> QED BY <1>1, <1>2, LeastNatural
<1>4. PICK i \in Bad : \A j \in Bad : i <= j BY <1>3
<1>5. i # 0 /\ i \in 0..n /\ i \notin P BY <1>4
<1>6. i - 1 \in 0..n /\ i - 1 # n /\ i - 1 \notin Bad /\ (i - 1) + 1 = i BY <1>4, <1>5
<1>7. i - 1 \in P BY <1>6
<1> QED BY <1>5, <1>6, <1>7

\* f applied 0 to n times to x.
Iterates(f, x, n) == CHOOSE a : a = [i \in 0..n |-> IF i = 0 THEN x ELSE f[a[i - 1]]]

LEMMA IteratesUnfold ==
  ASSUME NEW f, NEW x, NEW n \in Nat
  PROVE  LET a == Iterates(f, x, n)
         IN  a = [i \in 0..n |-> IF i = 0 THEN x ELSE f[a[i - 1]]]
<1> DEFINE Solved(m) == \E a : a = [i \in 0..m |-> IF i = 0 THEN x ELSE f[a[i - 1]]]
           P == {m \in 0..n : Solved(m)}
<1>1. Solved(0)
  <2> DEFINE a == [i \in 0..0 |-> x]
  <2>1. a = [i \in 0..0 |-> IF i = 0 THEN x ELSE f[a[i - 1]]]
    <3>1. \A i \in 0..0 : i = 0 OBVIOUS
    <3> QED BY <3>1
  <2> QED BY <2>1
<1>2. ASSUME NEW m \in Nat, Solved(m) PROVE Solved(m + 1)
  <2>1. PICK a : a = [i \in 0..m |-> IF i = 0 THEN x ELSE f[a[i - 1]]] BY <1>2
  <2> DEFINE b == [i \in 0..(m + 1) |-> IF i = 0 THEN x ELSE f[a[i - 1]]]
  <2>2. ASSUME NEW i \in 0..(m + 1), i # 0 PROVE b[i - 1] = a[i - 1]
    <3>1. i - 1 \in 0..m /\ i - 1 \in 0..(m + 1) BY <2>2
    <3>2. a[i - 1] = IF i - 1 = 0 THEN x ELSE f[a[(i - 1) - 1]] BY <2>1, <3>1
    <3> QED BY <3>1, <3>2
  <2>3. b = [i \in 0..(m + 1) |-> IF i = 0 THEN x ELSE f[b[i - 1]]]
    <3>1. \A i \in 0..(m + 1) : (IF i = 0 THEN x ELSE f[a[i - 1]]) = (IF i = 0 THEN x ELSE f[b[i - 1]]) BY <2>2
    <3> QED BY <3>1
  <2> QED BY <2>3
<1>3. Solved(n)
  <2> HIDE DEF Solved
  <2>1. 0 \in P BY <1>1
  <2>2. \A i \in 0..n : i # n /\ i \in P => i + 1 \in P
    <3>1. ASSUME NEW i \in 0..n, i # n, i \in P PROVE i + 1 \in P
      <4>1. i \in Nat /\ Solved(i) /\ i + 1 \in 0..n BY <3>1
      <4> QED BY <4>1, <1>2
    <3> QED BY <3>1
  <2>3. 0..n \subseteq P
    <3> HIDE DEF P
    <3> QED BY <2>1, <2>2, Climb
  <2> QED BY <2>3
<1> QED BY <1>3 DEF Iterates

LEMMA IteratesStep ==
  ASSUME NEW f, NEW x, NEW n \in Nat
  PROVE  /\ Iterates(f, x, n)[0] = x
         /\ \A i \in 1..n : Iterates(f, x, n)[i] = f[Iterates(f, x, n)[i - 1]]
<1> DEFINE a == Iterates(f, x, n)
<1>1. a = [i \in 0..n |-> IF i = 0 THEN x ELSE f[a[i - 1]]] BY IteratesUnfold
<1> HIDE DEF a
<1>2. a[0] = x BY <1>1
<1>3. \A i \in 1..n : a[i] = f[a[i - 1]] BY <1>1
<1> QED BY <1>2, <1>3 DEF a

-----------------------------------------------------------------------------
(* The groups of PathModel: what is merged is found together *)

\* R is where the aliases lead: a group of its own, and the same from one alias to the next.
Leads(R) ==
  /\ R \in [Regions -> Regions]
  /\ \A g \in Regions : /\ alias[R[g]] = R[g] /\ R[alias[g]] = R[g] /\ R[g] <= g
                        /\ alias[g] = g => R[g] = g
Together(R) == \A p \in merged : p[1] \in Regions /\ p[2] \in Regions /\ R[p[1]] = R[p[2]]

\* Aliases lead down to a group of its own, the same for merged groups; and no set that keeps
\* the merged together parts a group from its alias, or from the groups its chains cross.
GroupsIInv ==
  /\ alias \in [Regions -> Regions] /\ under \in [Regions -> SUBSET Regions]
  /\ \A g \in Regions : alias[g] <= g
  /\ \E R : Leads(R) /\ Together(R)
  /\ \A both \in SUBSET Regions : Unparted(both) =>
       \A g \in Regions : /\ g \in both <=> alias[g] \in both
                          /\ g \in both => under[g] \subseteq both

\* After i aliases there are i groups fewer below, unless the end is reached.
LEMMA AliasesEnd ==
  ASSUME alias \in [Regions -> Regions], \A g \in Regions : alias[g] <= g, NEW g \in Regions
  PROVE  ResolveAlias(g) \in Regions /\ alias[ResolveAlias(g)] = ResolveAlias(g)
<1> DEFINE a == Iterates(alias, g, AliasHops)
           BelowOf(h) == {x \in Regions : x < h}
           Solid(i) == /\ a[i] \in Regions
                       /\ alias[a[i]] = a[i] \/ Cardinality(BelowOf(a[i])) + i + 1 <= Cardinality(Regions)
           P == {i \in 0..AliasHops : Solid(i)}
<1>1. IsFiniteSet(Regions) /\ Regions \subseteq Nat /\ AliasHops \in Nat /\ Cardinality(Regions) <= AliasHops + 1
      /\ Cardinality(Regions) \in Nat
  BY GroupConstants, FS_CardinalityType
<1>2. a[0] = g /\ \A i \in 1..AliasHops : a[i] = alias[a[i - 1]] BY <1>1, IteratesStep
<1>3. ResolveAlias(g) = a[AliasHops] BY DEF ResolveAlias, Iterates
<1> HIDE DEF a
<1>4. \A h \in Regions : IsFiniteSet(BelowOf(h)) /\ Cardinality(BelowOf(h)) \in Nat
  <2>1. \A h \in Regions : BelowOf(h) \subseteq Regions OBVIOUS
  <2> QED BY <2>1, <1>1, FS_Subset, FS_CardinalityType
\* A lower group has fewer below it.
<1>5. ASSUME NEW T \in SUBSET Regions, NEW h \in Regions, h \notin T
      PROVE  Cardinality(T) + 1 <= Cardinality(Regions)
  <2>1. IsFiniteSet(T) /\ Cardinality(T) \in Nat BY <1>1, <1>5, FS_Subset, FS_CardinalityType
  <2>2. Cardinality(T \cup {h}) = Cardinality(T) + 1 BY <1>5, <2>1, FS_AddElement
  <2>3. T \cup {h} \subseteq Regions OBVIOUS
  <2>4. Cardinality(T \cup {h}) <= Cardinality(Regions) BY <1>1, <2>3, FS_Subset
  <2> QED BY <2>2, <2>4
<1>6. Solid(0)
  <2>1. Cardinality(BelowOf(g)) + 1 <= Cardinality(Regions)
    <3>1. BelowOf(g) \in SUBSET Regions /\ g \notin BelowOf(g) BY <1>1
    <3> HIDE DEF BelowOf
    <3> QED BY <3>1, <1>5
  <2>2. Cardinality(BelowOf(g)) + 0 + 1 = Cardinality(BelowOf(g)) + 1
    <3> HIDE DEF BelowOf
    <3> QED BY <1>4
  <2> QED BY <1>2, <2>1, <2>2
<1>7. ASSUME NEW i \in 0..AliasHops, i # AliasHops, Solid(i) PROVE Solid(i + 1)
  <2>1. i + 1 \in 1..AliasHops /\ (i + 1) - 1 = i BY <1>1, <1>7
  <2>2. a[i + 1] = alias[a[i]] /\ a[i + 1] \in Regions BY <1>2, <1>7, <2>1
  <2>3. CASE alias[a[i]] = a[i] BY <2>2, <2>3
  <2>4. CASE alias[a[i]] # a[i]
    <3>1. a[i] \in Regions /\ a[i] \in Nat /\ a[i + 1] \in Nat /\ a[i + 1] < a[i]
      <4>1. a[i] \in Regions BY <1>7
      <4>2. alias[a[i]] <= a[i] BY <4>1
      <4>3. a[i] \in Nat /\ a[i + 1] \in Nat BY <1>1, <2>2, <4>1
      <4> QED BY <2>2, <2>4, <4>1, <4>2, <4>3
    <3>2. BelowOf(a[i + 1]) \subseteq BelowOf(a[i]) /\ a[i + 1] \in BelowOf(a[i]) /\ a[i + 1] \notin BelowOf(a[i + 1])
      <4>1. \A x \in Regions : x \in Nat BY <1>1
      <4> QED BY <2>2, <3>1, <4>1
    <3>3. /\ IsFiniteSet(BelowOf(a[i])) /\ Cardinality(BelowOf(a[i])) \in Nat
          /\ IsFiniteSet(BelowOf(a[i + 1])) /\ Cardinality(BelowOf(a[i + 1])) \in Nat
      BY <1>4, <2>2, <3>1
    <3>4. Cardinality(BelowOf(a[i])) + i + 1 <= Cardinality(Regions) BY <1>7, <2>4
    <3> HIDE DEF BelowOf
    <3>5. Cardinality(BelowOf(a[i + 1]) \cup {a[i + 1]}) = Cardinality(BelowOf(a[i + 1])) + 1 BY <3>2, <3>3, FS_AddElement
    <3>6. BelowOf(a[i + 1]) \cup {a[i + 1]} \subseteq BelowOf(a[i]) BY <3>2
    <3>7. Cardinality(BelowOf(a[i + 1]) \cup {a[i + 1]}) <= Cardinality(BelowOf(a[i])) BY <3>3, <3>6, FS_Subset
    <3>8. Cardinality(BelowOf(a[i + 1])) + (i + 1) + 1 <= Cardinality(Regions) BY <1>1, <3>3, <3>4, <3>5, <3>7
    <3> QED BY <2>2, <3>8
  <2> QED BY <2>3, <2>4
<1>8. Solid(AliasHops)
  <2> HIDE DEF Solid
  <2>1. 0 \in P BY <1>1, <1>6
  <2>2. \A i \in 0..AliasHops : i # AliasHops /\ i \in P => i + 1 \in P BY <1>1, <1>7
  <2>3. 0..AliasHops \subseteq P
    <3> HIDE DEF P
    <3> QED BY <1>1, <2>1, <2>2, Climb
  <2> QED BY <1>1, <2>3
<1>9. CASE alias[a[AliasHops]] = a[AliasHops] BY <1>3, <1>8, <1>9
<1>10. CASE alias[a[AliasHops]] # a[AliasHops]
  <2>1. /\ a[AliasHops] \in Regions /\ alias[a[AliasHops]] \in BelowOf(a[AliasHops])
        /\ Cardinality(BelowOf(a[AliasHops])) + AliasHops + 1 <= Cardinality(Regions)
    <3>1. a[AliasHops] \in Regions BY <1>8
    <3>2. alias[a[AliasHops]] <= a[AliasHops] /\ alias[a[AliasHops]] \in Regions BY <3>1
    <3>3. a[AliasHops] \in Nat /\ alias[a[AliasHops]] \in Nat BY <1>1, <3>1, <3>2
    <3>4. alias[a[AliasHops]] < a[AliasHops] BY <1>10, <3>2, <3>3
    <3> QED BY <1>8, <1>10, <3>1, <3>2, <3>4
  <2>2. Cardinality(BelowOf(a[AliasHops])) = 0
    <3>1. Cardinality(BelowOf(a[AliasHops])) \in Nat BY <1>4, <2>1
    <3> HIDE DEF BelowOf
    <3> QED BY <1>1, <2>1, <3>1
  <2>3. IsFiniteSet(BelowOf(a[AliasHops])) BY <1>4, <2>1
  <2>4. BelowOf(a[AliasHops]) = {}
    <3> HIDE DEF BelowOf
    <3> QED BY <2>2, <2>3, FS_EmptySet
  <2> QED BY <2>1, <2>4
<1> QED BY <1>9, <1>10

\* What the aliases lead to is what the hops find.
LEMMA HopsLead ==
  ASSUME GroupsIInv, NEW R, Leads(R), NEW g \in Regions
  PROVE  ResolveAlias(g) = R[g]
<1> DEFINE a == Iterates(alias, g, AliasHops)
           P == {i \in 0..AliasHops : a[i] \in Regions /\ R[a[i]] = R[g]}
<1>1. AliasHops \in Nat BY GroupConstants
<1>2. a[0] = g /\ \A i \in 1..AliasHops : a[i] = alias[a[i - 1]] BY <1>1, IteratesStep
<1>3. ResolveAlias(g) = a[AliasHops] BY DEF ResolveAlias, Iterates
<1> HIDE DEF a
<1>4. 0 \in P BY <1>1, <1>2
<1>5. \A i \in 0..AliasHops : i # AliasHops /\ i \in P => i + 1 \in P
  <2>1. ASSUME NEW i \in 0..AliasHops, i # AliasHops, i \in P PROVE i + 1 \in P
    <3>1. i + 1 \in 1..AliasHops /\ (i + 1) - 1 = i BY <1>1, <2>1
    <3>2. a[i + 1] = alias[a[i]] BY <1>2, <3>1
    <3>3. a[i] \in Regions /\ R[a[i]] = R[g] BY <2>1
    <3> QED BY <3>1, <3>2, <3>3 DEF GroupsIInv, Leads
  <2> QED BY <2>1
<1>6. AliasHops \in P
  <2> HIDE DEF P
  <2>1. 0..AliasHops \subseteq P BY <1>1, <1>4, <1>5, Climb
  <2> QED BY <1>1, <2>1
<1>7. alias[a[AliasHops]] = a[AliasHops] /\ a[AliasHops] \in Regions BY <1>3, AliasesEnd DEF GroupsIInv
<1>8. R[a[AliasHops]] = R[g] BY <1>6
<1> QED BY <1>3, <1>7, <1>8 DEF Leads

\* A set that no alias leaves or enters, no chain of aliases leaves or enters.
LEMMA HopsStayIn ==
  ASSUME alias \in [Regions -> Regions], NEW both \in SUBSET Regions, NEW g \in Regions,
         \A f \in Regions : f \in both <=> alias[f] \in both
  PROVE  g \in both <=> ResolveAlias(g) \in both
<1> DEFINE a == Iterates(alias, g, AliasHops)
           P == {i \in 0..AliasHops : a[i] \in Regions /\ (g \in both <=> a[i] \in both)}
<1>1. AliasHops \in Nat BY GroupConstants
<1>2. a[0] = g /\ \A i \in 1..AliasHops : a[i] = alias[a[i - 1]] BY <1>1, IteratesStep
<1>3. ResolveAlias(g) = a[AliasHops] BY DEF ResolveAlias, Iterates
<1> HIDE DEF a
<1>4. 0 \in P BY <1>1, <1>2
<1>5. \A i \in 0..AliasHops : i # AliasHops /\ i \in P => i + 1 \in P
  <2>1. ASSUME NEW i \in 0..AliasHops, i # AliasHops, i \in P PROVE i + 1 \in P
    <3>1. i + 1 \in 1..AliasHops /\ (i + 1) - 1 = i BY <1>1, <2>1
    <3>2. a[i + 1] = alias[a[i]] BY <1>2, <3>1
    <3>3. a[i] \in Regions /\ (g \in both <=> a[i] \in both) BY <2>1
    <3> QED BY <3>1, <3>2, <3>3
  <2> QED BY <2>1
<1> HIDE DEF P
<1>6. 0..AliasHops \subseteq P BY <1>1, <1>4, <1>5, Climb
<1> QED BY <1>1, <1>3, <1>6 DEF P

LEMMA GroupsStart == GroupsInit => GroupsIInv
<1> SUFFICES ASSUME GroupsInit PROVE GroupsIInv OBVIOUS
<1>1. alias = [g \in Regions |-> g] /\ merged = {} /\ under = [g \in Regions |-> {}] BY DEF GroupsInit
<1>2. Regions \subseteq Nat BY GroupConstants
<1>3. \A g \in Regions : alias[g] = g /\ g <= g /\ under[g] = {} BY <1>1, <1>2
<1>4. Leads(alias) /\ Together(alias) BY <1>1, <1>3 DEF Leads, Together
<1> QED BY <1>1, <1>3, <1>4 DEF GroupsIInv

LEMMA MergingLeads ==
  ASSUME GroupsIInv, NEW a \in Regions, NEW b \in Regions, MergeGroups(a, b)
  PROVE  GroupsIInv'
<1>1. PICK R : Leads(R) /\ Together(R) BY DEF GroupsIInv
<1>2. ResolveAlias(a) = R[a] /\ ResolveAlias(b) = R[b] BY <1>1, HopsLead
<1> DEFINE k == KeptGroup(a, b)
           d == Dropped(a, b)
<1>3. R \in [Regions -> Regions] /\ R[a] \in Nat /\ R[b] \in Nat /\ Regions \subseteq Nat
  BY <1>1, GroupConstants DEF Leads
<1>4. /\ {k, d} = {R[a], R[b]} /\ k \in Regions /\ d \in Regions /\ k <= d
  <2>2. k = Min({R[a], R[b]}) /\ d = Max({R[a], R[b]}) BY <1>2 DEF KeptGroup, Dropped
  <2>3. /\ k \in {R[a], R[b]} /\ \A x \in {R[a], R[b]} : k <= x
        /\ d \in {R[a], R[b]} /\ \A x \in {R[a], R[b]} : x <= d
    BY <1>3, <2>2 DEF Min, Max
  <2> HIDE DEF k, d
  <2>4. \A x \in {R[a], R[b]} : x = k \/ x = d BY <1>3, <2>3
  <2> QED BY <1>3, <2>3, <2>4
<1>5. /\ merged' = merged \cup {<<a, b>>} /\ alias' = [alias EXCEPT ![d] = k] /\ under' = under
  BY DEF MergeGroups
<1>6. /\ alias \in [Regions -> Regions] /\ under \in [Regions -> SUBSET Regions]
      /\ \A g \in Regions : alias[g] <= g
  BY DEF GroupsIInv
<1>7. alias[k] = k /\ R[k] = k /\ alias[d] = d /\ R[d] = d BY <1>1, <1>3, <1>4 DEF Leads
<1> HIDE DEF k, d
<1>8. alias' \in [Regions -> Regions] /\ \A g \in Regions : alias'[g] = (IF g = d THEN k ELSE alias[g])
  BY <1>4, <1>5, <1>6
<1>9. \A g \in Regions : alias'[g] <= g BY <1>3, <1>4, <1>6, <1>8
<1>16. PICK S : S = [g \in Regions |-> IF R[g] = d THEN k ELSE R[g]] OBVIOUS
<1>10. \A g \in Regions : S[g] = (IF R[g] = d THEN k ELSE R[g]) /\ S[g] \in Regions BY <1>3, <1>4, <1>16
<1>11. S \in [Regions -> Regions] BY <1>3, <1>4, <1>16
<1>12. ASSUME NEW g \in Regions
       PROVE  /\ alias'[S[g]] = S[g] /\ S[alias'[g]] = S[g] /\ S[g] <= g /\ (alias'[g] = g => S[g] = g)
  <2>1. /\ alias[R[g]] = R[g] /\ R[alias[g]] = R[g] /\ R[g] <= g /\ R[g] \in Regions /\ alias[g] \in Regions
        /\ alias[g] = g => R[g] = g
    BY <1>1, <1>6 DEF Leads
  <2>2. alias'[S[g]] = S[g] BY <1>4, <1>7, <1>8, <1>10, <2>1
  <2>3. S[alias'[g]] = S[g]
    <3>1. CASE g = d BY <1>4, <1>7, <1>8, <1>10, <3>1
    <3>2. CASE g # d BY <1>8, <1>10, <2>1, <3>2
    <3> QED BY <3>1, <3>2
  <2>4. S[g] <= g
    <3>1. R[g] \in Nat /\ k \in Nat /\ d \in Nat /\ g \in Nat BY <1>3, <1>4, <2>1
    <3> QED BY <1>4, <1>10, <2>1, <3>1
  <2>5. alias'[g] = g => S[g] = g BY <1>7, <1>8, <1>10, <2>1
  <2> QED BY <2>2, <2>3, <2>4, <2>5
<1>13. Leads(S)'
  <2>1. \A g \in Regions : alias'[S[g]] = S[g] /\ S[alias'[g]] = S[g] /\ S[g] <= g /\ (alias'[g] = g => S[g] = g)
    BY <1>12
  <2> QED BY <1>11, <2>1 DEF Leads
<1>14. Together(S)'
  <2>1. S[a] = S[b] BY <1>4, <1>7, <1>10
  <2>2. ASSUME NEW p \in merged' PROVE p[1] \in Regions /\ p[2] \in Regions /\ S[p[1]] = S[p[2]]
    <3>1. CASE p \in merged BY <1>1, <1>10, <3>1 DEF Together
    <3>2. CASE p = <<a, b>> BY <2>1, <3>2
    <3> QED BY <1>5, <3>1, <3>2
  <2> QED BY <2>2 DEF Together
<1>15. ASSUME NEW both \in SUBSET Regions, Unparted(both)', NEW g \in Regions
       PROVE  (g \in both <=> alias'[g] \in both) /\ (g \in both => under'[g] \subseteq both)
  <2>1. Unparted(both) /\ (a \in both <=> b \in both)
    <3>1. \A p \in merged \cup {<<a, b>>} : p[1] \in both <=> p[2] \in both BY <1>5, <1>15 DEF Unparted
    <3>2. <<a, b>>[1] \in both <=> <<a, b>>[2] \in both BY <3>1
    <3> QED BY <3>1, <3>2 DEF Unparted
  <2>2. \A h \in Regions : (h \in both <=> alias[h] \in both) /\ (h \in both => under[h] \subseteq both)
    BY <2>1 DEF GroupsIInv
  <2>3. \A h \in Regions : h \in both <=> ResolveAlias(h) \in both
    <3>1. ASSUME NEW h \in Regions PROVE h \in both <=> ResolveAlias(h) \in both
      <4>1. \A f \in Regions : f \in both <=> alias[f] \in both BY <2>2
      <4> QED BY <1>6, <4>1, HopsStayIn
    <3> QED BY <3>1
  <2>4. R[a] \in both <=> R[b] \in both BY <1>2, <2>1, <2>3
  <2>5. k \in both <=> d \in both BY <1>4, <2>4
  <2> QED BY <1>5, <1>8, <2>2, <2>5
<1> QED BY <1>5, <1>6, <1>8, <1>9, <1>13, <1>14, <1>15 DEF GroupsIInv

LEMMA ChainsKeep == ASSUME GroupsIInv, NEW g \in Regions, ChainMade(g) PROVE GroupsIInv'
<1>1. alias' = alias /\ merged' = merged /\ under' = [under EXCEPT ![g] = @ \cup {ResolveAlias(g)}]
  BY DEF ChainMade
<1>2. /\ alias \in [Regions -> Regions] /\ under \in [Regions -> SUBSET Regions]
      /\ \A h \in Regions : alias[h] <= h
  BY DEF GroupsIInv
<1>3. ResolveAlias(g) \in Regions BY <1>2, AliasesEnd
<1>4. under' \in [Regions -> SUBSET Regions] BY <1>1, <1>2, <1>3
<1>5. PICK R : Leads(R) /\ Together(R) BY DEF GroupsIInv
<1>6. Leads(R)' /\ Together(R)' BY <1>1, <1>5 DEF Leads, Together
<1>7. ASSUME NEW both \in SUBSET Regions, Unparted(both)', NEW h \in Regions
      PROVE  (h \in both <=> alias'[h] \in both) /\ (h \in both => under'[h] \subseteq both)
  <2>1. Unparted(both) BY <1>1, <1>7 DEF Unparted
  <2>2. \A f \in Regions : (f \in both <=> alias[f] \in both) /\ (f \in both => under[f] \subseteq both)
    BY <2>1 DEF GroupsIInv
  <2>3. g \in both <=> ResolveAlias(g) \in both
    <3>1. \A f \in Regions : f \in both <=> alias[f] \in both BY <2>2
    <3> QED BY <1>2, <3>1, HopsStayIn
  <2> QED BY <1>1, <1>2, <2>2, <2>3
<1> QED BY <1>1, <1>2, <1>4, <1>6, <1>7 DEF GroupsIInv

LEMMA GroupsFound == GroupsIInv => GroupsInv
<1> SUFFICES ASSUME GroupsIInv, NEW g \in Regions
             PROVE  ResolveAlias(g) = Min(Joined[g]) /\ under[g] \subseteq Joined[g]
  BY DEF GroupsInv
<1>1. PICK R : Leads(R) /\ Together(R) BY DEF GroupsIInv
<1>2. /\ alias \in [Regions -> Regions] /\ under \in [Regions -> SUBSET Regions]
      /\ R \in [Regions -> Regions] /\ Regions \subseteq Nat /\ \A h \in Regions : R[h] <= h
  BY <1>1, GroupConstants DEF GroupsIInv, Leads
<1>3. ResolveAlias(g) = R[g] BY <1>1, HopsLead
<1>4. Joined[g] = {h \in Regions : \A both \in SUBSET Regions : g \in both /\ Unparted(both) => h \in both}
  BY DEF Joined
<1>5. ASSUME NEW both \in SUBSET Regions, g \in both, Unparted(both)
      PROVE  R[g] \in both /\ under[g] \subseteq both
  <2>1. \A f \in Regions : (f \in both <=> alias[f] \in both) /\ (f \in both => under[f] \subseteq both)
    BY <1>5 DEF GroupsIInv
  <2>2. \A f \in Regions : f \in both <=> alias[f] \in both BY <2>1
  <2> QED BY <1>2, <1>3, <1>5, <2>1, <2>2, HopsStayIn
<1>6. R[g] \in Joined[g] /\ under[g] \subseteq Joined[g]
  <2>1. R[g] \in Regions /\ under[g] \subseteq Regions BY <1>2
  <2> QED BY <1>4, <1>5, <2>1
\* Those led to the same group are unparted, so all that is joined to g is.
<1>7. \A h \in Joined[g] : h \in Regions /\ R[h] = R[g]
  <2> DEFINE both == {h \in Regions : R[h] = R[g]}
  <2>1. Unparted(both) BY <1>1 DEF Unparted, Together
  <2>2. both \in SUBSET Regions /\ g \in both OBVIOUS
  <2> HIDE DEF both
  <2>3. \A h \in Joined[g] : h \in both BY <1>4, <2>1, <2>2
  <2> QED BY <2>3 DEF both
<1>8. \A h \in Joined[g] : R[g] <= h /\ h \in Int /\ R[g] \in Int
  <2>1. ASSUME NEW h \in Joined[g] PROVE R[g] <= h /\ h \in Int /\ R[g] \in Int
    <3>1. h \in Regions /\ R[h] = R[g] BY <1>7
    <3>2. R[h] <= h /\ R[g] \in Regions BY <1>2, <3>1
    <3>3. h \in Nat /\ R[g] \in Nat BY <1>2, <3>1, <3>2
    <3> QED BY <3>1, <3>2, <3>3
  <2> QED BY <2>1
<1>9. Min(Joined[g]) = R[g]
  <2>1. \A x \in Joined[g] : (\A y \in Joined[g] : x <= y) => x = R[g]
    <3>1. ASSUME NEW x \in Joined[g], \A y \in Joined[g] : x <= y PROVE x = R[g]
      <4>1. x <= R[g] /\ R[g] <= x /\ x \in Int /\ R[g] \in Int BY <1>6, <1>8, <3>1
      <4> QED BY <4>1
    <3> QED BY <3>1
  <2>2. R[g] \in Joined[g] /\ \A y \in Joined[g] : R[g] <= y BY <1>6, <1>8
  <2> DEFINE J == Joined[g]
             m == R[g]
  <2>3. m \in J /\ (\A y \in J : m <= y) /\ \A x \in J : (\A y \in J : x <= y) => x = m BY <2>1, <2>2
  <2> HIDE DEF J, m
  <2>4. Min(J) = m BY <2>3 DEF Min
  <2> QED BY <2>4 DEF J, m
<1> QED BY <1>3, <1>6, <1>9

\* A group's next chain crosses the node of the least group it was joined to, and no chain
\* crosses the node of a group it was never joined to (maybeRegroup, resolveAliasLocked), for
\* any groups, as many as the hops can follow, and every order of merges and chains.
THEOREM MergedGroupsMeet == GroupsSpec => []GroupsInv
<1>1. ASSUME GroupsIInv, [GroupsNext]_groupVars PROVE GroupsIInv'
  <2>1. CASE UNCHANGED groupVars
    <3>1. alias' = alias /\ merged' = merged /\ under' = under BY <2>1 DEF groupVars
    <3> QED BY <1>1, <3>1 DEF GroupsIInv, Leads, Together, Unparted
  <2>2. ASSUME NEW a \in Regions, NEW b \in Regions, MergeGroups(a, b) PROVE GroupsIInv'
    BY <1>1, <2>2, MergingLeads
  <2>3. ASSUME NEW a \in Regions, ChainMade(a) PROVE GroupsIInv' BY <1>1, <2>3, ChainsKeep
  <2> QED BY <1>1, <2>1, <2>2, <2>3 DEF GroupsNext
<1> QED BY <1>1, GroupsStart, GroupsFound, PTL DEF GroupsSpec

-----------------------------------------------------------------------------
(* PathModel: nobody is held back alone, and what the lanes may send fits *)

NodeFits(node) ==
  /\ node \in [seen : [PathLanes -> [delivered : Nat, observed : Nat, age : Nat]],
               rates : SUBSET [rate : Nat, age : Nat], known : Nat]
  /\ IsFiniteSet(node.rates) /\ \A s \in node.rates : s.age <= RateWindow

\* What a lane was told at its last exchange: a share comes from nodes that had measured
\* enough, and from each it is a part of what the node carried, one for each lane in it.
ToldFits(l, heard, nodes) ==
  /\ heard.share \in Nat /\ (heard.share > 0 => heard.from # {})
  /\ \A n \in heard.from :
       /\ n \in Nodes /\ heard.share > 0 /\ nodes[n].known >= Confident
       /\ l \in heard.with[n] /\ heard.with[n] # {l} /\ heard.with[n] \subseteq PathLanes
       /\ heard.carried[n] \in Nat
       /\ heard.share = (5 * heard.carried[n]) \div (4 * Cardinality(heard.with[n]))

PathIInv ==
  /\ \A n \in Nodes : NodeFits(pool[n])
  /\ lanes = [l \in PathLanes |-> lanes[l]]
  /\ \A l \in PathLanes : ToldFits(l, lanes[l], pool)

LEMMA LiveLanes ==
  ASSUME NEW node, NEW l \in PathLanes
  PROVE  /\ LiveIn(node) \subseteq PathLanes /\ IsFiniteSet(LiveIn(node)) /\ Cardinality(LiveIn(node)) \in Nat
         /\ IsFiniteSet({l} \cup LiveIn(node)) /\ Cardinality({l} \cup LiveIn(node)) \in Nat \ {0}
         /\ (l \in LiveIn(node) => {l} \cup LiveIn(node) = LiveIn(node))
         /\ (l \notin LiveIn(node) => Cardinality({l} \cup LiveIn(node)) = Cardinality(LiveIn(node)) + 1)
<1>1. LiveIn(node) \subseteq PathLanes BY DEF LiveIn
<1> DEFINE L == LiveIn(node)
<1> HIDE DEF L
<1>2. IsFiniteSet(PathLanes) /\ L \subseteq PathLanes BY <1>1, PathConstants DEF L
<1>3. IsFiniteSet(L) /\ Cardinality(L) \in Nat BY <1>2, FS_Subset, FS_CardinalityType
<1>4. IsFiniteSet(L \cup {l}) /\ (l \in L => L \cup {l} = L) /\ (l \notin L => Cardinality(L \cup {l}) = Cardinality(L) + 1)
  BY <1>3, FS_AddElement
<1>5. {l} \cup L = L \cup {l} OBVIOUS
<1>6. Cardinality(L \cup {l}) \in Nat /\ Cardinality(L \cup {l}) # 0
  <2>1. L \cup {l} # {} OBVIOUS
  <2> QED BY <1>4, <2>1, FS_CardinalityType, FS_EmptySet
<1> QED BY <1>1, <1>3, <1>4, <1>5, <1>6 DEF L

LEMMA MappedFinite == ASSUME NEW S, IsFiniteSet(S), NEW m PROVE IsFiniteSet({m[x] : x \in S})
<1> DEFINE T == {m[x] : x \in S}
           f == [x \in S |-> m[x]]
<1>1. f \in Surjection(S, T) BY DEF Surjection
<1> HIDE DEF f, T
<1>2. IsFiniteSet(T) BY <1>1, FS_Surjection
<1> QED BY <1>2 DEF T

LEMMA BottleneckIsRate == ASSUME NEW node, NodeFits(node) PROVE Bottleneck(node) \in Nat
<1> DEFINE R == {0} \cup {s.rate : s \in Measured(node)}
<1>1. Measured(node) \subseteq node.rates /\ \A s \in node.rates : s.rate \in Nat BY DEF NodeFits, Measured
<1>2. IsFiniteSet(Measured(node)) BY <1>1, FS_Subset DEF NodeFits
<1>3. IsFiniteSet({s.rate : s \in Measured(node)})
  <2> DEFINE M == Measured(node)
  <2> HIDE DEF M
  <2>1. IsFiniteSet(M) BY <1>2 DEF M
  <2> DEFINE m == [s \in M |-> s.rate]
  <2>3. {m[s] : s \in M} = {s.rate : s \in M} OBVIOUS
  <2>4. IsFiniteSet({m[s] : s \in M})
    <3> HIDE DEF m
    <3> QED BY <2>1, MappedFinite
  <2>2. IsFiniteSet({s.rate : s \in M}) BY <2>3, <2>4
  <2> QED BY <2>2 DEF M
<1>4. IsFiniteSet({0} \cup {s.rate : s \in Measured(node)}) BY <1>3, FS_Singleton, FS_Union
<1>5. R # {} /\ R \subseteq Nat BY <1>1
<1>6. IsFiniteSet(R) BY <1>4
<1> HIDE DEF R
<1>7. Max(R) \in R BY <1>5, <1>6, ExtremesExist
<1> QED BY <1>5, <1>7 DEF R, Bottleneck

LEMMA ReportedFits ==
  ASSUME NEW node, NodeFits(node), NEW l \in PathLanes, NEW d \in Nat, NEW o \in Nat
  PROVE  LET after == Reported(node, l, d, o)
         IN  NodeFits(after) /\ after.known >= node.known /\ l \in LiveIn(after)
<1> DEFINE heard == [node EXCEPT !.seen[l] = [delivered |-> d, observed |-> o, age |-> 0]]
           sum == Delivers(heard)
           more == IF sum > 0 THEN {[rate |-> sum, age |-> 0]} ELSE {}
           after == Reported(node, l, d, o)
<1>1. /\ heard \in [seen : [PathLanes -> [delivered : Nat, observed : Nat, age : Nat]],
                   rates : SUBSET [rate : Nat, age : Nat], known : Nat]
      /\ heard.rates = node.rates /\ heard.known = node.known /\ heard.seen[l].age = 0
  BY DEF NodeFits
<1>2. after = [heard EXCEPT !.rates = Unbeaten(Measured(heard) \cup more), !.known = Larger(@, Enough(Observed(heard)))]
  BY DEF Reported
<1> HIDE DEF heard, after
<1>3. IsFiniteSet(LiveIn(heard)) /\ LiveIn(heard) \subseteq PathLanes BY LiveLanes
<1>4. Delivers(heard) \in Nat
  <2> DEFINE f == [m \in PathLanes |-> heard.seen[m].delivered]
  <2>1. \A m \in LiveIn(heard) : f[m] \in Nat BY <1>1, <1>3
  <2> HIDE DEF f
  <2>2. SumFunctionOnSet(f, LiveIn(heard)) \in Nat BY <1>3, <2>1, SumType
  <2> QED BY <2>2 DEF f, Delivers
<1>5. Observed(heard) \in Nat
  <2> DEFINE f == [m \in PathLanes |-> heard.seen[m].observed]
  <2>1. \A m \in LiveIn(heard) : f[m] \in Nat BY <1>1, <1>3
  <2> HIDE DEF f
  <2>2. SumFunctionOnSet(f, LiveIn(heard)) \in Nat BY <1>3, <2>1, SumType
  <2> QED BY <2>2 DEF f, Observed
<1> HIDE DEF sum
<1>6. sum \in Nat BY <1>4 DEF sum
<1>7. /\ IsFiniteSet(more) /\ more \subseteq [rate : Nat, age : Nat] /\ \A s \in more : s.age <= RateWindow
  <2>1. 0 <= RateWindow BY PathConstants
  <2>2. IsFiniteSet(more) BY FS_Singleton, FS_EmptySet
  <2> QED BY <1>6, <2>1, <2>2
<1> DEFINE all == Measured(heard) \cup more
           stays == Unbeaten(all)
<1>8. Measured(heard) \subseteq node.rates BY <1>1 DEF Measured
<1>9. stays \subseteq all BY DEF Unbeaten
<1>10. IsFiniteSet(all)
  <2>1. IsFiniteSet(Measured(heard)) BY <1>8, FS_Subset DEF NodeFits
  <2> HIDE DEF more
  <2> QED BY <1>7, <2>1, FS_Union
<1>11. all \subseteq [rate : Nat, age : Nat] /\ \A s \in all : s.age <= RateWindow
  <2>1. node.rates \subseteq [rate : Nat, age : Nat] /\ \A s \in node.rates : s.age <= RateWindow BY DEF NodeFits
  <2> HIDE DEF more
  <2> QED BY <1>7, <1>8, <2>1
<1> HIDE DEF all, more
<1>12. IsFiniteSet(stays) /\ stays \subseteq [rate : Nat, age : Nat] /\ \A s \in stays : s.age <= RateWindow
  BY <1>9, <1>10, <1>11, FS_Subset
<1> DEFINE known == Larger(heard.known, Enough(Observed(heard)))
<1>13. known \in Nat /\ known >= node.known BY <1>1, <1>5, PathConstants DEF Larger, Enough
<1> HIDE DEF stays, known
<1>14. after = [heard EXCEPT !.rates = stays, !.known = known] BY <1>1, <1>2 DEF stays, known, all, more
<1>15. /\ after \in [seen : [PathLanes -> [delivered : Nat, observed : Nat, age : Nat]],
                     rates : SUBSET [rate : Nat, age : Nat], known : Nat]
       /\ after.rates = stays /\ after.known = known /\ after.seen = heard.seen
  BY <1>1, <1>12, <1>13, <1>14
<1>16. l \in LiveIn(after)
  <2>1. 0 <= MemberIdle BY PathConstants
  <2> QED BY <1>1, <1>15, <2>1 DEF LiveIn
<1> QED BY <1>12, <1>13, <1>15, <1>16 DEF NodeFits, after

LEMMA AgedFits ==
  ASSUME NEW node, NodeFits(node) PROVE NodeFits(Aged(node)) /\ Aged(node).known = node.known
<1> DEFINE aged == Aged(node)
           young == {t \in node.rates : t.age < RateWindow}
           later == {OneOlder(s) : s \in young}
           seen == [l \in PathLanes |-> IF node.seen[l].age >= MemberIdle THEN NoReportYet ELSE OneOlder(node.seen[l])]
<1>1. aged = [node EXCEPT !.seen = seen, !.rates = later] BY DEF NodeFits, Aged
<1>2. seen \in [PathLanes -> [delivered : Nat, observed : Nat, age : Nat]]
  <2>1. NoReportYet \in [delivered : Nat, observed : Nat, age : Nat] BY PathConstants DEF NoReportYet
  <2>2. \A l \in PathLanes : node.seen[l] \in [delivered : Nat, observed : Nat, age : Nat] BY DEF NodeFits
  <2> QED BY <2>1, <2>2 DEF OneOlder
<1>3. IsFiniteSet(later)
  <2>1. young \subseteq node.rates /\ IsFiniteSet(node.rates) BY DEF NodeFits
  <2>2. IsFiniteSet(young) BY <2>1, FS_Subset
  <2> DEFINE m == [s \in young |-> OneOlder(s)]
  <2>3. {m[s] : s \in young} = {OneOlder(s) : s \in young}
    <3> HIDE DEF young
    <3> QED OBVIOUS
  <2>4. IsFiniteSet({m[s] : s \in young})
    <3> HIDE DEF young, m
    <3> QED BY <2>2, MappedFinite
  <2> QED BY <2>3, <2>4
<1>4. later \subseteq [rate : Nat, age : Nat] /\ \A s \in later : s.age <= RateWindow
  <2>1. \A s \in young : s \in [rate : Nat, age : Nat] /\ s.age < RateWindow BY DEF NodeFits
  <2>2. ASSUME NEW s \in young
        PROVE  OneOlder(s) \in [rate : Nat, age : Nat] /\ OneOlder(s).age <= RateWindow
    <3>1. s \in [rate : Nat, age : Nat] /\ s.age < RateWindow /\ RateWindow \in Nat BY <2>1, PathConstants
    <3> QED BY <3>1 DEF OneOlder
  <2> HIDE DEF young
  <2> QED BY <2>2
<1> HIDE DEF seen, later, aged
<1>5. /\ aged \in [seen : [PathLanes -> [delivered : Nat, observed : Nat, age : Nat]],
                   rates : SUBSET [rate : Nat, age : Nat], known : Nat]
      /\ aged.rates = later /\ aged.known = node.known
  BY <1>1, <1>2, <1>4 DEF NodeFits
<1> QED BY <1>3, <1>4, <1>5 DEF NodeFits, aged

\* An exchange whose answers are the nodes' own leaves the lane with what fits them.
LEMMA ExchangeFits ==
  ASSUME \A n \in Nodes : NodeFits(pool'[n]), NEW l \in PathLanes, NEW answers, DOMAIN answers = DOMAIN ChainOf[l],
         \A i \in DOMAIN answers :
           LET n == ChainOf[l][i]
               W == {l} \cup LiveIn(pool'[n])
           IN  /\ answers[i].known = pool'[n].known /\ answers[i].share \in Nat
               /\ answers[i].share > 0 =>
                    W # {l} /\ answers[i].share = (5 * Bottleneck(pool'[n])) \div (4 * Cardinality(W))
  PROVE  ToldFits(l, Told(l, answers), pool')
<1> DEFINE caps == {a.share : a \in {b \in Range(answers) : Speaks(b)}}
           share == Combined(answers)
           heard == Told(l, answers)
<1>1. Range(answers) = {answers[i] : i \in DOMAIN answers} BY DEF Range
<1>2. \A i \in DOMAIN answers : answers[i].share \in Nat OBVIOUS
<1>3. caps \subseteq Nat BY <1>1, <1>2
<1>4. share = (IF caps = {} THEN 0 ELSE Min(caps)) BY DEF Combined
<1>5. caps # {} => share \in caps
  <2> SUFFICES ASSUME caps # {} PROVE share \in caps OBVIOUS
  <2> HIDE DEF caps
  <2>1. \E x \in caps : \A y \in caps : x <= y BY <1>3, LeastNatural
  <2>2. Min(caps) \in caps BY <2>1 DEF Min
  <2> QED BY <1>4, <2>2
<1>6. share \in Nat /\ (share > 0 => \E i \in DOMAIN answers : Speaks(answers[i]) /\ answers[i].share = share)
  <2>1. CASE caps = {} BY <1>4, <2>1
  <2>2. CASE caps # {}
    <3>1. share \in caps BY <1>5, <2>2
    <3>2. share \in Nat BY <1>3, <3>1
    <3>3. \E a \in {b \in Range(answers) : Speaks(b)} : a.share = share BY <3>1
    <3>4. \E i \in DOMAIN answers : Speaks(answers[i]) /\ answers[i].share = share BY <1>1, <3>3
    <3> QED BY <3>2, <3>4
  <2> QED BY <2>1, <2>2
<1> HIDE DEF caps, share
<1>7. /\ heard.share = share
      /\ heard.from = {ChainOf[l][i] : i \in {j \in DOMAIN answers : Speaks(answers[j]) /\ answers[j].share = share}}
      /\ \A n \in NodesOf(l) : heard.with[n] = {l} \cup LiveIn(pool'[n]) /\ heard.carried[n] = Bottleneck(pool'[n])
  BY DEF Told, share
<1>8. \A i \in DOMAIN answers : ChainOf[l][i] \in NodesOf(l) /\ ChainOf[l][i] \in Nodes BY DEF NodesOf, Nodes, Range
<1> HIDE DEF heard
<1>9. ASSUME NEW n \in heard.from
      PROVE  /\ n \in Nodes /\ share > 0 /\ pool'[n].known >= Confident
             /\ l \in heard.with[n] /\ heard.with[n] # {l} /\ heard.with[n] \subseteq PathLanes
             /\ heard.carried[n] \in Nat
             /\ share = (5 * heard.carried[n]) \div (4 * Cardinality(heard.with[n]))
  <2>1. PICK i \in DOMAIN answers : n = ChainOf[l][i] /\ Speaks(answers[i]) /\ answers[i].share = share BY <1>7, <1>9
  <2>2. answers[i].share > 0 /\ answers[i].known >= Confident BY <2>1 DEF Speaks
  <2>3. n \in NodesOf(l) /\ n \in Nodes BY <1>8, <2>1
  <2>4. /\ answers[i].known = pool'[n].known
        /\ {l} \cup LiveIn(pool'[n]) # {l}
        /\ answers[i].share = (5 * Bottleneck(pool'[n])) \div (4 * Cardinality({l} \cup LiveIn(pool'[n])))
    BY <2>1, <2>2
  <2>5. heard.with[n] = {l} \cup LiveIn(pool'[n]) /\ heard.carried[n] = Bottleneck(pool'[n]) BY <1>7, <2>3
  <2>6. LiveIn(pool'[n]) \subseteq PathLanes BY LiveLanes
  <2>7. Bottleneck(pool'[n]) \in Nat BY <2>3, BottleneckIsRate
  <2> QED BY <2>1, <2>2, <2>3, <2>4, <2>5, <2>6, <2>7
<1>10. share > 0 => heard.from # {}
  <2> SUFFICES ASSUME share > 0 PROVE heard.from # {} OBVIOUS
  <2>1. PICK i \in DOMAIN answers : Speaks(answers[i]) /\ answers[i].share = share BY <1>6
  <2>2. ChainOf[l][i] \in heard.from BY <1>7, <2>1
  <2> QED BY <2>2
<1> QED BY <1>6, <1>7, <1>9, <1>10 DEF ToldFits, heard

LEMMA PathStarts == PathInit => PathIInv
<1> SUFFICES ASSUME PathInit PROVE PathIInv OBVIOUS
<1>1. pool = [n \in Nodes |-> EmptyNode] /\ lanes = [l \in PathLanes |-> NotMade] BY DEF PathInit
<1>2. NodeFits(EmptyNode) BY PathConstants, FS_EmptySet DEF NodeFits, EmptyNode, NoReportYet
<1>3. \A l \in PathLanes : ToldFits(l, NotMade, pool) BY DEF ToldFits, NotMade
<1> QED BY <1>1, <1>2, <1>3 DEF PathIInv

\* What a lane was told stays true while nodes only come to know more.
LEMMA ToldStays ==
  ASSUME NEW l, NEW heard, NEW before, NEW after, ToldFits(l, heard, before),
         \A n \in Nodes : before[n].known \in Nat /\ after[n].known \in Nat /\ after[n].known >= before[n].known
  PROVE  ToldFits(l, heard, after)
<1>1. \A n \in heard.from : n \in Nodes /\ before[n].known >= Confident BY DEF ToldFits
<1>2. \A n \in heard.from : after[n].known >= Confident
  <2>1. ASSUME NEW n \in heard.from PROVE after[n].known >= Confident
    <3>1. n \in Nodes /\ before[n].known >= Confident BY <1>1
    <3>2. before[n].known \in Nat /\ after[n].known \in Nat /\ after[n].known >= before[n].known BY <3>1
    <3> QED BY <3>1, <3>2, PathConstants
  <2> QED BY <2>1
<1> QED BY <1>2 DEF ToldFits

LEMMA MakingFits == ASSUME PathIInv, NEW l \in PathLanes, LaneMade(l) PROVE PathIInv'
<1> DEFINE answers == [i \in DOMAIN ChainOf[l] |-> AnswerToJoin(pool[ChainOf[l][i]])]
<1>1. pool' = pool /\ lanes' = [lanes EXCEPT ![l] = Told(l, answers)] /\ \A n \in Nodes : l \notin LiveIn(pool[n])
  BY DEF LaneMade
<1>2. \A n \in Nodes : NodeFits(pool'[n]) BY <1>1 DEF PathIInv
<1>3. \A i \in DOMAIN ChainOf[l] : ChainOf[l][i] \in Nodes BY DEF Nodes, NodesOf, Range
<1>4. ASSUME NEW i \in DOMAIN answers
      PROVE  LET n == ChainOf[l][i]
                 W == {l} \cup LiveIn(pool'[n])
             IN  /\ answers[i].known = pool'[n].known /\ answers[i].share \in Nat
                 /\ answers[i].share > 0 =>
                      W # {l} /\ answers[i].share = (5 * Bottleneck(pool'[n])) \div (4 * Cardinality(W))
  <2> DEFINE n == ChainOf[l][i]
             L == LiveIn(pool[n])
             W == {l} \cup L
             among == Cardinality(L) + 1
             b == Bottleneck(pool[n])
  <2>1. n \in Nodes /\ answers[i] = AnswerToJoin(pool[n]) BY <1>3
  <2>2. l \notin L BY <1>1, <2>1
  <2>3. Cardinality(L) \in Nat /\ Cardinality(W) = among BY <2>2, LiveLanes
  <2>4. b \in Nat BY <1>1, <1>2, <2>1, BottleneckIsRate
  <2>5. answers[i] = [share |-> IF L # {} /\ among > 0 THEN (5 * b) \div (4 * among) ELSE 0, known |-> pool[n].known]
    BY <2>1 DEF AnswerToJoin, Split
  <2> HIDE DEF b, among, n, answers
  <2>6. among \in Nat \ {0} /\ 4 * among \in Nat \ {0} /\ 5 * b \in Nat BY <2>3, <2>4 DEF among
  <2>7. (5 * b) \div (4 * among) \in Nat
    <3> DEFINE x == 5 * b
               y == 4 * among
    <3> HIDE DEF x, y
    <3>1. x \in Nat /\ y \in Nat \ {0} => x \div y \in Nat OBVIOUS
    <3> QED BY <2>6, <3>1 DEF x, y
  <2>8. L # {} => W # {l} BY <2>2
  <2>9. /\ answers[i].known = pool[n].known /\ answers[i].share \in Nat
        /\ answers[i].share > 0 => W # {l} /\ answers[i].share = (5 * b) \div (4 * Cardinality(W))
    BY <2>3, <2>5, <2>7, <2>8
  <2> QED BY <1>1, <2>9 DEF b, n
<1>5. DOMAIN answers = DOMAIN ChainOf[l] OBVIOUS
<1> HIDE DEF answers
<1>6. ToldFits(l, Told(l, answers), pool') BY <1>2, <1>4, <1>5, ExchangeFits
<1>7. \A m \in PathLanes : ToldFits(m, lanes[m], pool') BY <1>1 DEF PathIInv
<1>8. lanes = [m \in PathLanes |-> lanes[m]] BY DEF PathIInv
<1>9. \A m \in PathLanes : lanes'[m] = (IF m = l THEN Told(l, answers) ELSE lanes[m]) BY <1>1, <1>8
<1>10. lanes' = [m \in PathLanes |-> lanes'[m]] BY <1>1, <1>8
<1>11. \A m \in PathLanes : ToldFits(m, lanes'[m], pool') BY <1>6, <1>7, <1>9
<1> QED BY <1>2, <1>10, <1>11 DEF PathIInv

LEMMA ReportingFits == ASSUME PathIInv, NEW l \in PathLanes, LaneReports(l) PROVE PathIInv'
<1> DEFINE answers == [i \in DOMAIN ChainOf[l] |-> AnswerToReport(pool'[ChainOf[l][i]])]
<1>1. PICK d \in PathRates, o \in SampleCounts :
        pool' = [n \in Nodes |->
                   IF n \in NodesOf(l) THEN Reported(pool[n], l, HeldTo(lanes[l].share, d), o) ELSE pool[n]]
  BY DEF LaneReports
<1>2. lanes' = [lanes EXCEPT ![l] = Told(l, answers)] BY DEF LaneReports
<1> DEFINE rate == HeldTo(lanes[l].share, d)
<1>3. rate \in Nat /\ o \in Nat
  <2>1. lanes[l].share \in Nat BY DEF PathIInv, ToldFits
  <2> QED BY <2>1, PathConstants DEF HeldTo
<1> HIDE DEF rate
<1>4. ASSUME NEW n \in Nodes
      PROVE  NodeFits(pool'[n]) /\ pool[n].known \in Nat /\ pool'[n].known \in Nat /\ pool'[n].known >= pool[n].known
             /\ (n \in NodesOf(l) => l \in LiveIn(pool'[n]))
  <2>1. NodeFits(pool[n]) BY DEF PathIInv
  <2>2. CASE n \in NodesOf(l)
    <3>1. pool'[n] = Reported(pool[n], l, rate, o) BY <1>1, <2>2 DEF rate
    <3>2. NodeFits(pool'[n]) /\ pool'[n].known >= pool[n].known /\ l \in LiveIn(pool'[n])
      BY <1>3, <2>1, <3>1, ReportedFits
    <3>3. pool[n].known \in Nat /\ pool'[n].known \in Nat BY <2>1, <3>2 DEF NodeFits
    <3> QED BY <3>2, <3>3
  <2>3. CASE n \notin NodesOf(l)
    <3>1. pool'[n] = pool[n] BY <1>1, <2>3
    <3>2. pool[n].known \in Nat BY <2>1 DEF NodeFits
    <3> QED BY <2>1, <2>3, <3>1, <3>2
  <2> QED BY <2>2, <2>3
<1>5. \A i \in DOMAIN ChainOf[l] : ChainOf[l][i] \in Nodes /\ ChainOf[l][i] \in NodesOf(l) BY DEF Nodes, NodesOf, Range
<1>6. ASSUME NEW i \in DOMAIN answers
      PROVE  LET n == ChainOf[l][i]
                 W == {l} \cup LiveIn(pool'[n])
             IN  /\ answers[i].known = pool'[n].known /\ answers[i].share \in Nat
                 /\ answers[i].share > 0 =>
                      W # {l} /\ answers[i].share = (5 * Bottleneck(pool'[n])) \div (4 * Cardinality(W))
  <2> DEFINE n == ChainOf[l][i]
             L == LiveIn(pool'[n])
             among == Cardinality(L)
             b == Bottleneck(pool'[n])
  <2>1. n \in Nodes /\ n \in NodesOf(l) /\ answers[i] = AnswerToReport(pool'[n]) BY <1>5
  <2>2. l \in L /\ {l} \cup L = L BY <1>4, <2>1
  <2>3. among \in Nat BY LiveLanes
  <2>4. b \in Nat BY <1>4, <2>1, BottleneckIsRate
  <2>5. answers[i] = [share |-> IF among > 1 /\ among > 0 THEN (5 * b) \div (4 * among) ELSE 0, known |-> pool'[n].known]
    BY <2>1 DEF AnswerToReport, Split
  <2>6. among > 1 => L # {l}
    <3>1. Cardinality({l}) = 1 BY FS_Singleton
    <3> QED BY <2>3, <3>1
  <2> HIDE DEF b, among, n, answers
  <2>7. among > 1 => (5 * b) \div (4 * among) \in Nat
    <3> DEFINE x == 5 * b
               y == 4 * among
    <3>1. among > 1 => x \in Nat /\ y \in Nat \ {0} BY <2>3, <2>4
    <3> HIDE DEF x, y
    <3>2. x \in Nat /\ y \in Nat \ {0} => x \div y \in Nat OBVIOUS
    <3> QED BY <3>1, <3>2 DEF x, y
  <2>8. /\ answers[i].known = pool'[n].known /\ answers[i].share \in Nat
        /\ answers[i].share > 0 => L # {l} /\ answers[i].share = (5 * b) \div (4 * among)
    BY <2>3, <2>5, <2>6, <2>7
  <2>9. {l} \cup LiveIn(pool'[n]) = L /\ Cardinality({l} \cup LiveIn(pool'[n])) = among BY <2>2 DEF among
  <2> QED BY <2>8, <2>9 DEF b, n
<1>7. DOMAIN answers = DOMAIN ChainOf[l] OBVIOUS
<1> HIDE DEF answers
<1>8. \A n \in Nodes : NodeFits(pool'[n]) BY <1>4
<1>9. ToldFits(l, Told(l, answers), pool') BY <1>6, <1>7, <1>8, ExchangeFits
<1>10. \A m \in PathLanes : ToldFits(m, lanes[m], pool')
  <2>1. \A m \in PathLanes : ToldFits(m, lanes[m], pool) BY DEF PathIInv
  <2> QED BY <1>4, <2>1, ToldStays
<1>11. lanes = [m \in PathLanes |-> lanes[m]] BY DEF PathIInv
<1>12. \A m \in PathLanes : lanes'[m] = (IF m = l THEN Told(l, answers) ELSE lanes[m]) BY <1>2, <1>11
<1>13. lanes' = [m \in PathLanes |-> lanes'[m]] BY <1>2, <1>11
<1>14. \A m \in PathLanes : ToldFits(m, lanes'[m], pool') BY <1>9, <1>10, <1>12
<1> QED BY <1>8, <1>13, <1>14 DEF PathIInv

LEMMA GoingFits == ASSUME PathIInv, NEW l \in PathLanes, LaneGone(l) PROVE PathIInv'
<1>1. pool' = pool /\ lanes' = [lanes EXCEPT ![l] = NotMade] BY DEF LaneGone
<1>2. lanes = [m \in PathLanes |-> lanes[m]] BY DEF PathIInv
<1>3. \A m \in PathLanes : lanes'[m] = (IF m = l THEN NotMade ELSE lanes[m]) BY <1>1, <1>2
<1>4. lanes' = [m \in PathLanes |-> lanes'[m]] BY <1>1, <1>2
<1>5. ToldFits(l, NotMade, pool) BY DEF ToldFits, NotMade
<1>6. \A m \in PathLanes : ToldFits(m, lanes'[m], pool') BY <1>1, <1>3, <1>5 DEF PathIInv
<1> QED BY <1>1, <1>4, <1>6 DEF PathIInv

LEMMA TickingFits == ASSUME PathIInv, PathTick PROVE PathIInv'
<1>1. pool' = [n \in Nodes |-> Aged(pool[n])] /\ lanes' = lanes BY DEF PathTick
<1>2. \A n \in Nodes : NodeFits(pool[n]) BY DEF PathIInv
<1>3. \A n \in Nodes : NodeFits(pool'[n]) /\ pool'[n].known = pool[n].known /\ pool[n].known \in Nat
  <2>1. ASSUME NEW n \in Nodes PROVE NodeFits(pool'[n]) /\ pool'[n].known = pool[n].known /\ pool[n].known \in Nat
    <3>1. NodeFits(pool[n]) /\ pool'[n] = Aged(pool[n]) BY <1>1, <1>2
    <3>2. pool[n].known \in Nat BY <3>1 DEF NodeFits
    <3> QED BY <3>1, <3>2, AgedFits
  <2> QED BY <2>1
<1>4. \A n \in Nodes : pool[n].known \in Nat /\ pool'[n].known \in Nat /\ pool'[n].known >= pool[n].known BY <1>3
<1>5. \A m \in PathLanes : ToldFits(m, lanes[m], pool')
  <2>1. \A m \in PathLanes : ToldFits(m, lanes[m], pool) BY DEF PathIInv
  <2> QED BY <1>4, <2>1, ToldStays
<1> QED BY <1>1, <1>3, <1>5 DEF PathIInv

\* As many parts as there are lanes, each within an even part of the whole, are within it.
LEMMA PartsWithin ==
  ASSUME NEW S, IsFiniteSet(S), NEW f, NEW q \in Nat, \A x \in S : f[x] \in Nat /\ f[x] <= q
  PROVE  SumFunctionOnSet(f, S) <= Cardinality(S) * q
<1> DEFINE F == {T \in SUBSET S : SumFunctionOnSet(f, T) <= Cardinality(T) * q}
<1>1. {} \in F
  <2>1. SumFunctionOnSet(f, {}) = 0 /\ Cardinality({}) = 0 BY SumEmpty, FS_EmptySet
  <2> QED BY <2>1
<1>2. ASSUME NEW T \in SUBSET S, NEW x \in S, T \in F, x \notin T PROVE T \cup {x} \in F
  <2>1. IsFiniteSet(T) /\ Cardinality(T) \in Nat BY FS_Subset, FS_CardinalityType
  <2>2. Cardinality(T \cup {x}) = Cardinality(T) + 1 BY <1>2, <2>1, FS_AddElement
  <2>3. SumFunctionOnSet(f, T \cup {x}) = SumFunctionOnSet(f, T) + f[x] BY <1>2, <2>1, SumAdd
  <2>4. SumFunctionOnSet(f, T) \in Nat BY <2>1, SumType
  <2>5. SumFunctionOnSet(f, T) <= Cardinality(T) * q BY <1>2
  <2> DEFINE c == Cardinality(T)
             s == SumFunctionOnSet(f, T)
  <2>6. f[x] \in Nat /\ f[x] <= q /\ q \in Nat /\ c \in Nat /\ s \in Nat /\ s <= c * q BY <2>1, <2>4, <2>5
  <2> HIDE DEF c, s
  <2>7. (c + 1) * q = c * q + q /\ c * q \in Nat BY <2>6
  <2>8. s + f[x] <= (c + 1) * q
    <3> DEFINE cq == c * q
               cq1 == (c + 1) * q
    <3>1. cq1 = cq + q /\ cq \in Nat /\ s <= cq BY <2>6, <2>7
    <3> HIDE DEF cq, cq1
    <3>2. s + f[x] <= cq1 BY <2>6, <3>1
    <3> QED BY <3>2 DEF cq1
  <2> QED BY <2>2, <2>3, <2>8 DEF c, s
<1>3. \A T \in SUBSET S : T \in F
  <2> HIDE DEF F
  <2> QED BY <1>1, <1>2, SetInduction
<1> QED BY <1>3

\* A whole divided among more is smaller parts; and its parts, together, are within it.
LEMMA PartsShrink ==
  ASSUME NEW c \in Nat, NEW m \in Nat, c <= m, NEW k \in Nat \ {0}, NEW w \in Nat, k <= w
  PROVE  (5 * c) \div (4 * w) <= (5 * m) \div (4 * k)
<1> DEFINE s == (5 * c) \div (4 * w)
           t == (5 * m) \div (4 * k)
           a == 4 * k
           b == 4 * w
<1>1. a \in Nat \ {0} /\ b \in Nat \ {0} /\ a <= b /\ 5 * c \in Nat /\ 5 * m \in Nat /\ 5 * c <= 5 * m OBVIOUS
<1>2. s \in Nat /\ b * s <= 5 * c
  <2> DEFINE x == 5 * c
  <2> HIDE DEF a, b, x
  <2>1. x \in Nat /\ b \in Nat \ {0} BY <1>1 DEF x
  <2>2. x \div b \in Nat /\ b * (x \div b) <= x BY <2>1
  <2> QED BY <2>2 DEF x, b
<1>3. t \in Nat /\ 5 * m < a * (t + 1)
  <2> DEFINE x == 5 * m
  <2> HIDE DEF a, b, x
  <2>1. x \in Nat /\ a \in Nat \ {0} BY <1>1 DEF x
  <2>2. x \div a \in Nat /\ x < a * ((x \div a) + 1) BY <2>1
  <2> QED BY <2>2 DEF x, a
<1> HIDE DEF s, t, a, b
<1>4. SUFFICES ASSUME t + 1 <= s PROVE FALSE BY <1>2, <1>3 DEF s, t
<1>5. a * (t + 1) <= a * s BY <1>1, <1>2, <1>3, <1>4, ProductsGrow
<1>6. a * s <= b * s BY <1>1, <1>2, ProductsGrow
<1>7. a * (t + 1) \in Nat /\ a * s \in Nat /\ b * s \in Nat BY <1>1, <1>2, <1>3
<1> QED BY <1>1, <1>2, <1>3, <1>5, <1>6, <1>7

LEMMA PartsOfWhole ==
  ASSUME NEW m \in Nat, NEW k \in Nat \ {0}
  PROVE  (5 * m) \div (4 * k) \in Nat /\ k * ((5 * m) \div (4 * k)) <= (5 * m) \div 4
<1> DEFINE q == (5 * m) \div (4 * k)
           x == 5 * m
           a == 4 * k
<1>1. x \in Nat /\ a \in Nat \ {0} OBVIOUS
<1>2. q \in Nat /\ a * q <= x
  <2> HIDE DEF x, a
  <2>1. x \div a \in Nat /\ a * (x \div a) <= x BY <1>1
  <2> QED BY <2>1 DEF x, a
<1> HIDE DEF q
<1>3. k * q \in Nat /\ a * q = 4 * (k * q) BY <1>2
<1> DEFINE y == k * q
<1>4. y \in Nat /\ 4 * y <= x BY <1>2, <1>3
<1> HIDE DEF x, y
<1>5. y <= x \div 4 BY <1>1, <1>4
<1> QED BY <1>2, <1>5 DEF q, x, y

LEMMA PathHolds == PathIInv => PathInv
<1> SUFFICES ASSUME PathIInv PROVE PathInv OBVIOUS
<1>1. \A n \in Nodes : \A s \in pool[n].rates : s.age \in 0..RateWindow
  <2>1. ASSUME NEW n \in Nodes, NEW s \in pool[n].rates PROVE s.age \in 0..RateWindow
    <3>1. NodeFits(pool[n]) BY DEF PathIInv
    <3> QED BY <3>1, PathConstants DEF NodeFits
  <2> QED BY <2>1
<1>2. CapsAreShared
  <2>1. ASSUME NEW l \in PathLanes, lanes[l].share > 0
        PROVE  \E n \in lanes[l].from : lanes[l].with[n] # {l} /\ pool[n].known >= Confident
    <3>1. ToldFits(l, lanes[l], pool) BY DEF PathIInv
    <3> QED BY <2>1, <3>1 DEF ToldFits
  <2> QED BY <2>1 DEF CapsAreShared
<1>3. ASSUME NEW n \in Nodes, NEW here, here = {l \in PathLanes : lanes[l].up /\ n \in lanes[l].from},
             here # {}, \A l \in here : here \subseteq lanes[l].with[n]
      PROVE  SumFunctionOnSet([l \in PathLanes |-> lanes[l].share], here)
               <= (5 * Max({lanes[l].carried[n] : l \in here})) \div 4
  <2> DEFINE f == [l \in PathLanes |-> lanes[l].share]
             C == {lanes[l].carried[n] : l \in here}
             M == Max(C)
             k == Cardinality(here)
  <2>1. IsFiniteSet(here) /\ here \subseteq PathLanes BY <1>3, PathConstants, FS_Subset
  <2>2. ASSUME NEW l \in here
        PROVE  /\ lanes[l].share \in Nat /\ lanes[l].carried[n] \in Nat
               /\ lanes[l].with[n] \subseteq PathLanes
               /\ lanes[l].share = (5 * lanes[l].carried[n]) \div (4 * Cardinality(lanes[l].with[n]))
    <3>1. l \in PathLanes /\ n \in lanes[l].from BY <1>3, <2>2
    <3>2. ToldFits(l, lanes[l], pool) BY <3>1 DEF PathIInv
    <3> QED BY <3>1, <3>2 DEF ToldFits
  <2>3. IsFiniteSet(C)
    <3> DEFINE m == [l \in here |-> lanes[l].carried[n]]
    <3>1. {m[l] : l \in here} = C OBVIOUS
    <3>2. IsFiniteSet({m[l] : l \in here})
      <4> HIDE DEF m
      <4> QED BY <2>1, MappedFinite
    <3> QED BY <3>1, <3>2
  <2>4. C # {} /\ C \subseteq Nat BY <1>3, <2>2
  <2>5. \A l \in here : lanes[l].carried[n] \in C OBVIOUS
  <2> HIDE DEF C
  <2>6. M \in Nat /\ \A l \in here : lanes[l].carried[n] <= M
    <3>1. Max(C) \in C /\ \A x \in C : Max(C) >= x BY <2>3, <2>4, ExtremesExist
    <3>2. Max(C) \in Nat BY <2>4, <3>1
    <3> QED BY <2>2, <2>5, <3>1, <3>2
  <2>7. k \in Nat \ {0}
    <3>1. k \in Nat /\ k # 0 BY <1>3, <2>1, FS_CardinalityType, FS_EmptySet
    <3> QED BY <3>1
  <2> HIDE DEF M, k
  <2> DEFINE q == (5 * M) \div (4 * k)
  <2>8. ASSUME NEW l \in here PROVE lanes[l].share <= q
    <3> DEFINE w == Cardinality(lanes[l].with[n])
               c == lanes[l].carried[n]
    <3>1. IsFiniteSet(lanes[l].with[n]) BY <2>2, PathConstants, FS_Subset
    <3>2. k <= w /\ w \in Nat BY <1>3, <2>8, <3>1, FS_Subset, FS_CardinalityType DEF k
    <3>3. lanes[l].share = (5 * c) \div (4 * w) /\ c \in Nat /\ c <= M BY <2>2, <2>6
    <3> HIDE DEF w, c, q
    <3>4. (5 * c) \div (4 * w) <= (5 * M) \div (4 * k) BY <2>6, <2>7, <3>2, <3>3, PartsShrink
    <3> QED BY <3>3, <3>4 DEF q
  <2>9. q \in Nat /\ k * q <= (5 * M) \div 4 BY <2>6, <2>7, PartsOfWhole
  <2> HIDE DEF q
  <2>10. \A l \in here : f[l] = lanes[l].share BY <2>1
  <2>11. \A l \in here : f[l] \in Nat /\ f[l] <= q
    <3> HIDE DEF f
    <3> QED BY <2>2, <2>8, <2>10
  <2> HIDE DEF f
  <2>12. SumFunctionOnSet(f, here) <= k * q BY <2>1, <2>9, <2>11, PartsWithin DEF k
  <2>13. SumFunctionOnSet(f, here) \in Nat BY <2>1, <2>11, SumType
  <2>14. k * q \in Nat /\ (5 * M) \div 4 \in Int BY <2>6, <2>7, <2>9
  <2> QED BY <2>9, <2>12, <2>13, <2>14 DEF f, M, C
<1>4. SharesFit BY <1>3 DEF SharesFit
<1> QED BY <1>1, <1>2, <1>4 DEF PathInv

\* Nobody is held back alone, and the lanes of a node together may send five quarters of what
\* it carried and no more once each has heard of the others (Report, Current, combine), for
\* any lanes, chains, rates and bounds, and every order of reports, joins, closes and ticks.
THEOREM NobodyIsHeldBackAlone == PathSpec => []PathInv
<1>1. ASSUME PathIInv, [PathNext]_pathVars PROVE PathIInv'
  <2>1. CASE UNCHANGED pathVars BY <1>1, <2>1 DEF pathVars, PathIInv
  <2>2. ASSUME NEW l \in PathLanes, LaneMade(l) PROVE PathIInv' BY <1>1, <2>2, MakingFits
  <2>3. ASSUME NEW l \in PathLanes, LaneReports(l) PROVE PathIInv' BY <1>1, <2>3, ReportingFits
  <2>4. ASSUME NEW l \in PathLanes, LaneGone(l) PROVE PathIInv' BY <1>1, <2>4, GoingFits
  <2>5. CASE PathTick BY <1>1, <2>5, TickingFits
  <2> QED BY <1>1, <2>1, <2>2, <2>3, <2>4, <2>5 DEF PathNext
<1> QED BY <1>1, PathStarts, PathHolds, PTL DEF PathSpec

-----------------------------------------------------------------------------
(* PacketQueue: what the ring holds *)

\* A ring of slots 0 to its size less one, its head and tail among them, together if full.
RingFits(r) ==
  /\ SizeOfRing(r) \in Nat \ {0}
  /\ r \in [slots : [0..(SizeOfRing(r) - 1) -> Int], head : 0..(SizeOfRing(r) - 1),
            tail : 0..(SizeOfRing(r) - 1), ringFull : BOOLEAN]
  /\ r.ringFull => r.head = r.tail

\* From the packet `first` on, the ring holds the packets K and nothing else.
Shows(r, first, K) ==
  /\ RingFits(r)
  /\ \A p \in K : first <= p /\ p < first + RingLen(r)
  /\ \A i \in 0..(RingLen(r) - 1) : Offset(r, i) = IF first + i \in K THEN first + i ELSE Absent

QueueIInv ==
  /\ kept \subseteq Nat /\ IsFiniteSet(kept) /\ present = Cardinality(kept)
  /\ Shows(Ring, firstPacket, kept)
  /\ IF kept = {} THEN firstPacket = NoPacket /\ RingLen(Ring) = 0 ELSE firstPacket \in kept

LEMMA Wraps ==
  ASSUME NEW n \in Nat \ {0}, NEW a \in Nat, a < n + n
  PROVE  a % n = (IF a < n THEN a ELSE a - n)
<1>1. a % n \in 0..(n - 1) /\ a = n * (a \div n) + (a % n) /\ a \div n \in Nat OBVIOUS
<1> DEFINE q == a \div n
           m == a % n
<1>2. q \in Nat /\ m \in Nat /\ m < n /\ a = n * q + m BY <1>1
<1> HIDE DEF q, m
<1>3. CASE q = 0
  <2>1. n * q = 0 BY <1>3
  <2> QED BY <1>2, <2>1 DEF m
<1>4. CASE q = 1
  <2>1. n * q = n BY <1>4
  <2> QED BY <1>2, <2>1 DEF m
<1>5. CASE q >= 2
  <2>1. PICK d \in Nat : q = 2 + d
    <3>1. q - 2 \in Nat /\ q = 2 + (q - 2) BY <1>2, <1>5
    <3> QED BY <3>1
  <2>2. n * q = n + n + n * d /\ n * d \in Nat BY <2>1
  <2> DEFINE nd == n * d
             nq == n * q
  <2>3. nq = n + n + nd /\ nd \in Nat /\ a = nq + m BY <1>2, <2>2
  <2> HIDE DEF nd, nq
  <2> QED BY <1>2, <2>3
<1> QED BY <1>2, <1>3, <1>4, <1>5

\* The slot of the i-th entry, and the length.
Slot(r, i) == IF r.head + i < SizeOfRing(r) THEN r.head + i ELSE (r.head + i) - SizeOfRing(r)
LEMMA RingShape ==
  ASSUME NEW r, RingFits(r)
  PROVE  /\ RingLen(r) \in 0..SizeOfRing(r)
         /\ RingLen(r) = (IF r.ringFull THEN SizeOfRing(r) ELSE IF r.tail >= r.head THEN r.tail - r.head
                          ELSE r.tail - r.head + SizeOfRing(r))
         /\ \A i \in 0..(SizeOfRing(r) - 1) : Offset(r, i) = r.slots[Slot(r, i)] /\ Slot(r, i) \in 0..(SizeOfRing(r) - 1)
<1> DEFINE Sz == SizeOfRing(r)
<1>1. Sz \in Nat \ {0} /\ r.head \in 0..(Sz - 1) /\ r.tail \in 0..(Sz - 1) /\ r.ringFull \in BOOLEAN BY DEF RingFits
<1>2. RingLen(r) = (IF r.ringFull THEN Sz ELSE IF r.tail >= r.head THEN r.tail - r.head ELSE r.tail - r.head + Sz)
  BY DEF RingLen
<1> HIDE DEF Sz
<1>3. RingLen(r) \in 0..Sz BY <1>1, <1>2
<1>4. ASSUME NEW i \in 0..(Sz - 1) PROVE Offset(r, i) = r.slots[Slot(r, i)] /\ Slot(r, i) \in 0..(Sz - 1)
  <2> DEFINE x == r.head + i
  <2>1. x \in Nat /\ x < Sz + Sz BY <1>1
  <2>5. x % Sz = (IF x < Sz THEN x ELSE x - Sz)
    <3> HIDE DEF x
    <3> QED BY <1>1, <2>1, Wraps
  <2>2. (r.head + i) % Sz = (IF r.head + i < Sz THEN r.head + i ELSE (r.head + i) - Sz) BY <2>5
  <2>3. Slot(r, i) = (IF r.head + i < Sz THEN r.head + i ELSE (r.head + i) - Sz) BY DEF Slot, Sz
  <2>4. Offset(r, i) = r.slots[(r.head + i) % Sz] BY DEF Offset, Sz
  <2> QED BY <1>1, <2>1, <2>2, <2>3, <2>4
<1> QED BY <1>2, <1>3, <1>4 DEF Sz

LEMMA SizeFrom == ASSUME NEW r, NEW n \in Nat, DOMAIN r.slots = 0..(n - 1) PROVE SizeOfRing(r) = n
<1>1. Cardinality(0..(n - 1)) = n BY FS_Interval
<1> QED BY <1>1 DEF SizeOfRing

\* A full ring that grows keeps its entries, turned to the front.
LEMMA GrownFits ==
  ASSUME NEW r, RingFits(r), r.ringFull
  PROVE  LET g == Grown(r)
         IN  /\ RingFits(g) /\ ~g.ringFull /\ RingLen(g) = RingLen(r)
             /\ \A i \in 0..(RingLen(r) - 1) : Offset(g, i) = Offset(r, i)
<1> DEFINE Sz == SizeOfRing(r)
           g == Grown(r)
<1>1. Sz \in Nat \ {0} /\ RingLen(r) = Sz BY RingShape DEF RingFits
<1>2. /\ g = [slots |-> [i \in 0..(2 * Sz - 1) |-> IF i < Sz THEN r.slots[(r.head + i) % Sz] ELSE Absent],
              head |-> 0, tail |-> Sz, ringFull |-> FALSE]
  BY <1>1 DEF Grown
<1> HIDE DEF Sz, g
<1>3. /\ g.slots = [i \in 0..(2 * Sz - 1) |-> IF i < Sz THEN r.slots[(r.head + i) % Sz] ELSE Absent]
      /\ g.head = 0 /\ g.tail = Sz /\ g.ringFull = FALSE
  BY <1>2
<1>4. 2 * Sz \in Nat /\ DOMAIN g.slots = 0..(2 * Sz - 1) BY <1>1, <1>3
<1>5. SizeOfRing(g) = 2 * Sz BY <1>4, SizeFrom
<1>6. RingFits(g)
  <2>1. \A i \in 0..(2 * Sz - 1) : i < Sz => r.slots[(r.head + i) % Sz] \in Int
    <3>1. ASSUME NEW i \in 0..(Sz - 1) PROVE r.slots[(r.head + i) % Sz] \in Int
      <4>1. Offset(r, i) = r.slots[Slot(r, i)] /\ Slot(r, i) \in 0..(Sz - 1) BY RingShape DEF Sz
      <4>2. Offset(r, i) \in Int BY <4>1 DEF RingFits, Sz
      <4> QED BY <4>2 DEF Offset, Sz
    <3> QED BY <1>1, <3>1
  <2>2. [i \in 0..(2 * Sz - 1) |-> IF i < Sz THEN r.slots[(r.head + i) % Sz] ELSE Absent] \in [0..(2 * Sz - 1) -> Int]
    BY <2>1 DEF Absent
  <2>3. 2 * Sz \in Nat \ {0} /\ 0 \in 0..(2 * Sz - 1) /\ Sz \in 0..(2 * Sz - 1) BY <1>1
  <2>4. g \in [slots : [0..(2 * Sz - 1) -> Int], head : 0..(2 * Sz - 1), tail : 0..(2 * Sz - 1), ringFull : BOOLEAN]
    BY <1>2, <2>2, <2>3
  <2> QED BY <1>3, <1>5, <2>3, <2>4 DEF RingFits
<1>7. RingLen(g) = Sz BY <1>1, <1>3, <1>6, RingShape
<1>8. ASSUME NEW i \in 0..(Sz - 1) PROVE Offset(g, i) = Offset(r, i)
  <2>1. i \in 0..(2 * Sz - 1) /\ i < Sz /\ g.head + i = i BY <1>1, <1>3
  <2>4. Slot(g, i) = i BY <1>1, <1>3, <1>5, <2>1 DEF Slot
  <2>2. Offset(g, i) = g.slots[i] BY <1>5, <1>6, <2>1, <2>4, RingShape
  <2>3. g.slots[i] = r.slots[(r.head + i) % Sz] BY <1>3, <2>1
  <2> QED BY <2>2, <2>3 DEF Offset, Sz
<1> QED BY <1>1, <1>3, <1>6, <1>7, <1>8 DEF g

LEMMA PushedFits ==
  ASSUME NEW r, RingFits(r), ~r.ringFull, NEW e \in Int
  PROVE  LET t == (r.tail + 1) % SizeOfRing(r)
             p == [r EXCEPT !.slots[r.tail] = e, !.tail = t, !.ringFull = (t = r.head)]
         IN  /\ RingFits(p) /\ RingLen(p) = RingLen(r) + 1 /\ Offset(p, RingLen(r)) = e
             /\ \A i \in 0..(RingLen(r) - 1) : Offset(p, i) = Offset(r, i)
<1> DEFINE Sz == SizeOfRing(r)
           t == (r.tail + 1) % Sz
           p == [r EXCEPT !.slots[r.tail] = e, !.tail = t, !.ringFull = (t = r.head)]
<1>1. /\ Sz \in Nat \ {0} /\ r.head \in 0..(Sz - 1) /\ r.tail \in 0..(Sz - 1)
      /\ r \in [slots : [0..(Sz - 1) -> Int], head : 0..(Sz - 1), tail : 0..(Sz - 1), ringFull : BOOLEAN]
  BY DEF RingFits
<1>2. t = (IF r.tail + 1 < Sz THEN r.tail + 1 ELSE 0)
  <2> HIDE DEF Sz
  <2> DEFINE x == r.tail + 1
  <2>1. x \in Nat /\ x < Sz + Sz BY <1>1
  <2>3. x % Sz = (IF x < Sz THEN x ELSE x - Sz)
    <3> HIDE DEF x
    <3> QED BY <1>1, <2>1, Wraps
  <2>2. (r.tail + 1) % Sz = (IF r.tail + 1 < Sz THEN r.tail + 1 ELSE (r.tail + 1) - Sz) BY <2>3
  <2> QED BY <1>1, <2>2
<1> HIDE DEF Sz, t
<1>3. /\ p.slots = [r.slots EXCEPT ![r.tail] = e] /\ p.head = r.head /\ p.tail = t /\ p.ringFull = (t = r.head)
      /\ p \in [slots : [0..(Sz - 1) -> Int], head : 0..(Sz - 1), tail : 0..(Sz - 1), ringFull : BOOLEAN]
  <2>1. t \in 0..(Sz - 1) /\ (t = r.head) \in BOOLEAN BY <1>1, <1>2
  <2> QED BY <1>1, <2>1
<1> HIDE DEF p
<1>4. /\ DOMAIN p.slots = 0..(Sz - 1)
      /\ \A i \in 0..(Sz - 1) : p.slots[i] = (IF i = r.tail THEN e ELSE r.slots[i])
  BY <1>1, <1>3
<1>5. SizeOfRing(p) = Sz BY <1>1, <1>4, SizeFrom
<1>6. RingFits(p)
  <2> QED BY <1>1, <1>3, <1>5 DEF RingFits
<1>7. RingLen(r) = (IF r.tail >= r.head THEN r.tail - r.head ELSE r.tail - r.head + Sz) BY RingShape DEF Sz
<1>8. RingLen(p) = (IF t = r.head THEN Sz ELSE IF t >= r.head THEN t - r.head ELSE t - r.head + Sz)
  BY <1>3, <1>5, <1>6, RingShape
<1>14. Sz \in Nat \ {0} /\ r.head \in 0..(Sz - 1) /\ r.tail \in 0..(Sz - 1) BY <1>1
<1>9. RingLen(p) = RingLen(r) + 1 /\ RingLen(r) \in 0..(Sz - 1) BY <1>2, <1>7, <1>8, <1>14
<1>10. \A i \in 0..(Sz - 1) : /\ Offset(p, i) = p.slots[Slot(r, i)] /\ Offset(r, i) = r.slots[Slot(r, i)]
                             /\ Slot(r, i) \in 0..(Sz - 1)
                             /\ Slot(r, i) = (IF r.head + i < Sz THEN r.head + i ELSE (r.head + i) - Sz)
  <2>1. \A i : Slot(p, i) = Slot(r, i) BY <1>3, <1>5 DEF Slot, Sz
  <2> QED BY <1>5, <1>6, <2>1, RingShape DEF Slot, Sz
<1>11. Slot(r, RingLen(r)) = r.tail
  <2>1. Slot(r, RingLen(r)) = (IF r.head + RingLen(r) < Sz THEN r.head + RingLen(r) ELSE (r.head + RingLen(r)) - Sz) BY <1>9, <1>10
  <2> QED BY <1>7, <1>9, <1>14, <2>1
<1>12. Offset(p, RingLen(r)) = e BY <1>4, <1>9, <1>10, <1>11
<1>13. ASSUME NEW i \in 0..(RingLen(r) - 1) PROVE Offset(p, i) = Offset(r, i)
  <2>1. i \in 0..(Sz - 1) BY <1>1, <1>9
  <2>3. Slot(r, i) = (IF r.head + i < Sz THEN r.head + i ELSE (r.head + i) - Sz) BY <1>10, <2>1
  <2>4. i \in Nat /\ i < RingLen(r) BY <1>9
  <2>2. Slot(r, i) # r.tail BY <1>7, <1>9, <1>14, <2>3, <2>4
  <2> QED BY <1>4, <1>10, <2>1, <2>2
<1> QED BY <1>6, <1>9, <1>12, <1>13 DEF p, t, Sz

LEMMA PushBackFits ==
  ASSUME NEW r, RingFits(r), NEW e \in Int
  PROVE  LET p == PushBack(r, e)
         IN  /\ RingFits(p) /\ RingLen(p) = RingLen(r) + 1 /\ Offset(p, RingLen(r)) = e
             /\ \A i \in 0..(RingLen(r) - 1) : Offset(p, i) = Offset(r, i)
<1> DEFINE g == IF r.ringFull \/ SizeOfRing(r) = 0 THEN Grown(r) ELSE r
<1>1. SizeOfRing(r) # 0 BY DEF RingFits
<1>2. /\ RingFits(g) /\ ~g.ringFull /\ RingLen(g) = RingLen(r)
      /\ \A i \in 0..(RingLen(r) - 1) : Offset(g, i) = Offset(r, i)
  <2>1. CASE r.ringFull BY <2>1, GrownFits
  <2>2. CASE ~r.ringFull BY <1>1, <2>2
  <2> QED BY <2>1, <2>2
<1> DEFINE t == (g.tail + 1) % SizeOfRing(g)
           p == [g EXCEPT !.slots[g.tail] = e, !.tail = t, !.ringFull = (t = g.head)]
<1>3. PushBack(r, e) = p BY DEF PushBack
<1> HIDE DEF g
<1>4. /\ RingFits(p) /\ RingLen(p) = RingLen(g) + 1 /\ Offset(p, RingLen(g)) = e
      /\ \A i \in 0..(RingLen(g) - 1) : Offset(p, i) = Offset(g, i)
  BY <1>2, PushedFits
<1> HIDE DEF p
<1> QED BY <1>2, <1>3, <1>4

LEMMA PopFrontFits ==
  ASSUME NEW r, RingFits(r), RingLen(r) > 0
  PROVE  LET p == PopFront(r)
         IN  /\ RingFits(p) /\ RingLen(p) = RingLen(r) - 1
             /\ \A i \in 0..(RingLen(r) - 2) : Offset(p, i) = Offset(r, i + 1)
<1> DEFINE Sz == SizeOfRing(r)
           h == (r.head + 1) % Sz
           p == PopFront(r)
<1>1. /\ Sz \in Nat \ {0} /\ r.head \in 0..(Sz - 1) /\ r.tail \in 0..(Sz - 1)
      /\ r.ringFull \in BOOLEAN /\ (r.ringFull => r.head = r.tail)
      /\ r \in [slots : [0..(Sz - 1) -> Int], head : 0..(Sz - 1), tail : 0..(Sz - 1), ringFull : BOOLEAN]
  BY DEF RingFits
<1>2. h = (IF r.head + 1 < Sz THEN r.head + 1 ELSE 0)
  <2> HIDE DEF Sz
  <2> DEFINE x == r.head + 1
  <2>1. x \in Nat /\ x < Sz + Sz BY <1>1
  <2>3. x % Sz = (IF x < Sz THEN x ELSE x - Sz)
    <3> HIDE DEF x
    <3> QED BY <1>1, <2>1, Wraps
  <2>2. (r.head + 1) % Sz = (IF r.head + 1 < Sz THEN r.head + 1 ELSE (r.head + 1) - Sz) BY <2>3
  <2> QED BY <1>1, <2>2
<1>3. /\ p.slots = [r.slots EXCEPT ![r.head] = Absent] /\ p.head = h /\ p.tail = r.tail /\ p.ringFull = FALSE
      /\ p \in [slots : [0..(Sz - 1) -> Int], head : 0..(Sz - 1), tail : 0..(Sz - 1), ringFull : BOOLEAN]
  <2>1. h \in 0..(Sz - 1) BY <1>1, <1>2
  <2>2. p = [r EXCEPT !.slots[r.head] = Absent, !.head = h, !.ringFull = FALSE] BY DEF PopFront
  <2>3. Absent \in Int BY DEF Absent
  <2> HIDE DEF Sz, h, p
  <2> QED BY <1>1, <2>1, <2>2, <2>3
<1> HIDE DEF Sz, h, p
<1>4. /\ DOMAIN p.slots = 0..(Sz - 1)
      /\ \A i \in 0..(Sz - 1) : p.slots[i] = (IF i = r.head THEN Absent ELSE r.slots[i])
  BY <1>1, <1>3
<1>5. SizeOfRing(p) = Sz BY <1>1, <1>4, SizeFrom
<1>6. RingFits(p)
  <2> QED BY <1>1, <1>3, <1>5 DEF RingFits
<1>7. RingLen(r) = (IF r.ringFull THEN Sz ELSE IF r.tail >= r.head THEN r.tail - r.head ELSE r.tail - r.head + Sz)
  BY RingShape DEF Sz
<1>8. RingLen(p) = (IF r.tail >= h THEN r.tail - h ELSE r.tail - h + Sz) BY <1>3, <1>5, <1>6, RingShape
<1>14. /\ Sz \in Nat \ {0} /\ r.head \in 0..(Sz - 1) /\ r.tail \in 0..(Sz - 1)
       /\ r.ringFull \in BOOLEAN /\ (r.ringFull => r.head = r.tail)
  BY <1>1
<1>9. RingLen(p) = RingLen(r) - 1 /\ RingLen(r) \in 1..Sz
  <2>1. CASE r.ringFull BY <1>2, <1>7, <1>8, <1>14, <2>1
  <2>2. CASE ~r.ringFull BY <1>2, <1>7, <1>8, <1>14, <2>2
  <2> QED BY <2>1, <2>2
<1>10. ASSUME NEW i \in 0..(RingLen(r) - 2) PROVE Offset(p, i) = Offset(r, i + 1)
  <2>1. i \in 0..(Sz - 1) /\ i + 1 \in 0..(Sz - 1) BY <1>1, <1>9
  <2>2. /\ Offset(p, i) = p.slots[Slot(p, i)] /\ Slot(p, i) \in 0..(Sz - 1)
        /\ Offset(r, i + 1) = r.slots[Slot(r, i + 1)]
    BY <1>5, <1>6, <2>1, RingShape DEF Sz
  <2>3. Slot(p, i) = (IF h + i < Sz THEN h + i ELSE (h + i) - Sz) BY <1>3, <1>5 DEF Slot
  <2>4. Slot(r, i + 1) = (IF r.head + (i + 1) < Sz THEN r.head + (i + 1) ELSE (r.head + (i + 1)) - Sz) BY DEF Slot, Sz
  <2>6. i \in Nat /\ i + 1 < RingLen(r) BY <1>9
  <2>5. Slot(p, i) = Slot(r, i + 1) /\ Slot(p, i) # r.head BY <1>2, <1>9, <1>14, <2>3, <2>4, <2>6
  <2> QED BY <1>4, <2>2, <2>5
<1> QED BY <1>6, <1>9, <1>10 DEF p

\* Several of either, one after the other.
LEMMA GapFits ==
  ASSUME NEW r, RingFits(r), NEW n \in Nat
  PROVE  LET p == PushedGap(r, n)
         IN  /\ RingFits(p) /\ RingLen(p) = RingLen(r) + n
             /\ \A i \in 0..(RingLen(r) - 1) : Offset(p, i) = Offset(r, i)
             /\ \A i \in RingLen(r)..((RingLen(r) + n) - 1) : Offset(p, i) = Absent
<1> DEFINE Solves(a, m) == a = [i \in 0..m |-> IF i = 0 THEN r ELSE PushBack(a[i - 1], Absent)]
           Solved(m) == \E a : Solves(a, m)
           P == {m \in 0..n : Solved(m)}
<1>1. Solved(0)
  <2>1. \A i \in 0..0 : i = 0 OBVIOUS
  <2>2. Solves([i \in 0..0 |-> r], 0) BY <2>1
  <2> QED BY <2>2
<1>2. ASSUME NEW m \in Nat, Solved(m) PROVE Solved(m + 1)
  <2>1. PICK a : Solves(a, m) BY <1>2
  <2> DEFINE b == [i \in 0..(m + 1) |-> IF i = 0 THEN r ELSE PushBack(a[i - 1], Absent)]
  <2>2. ASSUME NEW i \in 0..(m + 1), i # 0 PROVE b[i - 1] = a[i - 1]
    <3>1. i - 1 \in 0..m /\ i - 1 \in 0..(m + 1) BY <2>2
    <3>2. a[i - 1] = IF i - 1 = 0 THEN r ELSE PushBack(a[(i - 1) - 1], Absent) BY <2>1, <3>1
    <3> QED BY <3>1, <3>2
  <2>3. Solves(b, m + 1)
    <3>1. \A i \in 0..(m + 1) : (IF i = 0 THEN r ELSE PushBack(a[i - 1], Absent)) = (IF i = 0 THEN r ELSE PushBack(b[i - 1], Absent))
      BY <2>2
    <3> QED BY <3>1
  <2> QED BY <2>3
<1>3. Solved(n)
  <2> HIDE DEF Solved
  <2>1. 0 \in P BY <1>1
  <2>2. \A i \in 0..n : i # n /\ i \in P => i + 1 \in P BY <1>2
  <2>3. 0..n \subseteq P
    <3> HIDE DEF P
    <3> QED BY <2>1, <2>2, Climb
  <2> QED BY <2>3
<1> DEFINE after == CHOOSE a : Solves(a, n)
<1>4. PushedGap(r, n) = after[n] BY DEF PushedGap
<1>5. Solves(after, n)
  <2> HIDE DEF Solves
  <2> QED BY <1>3
<1> HIDE DEF after
<1>6. after[0] = r /\ \A i \in 0..n : i # n => after[i + 1] = PushBack(after[i], Absent)
  <2>1. ASSUME NEW i \in 0..n, i # n PROVE after[i + 1] = PushBack(after[i], Absent)
    <3>1. i + 1 \in 0..n /\ i + 1 # 0 /\ (i + 1) - 1 = i BY <2>1
    <3> QED BY <1>5, <3>1
  <2> QED BY <1>5, <2>1
<1> DEFINE L == RingLen(r)
           Good(p, m) == /\ RingFits(p) /\ RingLen(p) = L + m
                         /\ \A i \in 0..(L - 1) : Offset(p, i) = Offset(r, i)
                         /\ \A i \in L..((L + m) - 1) : Offset(p, i) = Absent
           Q == {m \in 0..n : Good(after[m], m)}
<1> HIDE DEF Solves
<1>7. L \in Nat BY RingShape DEF RingFits
<1> HIDE DEF L
<1>8. 0 \in Q
  <2>1. L + 0 = L /\ L..((L + 0) - 1) = {} BY <1>7
  <2> QED BY <1>6, <2>1 DEF L
<1>9. \A m \in 0..n : m # n /\ m \in Q => m + 1 \in Q
  <2>1. ASSUME NEW m \in 0..n, m # n, Good(after[m], m) PROVE Good(after[m + 1], m + 1)
    <3> DEFINE p == after[m]
               s == after[m + 1]
    <3>1. s = PushBack(p, Absent) /\ Absent \in Int BY <1>6, <2>1 DEF Absent
    <3> HIDE DEF p, s
    <3>2. /\ RingFits(p) /\ RingLen(p) = L + m
          /\ \A i \in 0..(L - 1) : Offset(p, i) = Offset(r, i)
          /\ \A i \in L..((L + m) - 1) : Offset(p, i) = Absent
      BY <2>1 DEF p
    <3>3. /\ RingFits(s) /\ RingLen(s) = RingLen(p) + 1 /\ Offset(s, RingLen(p)) = Absent
          /\ \A i \in 0..(RingLen(p) - 1) : Offset(s, i) = Offset(p, i)
      BY <3>1, <3>2, PushBackFits
    <3>4. RingLen(s) = L + (m + 1) BY <1>7, <3>2, <3>3
    <3>5. \A i \in 0..(L - 1) : Offset(s, i) = Offset(r, i)
      <4>1. \A i \in 0..(L - 1) : i \in 0..(RingLen(p) - 1) BY <1>7, <3>2
      <4> QED BY <3>2, <3>3, <4>1
    <3>6. \A i \in L..((L + (m + 1)) - 1) : Offset(s, i) = Absent
      <4>1. \A i \in L..((L + (m + 1)) - 1) : i = RingLen(p) \/ (i \in 0..(RingLen(p) - 1) /\ i \in L..((L + m) - 1))
        BY <1>7, <3>2
      <4> QED BY <3>2, <3>3, <4>1
    <3> QED BY <3>3, <3>4, <3>5, <3>6 DEF s
  <2>2. ASSUME NEW m \in 0..n, m # n, m \in Q PROVE m + 1 \in Q
    <3>1. m + 1 \in 0..n BY <2>2
    <3>2. Good(after[m], m) BY <2>2
    <3> HIDE DEF Good
    <3> QED BY <2>1, <2>2, <3>1, <3>2
  <2> HIDE DEF Q
  <2> QED BY <2>2
<1>10. n \in Q
  <2> HIDE DEF Q
  <2>1. 0..n \subseteq Q BY <1>8, <1>9, Climb
  <2> QED BY <2>1
<1> QED BY <1>4, <1>10 DEF L

LEMMA PoppedFits ==
  ASSUME NEW r, RingFits(r), NEW n \in 0..RingLen(r)
  PROVE  LET p == Popped(r, n)
         IN  /\ RingFits(p) /\ RingLen(p) = RingLen(r) - n
             /\ \A i \in 0..(RingLen(r) - n - 1) : Offset(p, i) = Offset(r, i + n)
<1>0. n \in Nat /\ RingLen(r) \in Nat BY RingShape DEF RingFits
<1> DEFINE Solves(a, m) == a = [i \in 0..m |-> IF i = 0 THEN r ELSE PopFront(a[i - 1])]
           Solved(m) == \E a : Solves(a, m)
           P == {m \in 0..n : Solved(m)}
<1>1. Solved(0)
  <2>1. \A i \in 0..0 : i = 0 OBVIOUS
  <2>2. Solves([i \in 0..0 |-> r], 0) BY <2>1
  <2> QED BY <2>2
<1>2. ASSUME NEW m \in Nat, Solved(m) PROVE Solved(m + 1)
  <2>1. PICK a : Solves(a, m) BY <1>2
  <2> DEFINE b == [i \in 0..(m + 1) |-> IF i = 0 THEN r ELSE PopFront(a[i - 1])]
  <2>2. ASSUME NEW i \in 0..(m + 1), i # 0 PROVE b[i - 1] = a[i - 1]
    <3>1. i - 1 \in 0..m /\ i - 1 \in 0..(m + 1) BY <2>2
    <3>2. a[i - 1] = IF i - 1 = 0 THEN r ELSE PopFront(a[(i - 1) - 1]) BY <2>1, <3>1
    <3> QED BY <3>1, <3>2
  <2>3. Solves(b, m + 1)
    <3>1. \A i \in 0..(m + 1) : (IF i = 0 THEN r ELSE PopFront(a[i - 1])) = (IF i = 0 THEN r ELSE PopFront(b[i - 1]))
      BY <2>2
    <3> QED BY <3>1
  <2> QED BY <2>3
<1>3. Solved(n)
  <2> HIDE DEF Solved
  <2>1. 0 \in P BY <1>0, <1>1
  <2>2. \A i \in 0..n : i # n /\ i \in P => i + 1 \in P BY <1>0, <1>2
  <2>3. 0..n \subseteq P
    <3> HIDE DEF P
    <3> QED BY <1>0, <2>1, <2>2, Climb
  <2> QED BY <1>0, <2>3
<1> DEFINE after == CHOOSE a : Solves(a, n)
<1>4. Popped(r, n) = after[n] BY DEF Popped
<1>5. Solves(after, n)
  <2> HIDE DEF Solves
  <2> QED BY <1>3
<1> HIDE DEF after
<1>6. after[0] = r /\ \A i \in 0..n : i # n => after[i + 1] = PopFront(after[i])
  <2>1. ASSUME NEW i \in 0..n, i # n PROVE after[i + 1] = PopFront(after[i])
    <3>1. i + 1 \in 0..n /\ i + 1 # 0 /\ (i + 1) - 1 = i BY <1>0, <2>1
    <3> QED BY <1>5, <3>1
  <2> QED BY <1>0, <1>5, <2>1
<1> DEFINE L == RingLen(r)
           Good(p, m) == /\ RingFits(p) /\ RingLen(p) = L - m
                         /\ \A i \in 0..(L - m - 1) : Offset(p, i) = Offset(r, i + m)
           Q == {m \in 0..n : Good(after[m], m)}
<1> HIDE DEF Solves
<1>7. L \in Nat /\ n \in Nat /\ n <= L BY <1>0
<1> HIDE DEF L
<1>8. 0 \in Q
  <2>1. L - 0 = L /\ \A i \in 0..(L - 0 - 1) : i + 0 = i BY <1>7
  <2> QED BY <1>6, <1>7, <2>1 DEF L
<1>9. \A m \in 0..n : m # n /\ m \in Q => m + 1 \in Q
  <2>1. ASSUME NEW m \in 0..n, m # n, Good(after[m], m) PROVE Good(after[m + 1], m + 1)
    <3> DEFINE p == after[m]
               s == after[m + 1]
    <3>1. s = PopFront(p) BY <1>6, <2>1
    <3> HIDE DEF p, s
    <3>2. /\ RingFits(p) /\ RingLen(p) = L - m
          /\ \A i \in 0..(L - m - 1) : Offset(p, i) = Offset(r, i + m)
      BY <2>1 DEF p
    <3>3. m \in Nat /\ m < n /\ RingLen(p) > 0 BY <1>7, <2>1, <3>2
    <3>4. /\ RingFits(s) /\ RingLen(s) = RingLen(p) - 1
          /\ \A i \in 0..(RingLen(p) - 2) : Offset(s, i) = Offset(p, i + 1)
      BY <3>1, <3>2, <3>3, PopFrontFits
    <3>5. RingLen(s) = L - (m + 1) BY <1>7, <3>2, <3>3, <3>4
    <3>6. ASSUME NEW i \in 0..(L - (m + 1) - 1) PROVE Offset(s, i) = Offset(r, i + (m + 1))
      <4>1. i \in 0..(RingLen(p) - 2) /\ i + 1 \in 0..(L - m - 1) /\ (i + 1) + m = i + (m + 1) BY <1>7, <3>2, <3>3
      <4> QED BY <3>2, <3>4, <4>1
    <3> QED BY <3>4, <3>5, <3>6 DEF s
  <2>2. ASSUME NEW m \in 0..n, m # n, m \in Q PROVE m + 1 \in Q
    <3>1. m + 1 \in 0..n BY <1>7, <2>2
    <3>2. Good(after[m], m) BY <2>2
    <3> HIDE DEF Good
    <3> QED BY <2>1, <2>2, <3>1, <3>2
  <2> HIDE DEF Q
  <2> QED BY <2>2
<1>10. n \in Q
  <2> HIDE DEF Q
  <2>1. 0..n \subseteq Q BY <1>7, <1>8, <1>9, Climb
  <2> QED BY <1>7, <2>1
<1> QED BY <1>4, <1>10 DEF L

LEMMA QueueStarts == QueueInit => QueueIInv
<1> SUFFICES ASSUME QueueInit PROVE QueueIInv OBVIOUS
<1>1. /\ slots = [i \in 0..(RingSize - 1) |-> Absent] /\ headPos = 0 /\ tailPos = 0 /\ ringFull = FALSE
      /\ present = 0 /\ firstPacket = NoPacket /\ kept = {} /\ RingSize \in Nat \ {0}
  BY QueueConstants DEF QueueInit
<1>2. /\ Ring.slots = slots /\ Ring.head = 0 /\ Ring.tail = 0 /\ Ring.ringFull = FALSE
      /\ Ring \in [slots : [0..(RingSize - 1) -> Int], head : 0..(RingSize - 1), tail : 0..(RingSize - 1), ringFull : BOOLEAN]
  <2>1. [i \in 0..(RingSize - 1) |-> Absent] \in [0..(RingSize - 1) -> Int] BY DEF Absent
  <2>2. 0 \in 0..(RingSize - 1) BY <1>1
  <2> QED BY <1>1, <2>1, <2>2 DEF Ring
<1>3. SizeOfRing(Ring) = RingSize BY <1>1, <1>2, SizeFrom
<1>4. RingFits(Ring) BY <1>1, <1>2, <1>3 DEF RingFits
<1>5. RingLen(Ring) = 0 BY <1>2, <1>4, RingShape
<1>6. Shows(Ring, firstPacket, kept)
  <2>1. 0..(0 - 1) = {} OBVIOUS
  <2> QED BY <1>1, <1>4, <1>5, <2>1 DEF Shows
<1> QED BY <1>1, <1>5, <1>6, FS_EmptySet DEF QueueIInv

LEMMA BecomesRing ==
  ASSUME NEW r, RingFits(r), Becomes(r) PROVE Ring' = r
BY DEF RingFits, Becomes, Ring

\* A ring with more packets at its end.
LEMMA ShowsPushed ==
  ASSUME NEW r, NEW first \in Nat, NEW K, K \subseteq Nat, Shows(r, first, K), NEW p \in Nat, p = first + RingLen(r)
  PROVE  Shows(PushBack(r, p), first, K \cup {p}) /\ RingLen(PushBack(r, p)) = RingLen(r) + 1
<1> DEFINE s == PushBack(r, p)
           L == RingLen(r)
<1>1. /\ RingFits(r) /\ (\A q \in K : first <= q /\ q < first + L)
      /\ \A i \in 0..(L - 1) : Offset(r, i) = IF first + i \in K THEN first + i ELSE Absent
  BY DEF Shows
<1>2. L \in Nat BY <1>1, RingShape DEF RingFits
<1>3. /\ RingFits(s) /\ RingLen(s) = L + 1 /\ Offset(s, L) = p
      /\ \A i \in 0..(L - 1) : Offset(s, i) = Offset(r, i)
  BY <1>1, PushBackFits
<1> HIDE DEF s, L
<1>4. p = first + L BY DEF L
<1>5. ASSUME NEW q \in K \cup {p} PROVE first <= q /\ q < first + (L + 1)
  <2>1. CASE q = p BY <1>2, <1>4, <2>1
  <2>2. CASE q \in K
    <3>1. q \in Nat /\ first <= q /\ q < first + L BY <1>1, <2>2
    <3> QED BY <1>2, <3>1
  <2> QED BY <2>1, <2>2
<1>6. ASSUME NEW i \in 0..L PROVE Offset(s, i) = IF first + i \in K \cup {p} THEN first + i ELSE Absent
  <2>1. CASE i = L BY <1>3, <1>4, <2>1
  <2>2. CASE i # L
    <3>1. i \in 0..(L - 1) /\ first + i # p BY <1>2, <1>4, <2>2
    <3> QED BY <1>1, <1>3, <3>1
  <2> QED BY <2>1, <2>2
<1>7. (L + 1) - 1 = L BY <1>2
<1> QED BY <1>3, <1>5, <1>6, <1>7 DEF Shows, s, L

LEMMA ShowsGap ==
  ASSUME NEW r, NEW first \in Nat, NEW K, K \subseteq Nat, Shows(r, first, K), NEW n \in Nat
  PROVE  Shows(PushedGap(r, n), first, K) /\ RingLen(PushedGap(r, n)) = RingLen(r) + n
<1> DEFINE s == PushedGap(r, n)
           L == RingLen(r)
<1>1. /\ RingFits(r) /\ (\A q \in K : first <= q /\ q < first + L)
      /\ \A i \in 0..(L - 1) : Offset(r, i) = IF first + i \in K THEN first + i ELSE Absent
  BY DEF Shows
<1>2. L \in Nat BY <1>1, RingShape DEF RingFits
<1>3. /\ RingFits(s) /\ RingLen(s) = L + n
      /\ (\A i \in 0..(L - 1) : Offset(s, i) = Offset(r, i)) /\ \A i \in L..((L + n) - 1) : Offset(s, i) = Absent
  BY <1>1, GapFits
<1> HIDE DEF s, L
<1>4. ASSUME NEW q \in K PROVE first <= q /\ q < first + (L + n)
  <2>1. q \in Nat /\ first <= q /\ q < first + L BY <1>1
  <2> QED BY <1>2, <2>1
<1>5. ASSUME NEW i \in 0..((L + n) - 1) PROVE Offset(s, i) = IF first + i \in K THEN first + i ELSE Absent
  <2>1. CASE i \in 0..(L - 1) BY <1>1, <1>3, <2>1
  <2>2. CASE i \notin 0..(L - 1)
    <3>1. i \in L..((L + n) - 1) /\ ~(first + i < first + L) BY <1>2, <2>2
    <3>2. first + i \notin K BY <1>1, <3>1
    <3> QED BY <1>3, <3>1, <3>2
  <2> QED BY <2>1, <2>2
<1> QED BY <1>3, <1>4, <1>5 DEF Shows, s, L

\* A ring without its first entries, which hold none of the packets that stay.
LEMMA ShowsPopped ==
  ASSUME NEW r, NEW first \in Int, NEW K, K \subseteq Nat, Shows(r, first, K), NEW n \in 0..RingLen(r),
         NEW T, T = {q \in K : first + n <= q}
  PROVE  Shows(Popped(r, n), first + n, T) /\ RingLen(Popped(r, n)) = RingLen(r) - n
<1> DEFINE s == Popped(r, n)
           L == RingLen(r)
<1>1. /\ RingFits(r) /\ (\A q \in K : first <= q /\ q < first + L)
      /\ \A i \in 0..(L - 1) : Offset(r, i) = IF first + i \in K THEN first + i ELSE Absent
  BY DEF Shows
<1>2. L \in Nat /\ n \in 0..L BY <1>1, RingShape DEF RingFits
<1>3. /\ RingFits(s) /\ RingLen(s) = L - n
      /\ \A i \in 0..(L - n - 1) : Offset(s, i) = Offset(r, i + n)
  BY <1>1, PoppedFits
<1> HIDE DEF s, L
<1>4. ASSUME NEW q \in T PROVE first + n <= q /\ q < (first + n) + (L - n)
  <2>1. q \in Nat /\ first <= q /\ q < first + L /\ first + n <= q BY <1>1
  <2> QED BY <1>2, <2>1
<1>5. ASSUME NEW i \in 0..(L - n - 1)
      PROVE  Offset(s, i) = IF (first + n) + i \in T THEN (first + n) + i ELSE Absent
  <2>1. i + n \in 0..(L - 1) /\ first + (i + n) = (first + n) + i /\ first + n <= (first + n) + i BY <1>2
  <2>2. Offset(s, i) = IF (first + n) + i \in K THEN (first + n) + i ELSE Absent BY <1>1, <1>3, <2>1
  <2> QED BY <2>1, <2>2
<1> QED BY <1>3, <1>4, <1>5 DEF Shows, s, L

\* clearup leaves the ring from its first packet on, or empty.
LEMMA ClearedUpFits ==
  ASSUME NEW r, NEW first \in Int, NEW K, K \subseteq Nat, IsFiniteSet(K), Shows(r, first, K), ClearedUp(r, first),
         K # {} => first \in Nat
  PROVE  /\ Shows(Ring', firstPacket', K)
         /\ IF K = {} THEN firstPacket' = NoPacket /\ RingLen(Ring') = 0 ELSE firstPacket' \in K
<1> DEFINE L == RingLen(r)
           D == {i \in 0..L : i = L \/ Offset(r, i) # Absent}
           n == LeadingAbsent(r)
<1>1. /\ RingFits(r) /\ (\A q \in K : first <= q /\ q < first + L)
      /\ \A i \in 0..(L - 1) : Offset(r, i) = IF first + i \in K THEN first + i ELSE Absent
  BY DEF Shows
<1>2. L \in Nat BY <1>1, RingShape DEF RingFits
<1>3. n = Min(D) BY DEF LeadingAbsent
<1>4. D \subseteq Nat /\ L \in D BY <1>2
<1>5. n \in D /\ \A i \in D : n <= i
  <2> HIDE DEF D
  <2>1. \E x \in D : \A y \in D : x <= y BY <1>4, LeastNatural
  <2> QED BY <1>3, <2>1 DEF Min
<1>6. n \in 0..L /\ (n = L \/ Offset(r, n) # Absent) BY <1>5
<1>7. ASSUME NEW i \in 0..(L - 1), i < n PROVE first + i \notin K
  <2>1. i \in 0..L /\ i # L /\ i \notin D
    <3>1. n \in Nat BY <1>6
    <3> QED BY <1>2, <1>5, <1>7, <3>1
  <2>2. Offset(r, i) = Absent BY <2>1
  <2>3. first + i \in K => first + i \in Nat OBVIOUS
  <2> QED BY <1>1, <2>2, <2>3 DEF Absent
<1>8. \A q \in K : first + n <= q
  <2>1. ASSUME NEW q \in K, ~(first + n <= q) PROVE FALSE
    <3>1. q \in Nat /\ first <= q /\ q < first + L BY <1>1, <2>1
    <3>2. q - first \in 0..(L - 1) /\ q - first < n /\ first + (q - first) = q BY <1>2, <1>6, <2>1, <3>1
    <3> QED BY <1>7, <3>2
  <2> QED BY <2>1
<1>9. Becomes(Popped(r, n)) /\ firstPacket' = (IF n = L THEN NoPacket ELSE first + n) BY DEF ClearedUp
<1> HIDE DEF n, D
<1>10. K = {q \in K : first + n <= q} BY <1>8
<1>11. Shows(Popped(r, n), first + n, K) /\ RingLen(Popped(r, n)) = L - n BY <1>6, <1>10, ShowsPopped
<1>12. Ring' = Popped(r, n) BY <1>9, <1>11, BecomesRing DEF Shows
<1>13. CASE n = L
  <2>1. K = {}
    <3>1. ASSUME NEW q \in K PROVE FALSE
      <4>1. q \in Nat /\ q < first + L /\ first + L <= q BY <1>1, <1>8, <1>13, <3>1
      <4> QED BY <1>2, <4>1
    <3> QED BY <3>1
  <2>2. RingLen(Ring') = 0 /\ firstPacket' = NoPacket BY <1>2, <1>9, <1>11, <1>12, <1>13
  <2>3. RingFits(Ring') BY <1>11, <1>12 DEF Shows
  <2>4. 0..(0 - 1) = {} OBVIOUS
  <2>5. Shows(Ring', firstPacket', K) BY <2>1, <2>2, <2>3, <2>4 DEF Shows
  <2> QED BY <2>1, <2>2, <2>5
<1>14. CASE n # L
  <2>1. n \in 0..(L - 1) BY <1>2, <1>6, <1>14
  <2>2. first + n \in K BY <1>1, <1>6, <1>14, <2>1
  <2>3. firstPacket' = first + n BY <1>9, <1>14
  <2> QED BY <1>11, <1>12, <2>2, <2>3
<1> QED BY <1>13, <1>14

LEMMA EmplaceFits == ASSUME QueueIInv, NEW p \in Nat, Emplace(p) PROVE QueueIInv'
<1>1. /\ kept \subseteq Nat /\ IsFiniteSet(kept) /\ present = Cardinality(kept)
      /\ Shows(Ring, firstPacket, kept) /\ RingFits(Ring)
      /\ IF kept = {} THEN firstPacket = NoPacket /\ RingLen(Ring) = 0 ELSE firstPacket \in kept
  BY DEF QueueIInv, Shows
<1>2. present = 0 <=> kept = {} BY <1>1, FS_EmptySet
<1>3. RingLen(Ring) \in Nat BY <1>1, RingShape DEF RingFits
<1>4. CASE present = 0
  <2>1. /\ Becomes(PushBack(Ring, p)) /\ present' = 1 /\ firstPacket' = p /\ kept' = {p} BY <1>2, <1>4 DEF Emplace
  <2>2. Shows(Ring, p, {})
    <3>1. RingLen(Ring) = 0 /\ 0..(0 - 1) = {} BY <1>1, <1>2, <1>4
    <3> QED BY <1>1, <3>1 DEF Shows
  <2>3. p = p + RingLen(Ring) BY <1>1, <1>2, <1>4
  <2>4. Shows(PushBack(Ring, p), p, {} \cup {p}) BY <2>2, <2>3, ShowsPushed
  <2>5. Ring' = PushBack(Ring, p) BY <2>1, <2>4, BecomesRing DEF Shows
  <2>6. {} \cup {p} = {p} OBVIOUS
  <2>7. IsFiniteSet({p}) /\ Cardinality({p}) = 1 BY FS_Singleton
  <2>8. Shows(Ring', firstPacket', kept') BY <2>1, <2>4, <2>5, <2>6
  <2> QED BY <2>1, <2>7, <2>8 DEF QueueIInv
<1>5. CASE present # 0
  <2> DEFINE n == (p - firstPacket) - RingLen(Ring)
             gap == PushedGap(Ring, n)
             s == PushBack(gap, p)
  <2>1. firstPacket \in kept /\ firstPacket \in Nat BY <1>1, <1>2, <1>5
  <2>2. p > (firstPacket + RingLen(Ring)) - 1 /\ Becomes(s) /\ present' = present + 1 /\ kept' = kept \cup {p}
        /\ firstPacket' = firstPacket
    BY <1>3, <1>5, <2>1 DEF Emplace, LastQueued
  <2>3. n \in Nat BY <1>3, <2>1, <2>2
  <2> HIDE DEF n
  <2>4. Shows(gap, firstPacket, kept) /\ RingLen(gap) = RingLen(Ring) + n BY <1>1, <2>1, <2>3, ShowsGap
  <2> HIDE DEF gap
  <2>5. p = firstPacket + RingLen(gap) BY <1>3, <2>1, <2>3, <2>4 DEF n
  <2>6. Shows(s, firstPacket, kept \cup {p}) BY <1>1, <2>1, <2>4, <2>5, ShowsPushed
  <2> HIDE DEF s
  <2>7. Ring' = s BY <2>2, <2>6, BecomesRing DEF Shows
  <2>8. p \notin kept
    <3>1. ASSUME p \in kept PROVE FALSE
      <4>1. p < firstPacket + RingLen(Ring) BY <1>1, <3>1 DEF Shows
      <4> QED BY <1>3, <2>1, <2>2, <4>1
    <3> QED BY <3>1
  <2>9. IsFiniteSet(kept') /\ present' = Cardinality(kept') /\ kept' \subseteq Nat BY <1>1, <2>2, <2>8, FS_AddElement
  <2>10. Shows(Ring', firstPacket', kept') BY <2>2, <2>6, <2>7
  <2>11. kept' # {} /\ firstPacket' \in kept' BY <2>1, <2>2
  <2> QED BY <2>9, <2>10, <2>11 DEF QueueIInv
<1> QED BY <1>4, <1>5

\* The queue finds exactly the packets kept.
LEMMA FoundIsKept ==
  ASSUME QueueIInv, NEW p \in Nat
  PROVE  /\ InQueue(p) <=> p \in kept
         /\ p \in kept => firstPacket \in Nat /\ p - firstPacket \in 0..(RingLen(Ring) - 1) /\ Offset(Ring, p - firstPacket) = p
<1>1. /\ kept \subseteq Nat /\ IsFiniteSet(kept) /\ present = Cardinality(kept)
      /\ Shows(Ring, firstPacket, kept) /\ RingFits(Ring)
      /\ IF kept = {} THEN firstPacket = NoPacket /\ RingLen(Ring) = 0 ELSE firstPacket \in kept
  BY DEF QueueIInv, Shows
<1>2. present = 0 <=> kept = {} BY <1>1, FS_EmptySet
<1>3. RingLen(Ring) \in Nat BY <1>1, RingShape DEF RingFits
<1>4. /\ \A q \in kept : firstPacket <= q /\ q < firstPacket + RingLen(Ring)
      /\ \A i \in 0..(RingLen(Ring) - 1) : Offset(Ring, i) = IF firstPacket + i \in kept THEN firstPacket + i ELSE Absent
  BY <1>1 DEF Shows
<1>5. ASSUME p \in kept
      PROVE firstPacket \in Nat /\ p - firstPacket \in 0..(RingLen(Ring) - 1) /\ Offset(Ring, p - firstPacket) = p
  <2>1. firstPacket \in Nat /\ firstPacket <= p /\ p < firstPacket + RingLen(Ring) BY <1>1, <1>4, <1>5
  <2>2. p - firstPacket \in 0..(RingLen(Ring) - 1) /\ firstPacket + (p - firstPacket) = p BY <1>3, <2>1
  <2> QED BY <1>4, <1>5, <2>1, <2>2
<1>6. ASSUME p \in kept PROVE InQueue(p)
  <2>1. present # 0 /\ p >= firstPacket /\ p - firstPacket < RingLen(Ring) BY <1>2, <1>3, <1>5, <1>6
  <2>2. Offset(Ring, p - firstPacket) # Absent BY <1>5, <1>6 DEF Absent
  <2> QED BY <2>1, <2>2 DEF InQueue
<1>7. ASSUME InQueue(p) PROVE p \in kept
  <2>1. present # 0 /\ p >= firstPacket /\ p - firstPacket < RingLen(Ring) /\ Offset(Ring, p - firstPacket) # Absent
    BY <1>7 DEF InQueue
  <2>2. firstPacket \in Nat BY <1>1, <1>2, <2>1
  <2>3. p - firstPacket \in 0..(RingLen(Ring) - 1) /\ firstPacket + (p - firstPacket) = p BY <1>3, <2>1, <2>2
  <2> QED BY <1>4, <2>1, <2>3
<1> QED BY <1>5, <1>6, <1>7

LEMMA RemoveFits == ASSUME QueueIInv, NEW p \in Nat, RemoveEntry(p) PROVE QueueIInv'
<1> DEFINE Sz == SizeOfRing(Ring)
           L == RingLen(Ring)
           at == (headPos + (p - firstPacket)) % Sz
           marked == [Ring EXCEPT !.slots[at] = Absent]
           K == kept \ {p}
<1>1. /\ kept \subseteq Nat /\ IsFiniteSet(kept) /\ present = Cardinality(kept)
      /\ Shows(Ring, firstPacket, kept) /\ RingFits(Ring)
      /\ IF kept = {} THEN firstPacket = NoPacket /\ RingLen(Ring) = 0 ELSE firstPacket \in kept
  BY DEF QueueIInv, Shows
<1>2. p \in kept /\ firstPacket \in Nat /\ p - firstPacket \in 0..(L - 1) /\ firstPacket \in kept
  <2>1. InQueue(p) BY DEF RemoveEntry
  <2> QED BY <1>1, <2>1, FoundIsKept
<1>3. /\ present' = present - 1 /\ kept' = K
      /\ IF p = firstPacket THEN ClearedUp(marked, firstPacket) ELSE Becomes(marked) /\ firstPacket' = firstPacket
  BY DEF RemoveEntry
<1>4. /\ \A q \in kept : firstPacket <= q /\ q < firstPacket + L
      /\ \A i \in 0..(L - 1) : Offset(Ring, i) = IF firstPacket + i \in kept THEN firstPacket + i ELSE Absent
  BY <1>1 DEF Shows
<1>5. /\ Sz \in Nat \ {0} /\ L \in 0..Sz /\ headPos \in 0..(Sz - 1) /\ Ring.head = headPos
      /\ Ring \in [slots : [0..(Sz - 1) -> Int], head : 0..(Sz - 1), tail : 0..(Sz - 1), ringFull : BOOLEAN]
      /\ (Ring.ringFull => Ring.head = Ring.tail)
      /\ \A i \in 0..(Sz - 1) : Offset(Ring, i) = Ring.slots[Slot(Ring, i)] /\ Slot(Ring, i) \in 0..(Sz - 1)
  BY <1>1, RingShape DEF RingFits, Ring
<1>6. at = Slot(Ring, p - firstPacket) /\ at \in 0..(Sz - 1)
  <2> DEFINE x == headPos + (p - firstPacket)
  <2> HIDE DEF Sz, L
  <2>5. Sz \in Nat \ {0} /\ L \in 0..Sz /\ headPos \in 0..(Sz - 1) BY <1>5
  <2>6. p - firstPacket \in 0..(L - 1) BY <1>2 DEF L
  <2>1. x \in Nat /\ x < Sz + Sz /\ p - firstPacket \in 0..(Sz - 1) BY <2>5, <2>6
  <2>2. x % Sz = (IF x < Sz THEN x ELSE x - Sz)
    <3> HIDE DEF x
    <3> QED BY <1>5, <2>1, Wraps
  <2>3. Slot(Ring, p - firstPacket) = (IF x < Sz THEN x ELSE x - Sz) BY <1>5 DEF Slot, Sz
  <2>4. Slot(Ring, p - firstPacket) \in 0..(Sz - 1) BY <1>5, <2>1
  <2> QED BY <2>2, <2>3, <2>4
<1> HIDE DEF Sz, L, at
<1>7. /\ marked \in [slots : [0..(Sz - 1) -> Int], head : 0..(Sz - 1), tail : 0..(Sz - 1), ringFull : BOOLEAN]
      /\ marked.head = Ring.head /\ marked.tail = Ring.tail /\ marked.ringFull = Ring.ringFull
      /\ \A i \in 0..(Sz - 1) : marked.slots[i] = (IF i = at THEN Absent ELSE Ring.slots[i])
  <2>1. Absent \in Int BY DEF Absent
  <2> QED BY <1>5, <1>6, <2>1
<1> HIDE DEF marked
<1>8. SizeOfRing(marked) = Sz BY <1>5, <1>7, SizeFrom
<1>9. RingFits(marked) BY <1>5, <1>7, <1>8 DEF RingFits
<1>10. RingLen(marked) = L
  <2>1. RingLen(marked) = (IF marked.ringFull THEN Sz ELSE IF marked.tail >= marked.head THEN marked.tail - marked.head
                           ELSE marked.tail - marked.head + Sz)
    BY <1>8, <1>9, RingShape
  <2>2. L = (IF Ring.ringFull THEN Sz ELSE IF Ring.tail >= Ring.head THEN Ring.tail - Ring.head
             ELSE Ring.tail - Ring.head + Sz)
    BY <1>1, RingShape DEF Sz, L
  <2> QED BY <1>7, <2>1, <2>2
<1>11. \A i \in 0..(Sz - 1) : Offset(marked, i) = marked.slots[Slot(Ring, i)]
  <2>1. \A i : Slot(marked, i) = Slot(Ring, i) BY <1>7, <1>8 DEF Slot, Sz
  <2> QED BY <1>8, <1>9, <2>1, RingShape
<1>12. \A i, j \in 0..(Sz - 1) : Slot(Ring, i) = Slot(Ring, j) => i = j
  <2>1. \A i : Slot(Ring, i) = (IF headPos + i < Sz THEN headPos + i ELSE (headPos + i) - Sz) BY <1>5 DEF Slot, Sz
  <2>2. ASSUME NEW i \in 0..(Sz - 1), NEW j \in 0..(Sz - 1), Slot(Ring, i) = Slot(Ring, j) PROVE i = j
    <3>1. (IF headPos + i < Sz THEN headPos + i ELSE (headPos + i) - Sz) = (IF headPos + j < Sz THEN headPos + j ELSE (headPos + j) - Sz)
      BY <2>1, <2>2
    <3>2. Sz \in Nat /\ headPos \in 0..(Sz - 1) BY <1>5
    <3> QED BY <3>1, <3>2
  <2> QED BY <2>2
<1>13. ASSUME NEW i \in 0..(L - 1)
       PROVE  Offset(marked, i) = IF firstPacket + i \in K THEN firstPacket + i ELSE Absent
  <2>1. i \in 0..(Sz - 1) /\ p - firstPacket \in 0..(Sz - 1) /\ Slot(Ring, i) \in 0..(Sz - 1)
    <3>1. i \in 0..(Sz - 1) /\ p - firstPacket \in 0..(Sz - 1) BY <1>2, <1>5
    <3> QED BY <1>5, <3>1
  <2>2. CASE i = p - firstPacket
    <3>1. firstPacket + i = p BY <1>2, <2>2
    <3>2. Offset(marked, i) = Absent BY <1>6, <1>7, <1>11, <2>1, <2>2
    <3> QED BY <3>1, <3>2
  <2>3. CASE i # p - firstPacket
    <3>1. firstPacket + i # p BY <1>2, <2>1, <2>3
    <3>2. Slot(Ring, i) # at BY <1>6, <1>12, <2>1, <2>3
    <3>5. marked.slots[Slot(Ring, i)] = Ring.slots[Slot(Ring, i)] BY <1>7, <2>1, <3>2
    <3>6. Offset(Ring, i) = Ring.slots[Slot(Ring, i)] BY <1>5, <2>1
    <3>3. Offset(marked, i) = Offset(Ring, i) BY <1>11, <2>1, <3>5, <3>6
    <3>4. Offset(Ring, i) = IF firstPacket + i \in kept THEN firstPacket + i ELSE Absent BY <1>4
    <3> QED BY <3>1, <3>3, <3>4
  <2> QED BY <2>2, <2>3
<1>14. Shows(marked, firstPacket, K) BY <1>4, <1>9, <1>10, <1>13 DEF Shows
<1>15. K \subseteq Nat /\ IsFiniteSet(K) /\ present' = Cardinality(K)
  <2>1. IsFiniteSet(K) /\ Cardinality(K) = Cardinality(kept) - 1 BY <1>1, <1>2, FS_RemoveElement
  <2> QED BY <1>1, <1>3, <2>1
<1>16. CASE p = firstPacket
  <2>1. ClearedUp(marked, firstPacket) BY <1>3, <1>16
  <2> HIDE DEF K
  <2>4. firstPacket \in Int /\ (K # {} => firstPacket \in Nat) BY <1>2
  <2>5. Shows(marked, firstPacket, K) /\ K \subseteq Nat /\ IsFiniteSet(K) BY <1>14, <1>15
  <2>2. /\ Shows(Ring', firstPacket', K)
        /\ IF K = {} THEN firstPacket' = NoPacket /\ RingLen(Ring') = 0 ELSE firstPacket' \in K
    BY <2>1, <2>4, <2>5, ClearedUpFits
  <2>3. RingLen(Ring)' = RingLen(Ring') /\ kept' = K BY <1>3 DEF RingLen, SizeOfRing
  <2> QED BY <1>15, <2>2, <2>3 DEF QueueIInv
<1>17. CASE p # firstPacket
  <2>1. Becomes(marked) /\ firstPacket' = firstPacket BY <1>3, <1>17
  <2>2. Ring' = marked BY <1>9, <2>1, BecomesRing
  <2>3. Shows(Ring', firstPacket', kept') BY <1>3, <1>14, <2>1, <2>2
  <2>4. kept' # {} /\ firstPacket' \in kept' BY <1>2, <1>3, <1>17, <2>1
  <2> QED BY <1>3, <1>15, <2>3, <2>4 DEF QueueIInv
<1> QED BY <1>16, <1>17

LEMMA RemoveUpToFits == ASSUME QueueIInv, NEW p \in Nat, RemoveUpTo(p) PROVE QueueIInv'
<1> DEFINE L == RingLen(Ring)
           b == Below(p)
           K == {q \in kept : q >= p}
           gone == {i \in 0..(b - 1) : Offset(Ring, i) # Absent}
<1>1. /\ kept \subseteq Nat /\ IsFiniteSet(kept) /\ present = Cardinality(kept)
      /\ Shows(Ring, firstPacket, kept) /\ RingFits(Ring)
      /\ IF kept = {} THEN firstPacket = NoPacket /\ RingLen(Ring) = 0 ELSE firstPacket \in kept
  BY DEF QueueIInv, Shows
<1>2. L \in Nat /\ firstPacket \in Int
  <2>1. L \in Nat BY <1>1, RingShape DEF RingFits
  <2>2. NoPacket \in Int /\ \A q \in kept : q \in Int BY <1>1 DEF NoPacket
  <2> QED BY <1>1, <2>1, <2>2
<1>3. /\ \A q \in kept : firstPacket <= q /\ q < firstPacket + L
      /\ \A i \in 0..(L - 1) : Offset(Ring, i) = IF firstPacket + i \in kept THEN firstPacket + i ELSE Absent
  BY <1>1 DEF Shows
<1>4. /\ present' = present - Cardinality(gone) /\ kept' = K /\ ClearedUp(Popped(Ring, b), firstPacket + b)
  BY DEF RemoveUpTo
<1>5. b \in 0..L /\ \A q \in kept : q >= p <=> firstPacket + b <= q
  <2>1. CASE firstPacket = NoPacket \/ firstPacket >= p
    <3>1. b = 0 BY <2>1 DEF Below
    <3>2. CASE firstPacket = NoPacket
      <4>1. kept = {} BY <1>1, <3>2 DEF NoPacket
      <4> QED BY <1>2, <3>1, <4>1
    <3>3. CASE firstPacket >= p
      <4>1. \A q \in kept : q \in Nat /\ firstPacket <= q BY <1>1, <1>3
      <4> QED BY <1>2, <3>1, <3>3, <4>1
    <3> QED BY <2>1, <3>2, <3>3
  <2>2. CASE ~(firstPacket = NoPacket \/ firstPacket >= p)
    <3>1. b = Min({L, p - firstPacket}) /\ p - firstPacket \in Nat BY <1>2, <2>2 DEF Below
    <3>2. b = (IF L <= p - firstPacket THEN L ELSE p - firstPacket) BY <1>2, <3>1 DEF Min
    <3>3. ASSUME NEW q \in kept PROVE q >= p <=> firstPacket + b <= q
      <4>1. q \in Nat /\ q < firstPacket + L BY <1>1, <1>3
      <4> HIDE DEF b, L
      <4> QED BY <1>2, <3>1, <3>2, <4>1
    <3>4. b \in 0..L
      <4> HIDE DEF b, L
      <4> QED BY <1>2, <3>1, <3>2
    <3> QED BY <3>3, <3>4
  <2> QED BY <2>1, <2>2
<1> HIDE DEF b, L
<1>6. K = {q \in kept : firstPacket + b <= q} BY <1>5
<1>7. Shows(Popped(Ring, b), firstPacket + b, K) BY <1>1, <1>2, <1>5, <1>6, ShowsPopped DEF L
\* The entries dropped are the packets below p, each of one entry.
<1>8. Cardinality(gone) = Cardinality(kept \ K) /\ IsFiniteSet(kept \ K)
  <2> DEFINE m == [i \in gone |-> firstPacket + i]
  <2>1. \A i \in 0..(b - 1) : i \in 0..(L - 1) BY <1>2, <1>5
  <2>2. gone = {i \in 0..(b - 1) : firstPacket + i \in kept}
    <3>1. ASSUME NEW i \in 0..(b - 1) PROVE Offset(Ring, i) # Absent <=> firstPacket + i \in kept
      <4>1. Offset(Ring, i) = IF firstPacket + i \in kept THEN firstPacket + i ELSE Absent BY <1>3, <2>1
      <4>2. firstPacket + i \in kept => firstPacket + i # Absent BY <1>1 DEF Absent
      <4> QED BY <4>1, <4>2
    <3> QED BY <3>1
  <2>3. kept \ K = {m[i] : i \in gone}
    <3>1. ASSUME NEW q \in kept \ K PROVE \E i \in gone : m[i] = q
      <4>1. q \in kept /\ q \in Nat /\ ~(firstPacket + b <= q) /\ firstPacket <= q BY <1>1, <1>3, <1>6
      <4>2. q - firstPacket \in 0..(b - 1) /\ firstPacket + (q - firstPacket) = q BY <1>2, <1>5, <4>1
      <4>3. q - firstPacket \in gone BY <2>2, <4>1, <4>2
      <4> QED BY <4>2, <4>3
    <3>2. ASSUME NEW i \in gone PROVE m[i] \in kept \ K
      <4>1. i \in 0..(b - 1) /\ firstPacket + i \in kept BY <2>2
      <4>2. ~(firstPacket + b <= firstPacket + i) BY <1>2, <1>5, <4>1
      <4> QED BY <1>6, <4>1, <4>2
    <3> QED BY <3>1, <3>2
  <2>4. \A i, j \in gone : m[i] = m[j] => i = j BY <1>2, <2>2
  <2>5. IsFiniteSet(gone)
    <3>1. IsFiniteSet(0..(b - 1)) BY <1>2, <1>5, FS_Interval
    <3> QED BY <3>1, FS_Subset
  <2> HIDE DEF gone, m, K
  <2> QED BY <2>3, <2>4, <2>5, ImageSize
<1>9. K \subseteq Nat /\ IsFiniteSet(K) /\ present' = Cardinality(K)
  <2>1. K \subseteq kept /\ kept \ (kept \ K) = K OBVIOUS
  <2>2. IsFiniteSet(K) /\ Cardinality(K) \in Nat BY <1>1, <2>1, FS_Subset, FS_CardinalityType
  <2>3. Cardinality(K \cup (kept \ K)) = Cardinality(K) + Cardinality(kept \ K)
    <3>1. K \cup (kept \ K) = kept /\ kept \cap K = K OBVIOUS
    <3> HIDE DEF K
    <3>2. Cardinality(kept \ K) = Cardinality(kept) - Cardinality(kept \cap K) BY <1>1, FS_Difference
    <3>3. Cardinality(kept) \in Nat BY <1>1, FS_CardinalityType
    <3>4. Cardinality(K \cup (kept \ K)) = Cardinality(kept) /\ Cardinality(kept \cap K) = Cardinality(K) BY <3>1, Zenon
    <3> DEFINE a == Cardinality(kept \ K)
               b1 == Cardinality(kept)
               c == Cardinality(K)
               d == Cardinality(K \cup (kept \ K))
               e == Cardinality(kept \cap K)
    <3>5. a = b1 - e /\ d = b1 /\ e = c /\ b1 \in Nat /\ c \in Nat BY <2>2, <3>2, <3>3, <3>4
    <3> HIDE DEF a, b1, c, d, e
    <3>6. d = c + a BY <3>5
    <3> QED BY <3>6 DEF a, c, d
  <2>4. K \cup (kept \ K) = kept BY <2>1
  <2>5. Cardinality(kept \ K) \in Nat BY <1>8, FS_CardinalityType
  <2> HIDE DEF K, gone
  <2>6. Cardinality(kept) = Cardinality(K) + Cardinality(kept \ K) BY <2>3, <2>4
  <2>7. present' = Cardinality(K) BY <1>1, <1>4, <1>8, <2>2, <2>5, <2>6
  <2> QED BY <1>1, <2>1, <2>2, <2>7
<1>10. K # {} => firstPacket + b \in Nat
  <2>1. K # {} => firstPacket \in Nat BY <1>1
  <2> QED BY <1>2, <1>5, <2>1
<1>11. /\ Shows(Ring', firstPacket', K)
       /\ IF K = {} THEN firstPacket' = NoPacket /\ RingLen(Ring') = 0 ELSE firstPacket' \in K
  <2> DEFINE r == Popped(Ring, b)
             f == firstPacket + b
  <2>1. f \in Int /\ Shows(r, f, K) /\ ClearedUp(r, f) /\ (K # {} => f \in Nat) BY <1>2, <1>4, <1>5, <1>7, <1>10
  <2> HIDE DEF r, f, K
  <2> QED BY <1>9, <2>1, ClearedUpFits
<1>12. RingLen(Ring)' = RingLen(Ring') /\ kept' = K BY <1>4 DEF RingLen, SizeOfRing
<1> HIDE DEF K
<1> QED BY <1>9, <1>11, <1>12 DEF QueueIInv

LEMMA QueueHolds == QueueIInv => QueueInv
<1> SUFFICES ASSUME QueueIInv PROVE QueueInv OBVIOUS
<1>1. /\ kept \subseteq Nat /\ IsFiniteSet(kept) /\ present = Cardinality(kept)
      /\ Shows(Ring, firstPacket, kept) /\ RingFits(Ring)
      /\ IF kept = {} THEN firstPacket = NoPacket /\ RingLen(Ring) = 0 ELSE firstPacket \in kept
  BY DEF QueueIInv, Shows
<1>2. \A p \in 0..QueuedPackets : InQueue(p) <=> p \in kept
  <2>1. ASSUME NEW p \in 0..QueuedPackets PROVE InQueue(p) <=> p \in kept
    <3>1. p \in Nat BY QueueConstants
    <3> QED BY <3>1, FoundIsKept
  <2> QED BY <2>1
<1>3. \A p \in kept : Offset(Ring, p - firstPacket) = p BY <1>1, FoundIsKept
<1>4. firstPacket = (IF kept = {} THEN NoPacket ELSE Min(kept))
  <2>1. CASE kept = {} BY <1>1, <2>1
  <2>2. CASE kept # {}
    <3>1. firstPacket \in kept /\ \A q \in kept : firstPacket <= q BY <1>1, <2>2 DEF Shows
    <3>2. \A x \in kept : (\A y \in kept : x <= y) => x = firstPacket
      <4>1. ASSUME NEW x \in kept, \A y \in kept : x <= y PROVE x = firstPacket
        <5>1. x <= firstPacket /\ firstPacket <= x /\ x \in Nat /\ firstPacket \in Nat BY <1>1, <3>1, <4>1
        <5> QED BY <5>1
      <4> QED BY <4>1
    <3>3. Min(kept) = firstPacket BY <3>1, <3>2 DEF Min
    <3> QED BY <2>2, <3>3
  <2> QED BY <2>1, <2>2
<1>5. kept = {} => RingEmpty(Ring)
  <2> SUFFICES ASSUME kept = {} PROVE RingEmpty(Ring) OBVIOUS
  <2>1. RingLen(Ring) = 0 BY <1>1
  <2>2. RingLen(Ring) = (IF Ring.ringFull THEN SizeOfRing(Ring) ELSE IF Ring.tail >= Ring.head THEN Ring.tail - Ring.head
                         ELSE Ring.tail - Ring.head + SizeOfRing(Ring))
    BY <1>1, RingShape
  <2>3. /\ SizeOfRing(Ring) \in Nat \ {0} /\ Ring.head \in 0..(SizeOfRing(Ring) - 1)
        /\ Ring.tail \in 0..(SizeOfRing(Ring) - 1) /\ Ring.ringFull \in BOOLEAN
    BY <1>1 DEF RingFits
  <2>4. ~Ring.ringFull /\ Ring.head = Ring.tail BY <2>1, <2>2, <2>3
  <2> QED BY <2>4 DEF RingEmpty
<1> QED BY <1>1, <1>2, <1>3, <1>4, <1>5 DEF QueueInv

\* However the ring wraps and grows, the queue finds exactly the packets put in and not taken
\* out, each with its own entry, counts them and keeps no slot before the first (Emplace,
\* Remove, RemoveUpTo, clearup, grow), for any ring, any packets and every order of them.
THEOREM PacketsAreFound == QueueSpec => []QueueInv
<1>1. ASSUME QueueIInv, [QueueNext]_queueVars PROVE QueueIInv'
  <2>1. CASE UNCHANGED queueVars
    <3>1. /\ slots' = slots /\ headPos' = headPos /\ tailPos' = tailPos /\ ringFull' = ringFull
          /\ present' = present /\ firstPacket' = firstPacket /\ kept' = kept
      BY <2>1 DEF queueVars
    <3>2. Ring' = Ring BY <3>1 DEF Ring
    <3>3. RingLen(Ring)' = RingLen(Ring) BY <3>2 DEF RingLen, SizeOfRing
    <3>4. Shows(Ring, firstPacket, kept)' = Shows(Ring, firstPacket, kept)
      BY <3>1, <3>2, <3>3 DEF Shows, RingFits, Offset, SizeOfRing
    <3> QED BY <1>1, <3>1, <3>3, <3>4 DEF QueueIInv
  <2>2. ASSUME NEW p \in 0..QueuedPackets, Emplace(p) \/ RemoveEntry(p) \/ RemoveUpTo(p) PROVE QueueIInv'
    <3>1. p \in Nat BY QueueConstants
    <3> QED BY <1>1, <2>2, <3>1, EmplaceFits, RemoveFits, RemoveUpToFits
  <2> QED BY <1>1, <2>1, <2>2 DEF QueueNext
<1> QED BY <1>1, QueueStarts, QueueHolds, PTL DEF QueueSpec
=============================================================================
