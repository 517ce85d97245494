----------------------------- MODULE RealmPunch -----------------------------
(***************************************************************************)
(* How a Hysteria2 client reaches a server through a realm: a socket for   *)
(* each address family, a port mapping for IPv4, discovery, the control's  *)
(* introduction, and a race of hole punching in which each side answers    *)
(* the other's hello (hysteria2/client.go, realm/punch_engine.go,          *)
(* realm/punch_conn.go, realm/portmap.go).  Packets may be lost and        *)
(* reordered, and no handler of the two sides knows of the other's.        *)
(***************************************************************************)
EXTENDS FiniteSets, Naturals

CONSTANTS Families   \* subset of {"v4", "v6"}

VARIABLES stage,     \* offerNewRealm
          sock,      \* family -> none, open, closed
          mapping,   \* the port mapping at the gateway: none, mapped, removed, kept, forgotten
          racer,     \* family -> its Punch: idle, punches, met, failed, taken
          winner,
          responder, \* the server's Respond: none, responds, met, failed
          toServer, toClient   \* punch packets in flight: <<family, type>>

punchVars == <<stage, sock, mapping, racer, winner, responder, toServer, toClient>>

NoWinner == "none"
PunchTypes == {"hello", "ack"}

PunchInit ==
  /\ stage = "opens" /\ sock = [f \in Families |-> "none"] /\ mapping = "none"
  /\ racer = [f \in Families |-> "idle"] /\ winner = NoWinner /\ responder = "none"
  /\ toServer = {} /\ toClient = {}

OpenFamilies == {f \in Families : sock[f] = "open"}
Closing(fs) == [f \in Families |-> IF f \in fs /\ sock[f] = "open" THEN "closed" ELSE sock[f]]

(* The deferred Close of the mapper: whatever fails after it was made.     *)
Unmapped == IF mapping = "mapped" THEN "removed" ELSE mapping
GivesUp == stage' = "failed" /\ sock' = Closing(Families) /\ mapping' = Unmapped

(* realmOpenFamilies: those that can be opened, if any.                    *)
OpensFamilies ==
  /\ stage = "opens"
  /\ \E fs \in SUBSET Families :
       /\ sock' = [f \in Families |-> IF f \in fs THEN "open" ELSE "none"]
       /\ stage' = IF fs = {} THEN "failed" ELSE "maps"
  /\ UNCHANGED <<mapping, racer, winner, responder, toServer, toClient>>

(* NewPortMapper, if configured: a mapping is added, then the gateway is   *)
(* asked for its address; an error of that loses sight of the mapping.     *)
MapsPort ==
  /\ stage = "maps" /\ stage' = "discovers"
  /\ mapping' \in IF sock["v4"] = "open" THEN {"none", "mapped", "forgotten"} ELSE {"none"}
  /\ UNCHANGED <<sock, racer, winner, responder, toServer, toClient>>

(* realmDiscoverFamilies: a family no STUN server answers on is closed.    *)
Discovers ==
  /\ stage = "discovers"
  /\ \E fs \in SUBSET OpenFamilies :
       IF fs = {} THEN GivesUp
       ELSE stage' = "connects" /\ sock' = Closing(Families \ fs) /\ UNCHANGED mapping
  /\ UNCHANGED <<racer, winner, responder, toServer, toClient>>

(* The control tells the server, and then the client.                      *)
ServerIsTold ==
  /\ stage \in {"connects", "races"} /\ responder = "none" /\ responder' = "responds"
  /\ toClient' = toClient \cup (OpenFamilies \X {"hello"})
  /\ UNCHANGED <<stage, sock, mapping, racer, winner, toServer>>

Connects ==
  /\ stage = "connects"
  /\ \/ /\ stage' = "races"
        /\ racer' = [f \in Families |-> IF sock[f] = "open" THEN "punches" ELSE "idle"]
        /\ UNCHANGED <<sock, mapping>>
     \/ GivesUp /\ UNCHANGED racer
  /\ UNCHANGED <<winner, responder, toServer, toClient>>

(* Punch, one per family: a hello every interval; the first packet of the  *)
(* peer decides, and a hello is acknowledged.                              *)
Meets(f) == racer' = [racer EXCEPT ![f] = "met"]

PunchHello(f) ==
  /\ racer[f] = "punches" /\ sock[f] = "open" /\ toServer' = toServer \cup {<<f, "hello">>}
  /\ UNCHANGED <<stage, sock, mapping, racer, winner, responder, toClient>>

PunchReads(f) ==
  /\ racer[f] = "punches" /\ sock[f] = "open"
  /\ \E type \in PunchTypes :
       /\ <<f, type>> \in toClient /\ toClient' = toClient \ {<<f, type>>}
       /\ toServer' = IF type = "hello" THEN toServer \cup {<<f, "ack">>} ELSE toServer
  /\ Meets(f)
  /\ UNCHANGED <<stage, sock, mapping, winner, responder>>

(* Its time is up, or its socket was closed under it, or it has no         *)
(* address of the peer's.                                                  *)
PunchFails(f) ==
  /\ racer[f] = "punches" /\ racer' = [racer EXCEPT ![f] = "failed"]
  /\ UNCHANGED <<stage, sock, mapping, winner, responder, toServer, toClient>>

\* Faulty, unused: the loser that has met its peer too is left open.
MutLosers(f) == {g \in Families \ {f} : racer[g] # "met"}

(* realmRacePunch: the first success closes the others; the last failure   *)
(* closes all.                                                             *)
Losers(f) == Families \ {f}

RaceWon(f) ==
  /\ stage = "races" /\ racer[f] = "met"
  /\ stage' = "authenticates" /\ winner' = f /\ sock' = Closing(Losers(f))
  /\ UNCHANGED <<mapping, racer, responder, toServer, toClient>>

RaceLost ==
  /\ stage = "races" /\ \A f \in Families : racer[f] \in {"idle", "failed"}
  /\ GivesUp
  /\ UNCHANGED <<racer, winner, responder, toServer, toClient>>

(* authenticateAndWrap, then KeepAlive of the winner's mapping, or the     *)
(* deferred Close; and the end of the connection.                          *)
Adopted == IF mapping = "mapped" /\ winner = "v4" THEN "kept" ELSE Unmapped

RealmAuthenticates ==
  /\ stage = "authenticates"
  /\ \/ stage' = "done" /\ mapping' = Adopted /\ UNCHANGED sock
     \/ GivesUp
  /\ UNCHANGED <<racer, winner, responder, toServer, toClient>>

RealmConnEnds ==
  /\ stage = "done" /\ stage' = "ended" /\ sock' = Closing(Families)
  /\ mapping' = IF mapping = "kept" THEN "removed" ELSE mapping
  /\ UNCHANGED <<racer, winner, responder, toServer, toClient>>

(* Respond: hellos every interval until the first packet of the attempt,   *)
(* which PunchPacketConn takes out of the listener's packets.              *)
ResponderHellos ==
  /\ responder = "responds" /\ toClient' = toClient \cup (Families \X {"hello"})
  /\ UNCHANGED <<stage, sock, mapping, racer, winner, responder, toServer>>

ResponderReads(f) ==
  /\ responder = "responds"
  /\ \E type \in PunchTypes :
       /\ <<f, type>> \in toServer /\ toServer' = toServer \ {<<f, type>>}
       /\ toClient' = IF type = "hello" THEN toClient \cup {<<f, "ack">>} ELSE toClient
  /\ responder' = "met"
  /\ UNCHANGED <<stage, sock, mapping, racer, winner>>

ResponderFails ==
  /\ responder = "responds" /\ responder' = "failed"
  /\ UNCHANGED <<stage, sock, mapping, racer, winner, toServer, toClient>>

PunchLost ==
  /\ \/ \E p \in toServer : toServer' = toServer \ {p} /\ UNCHANGED toClient
     \/ \E p \in toClient : toClient' = toClient \ {p} /\ UNCHANGED toServer
  /\ UNCHANGED <<stage, sock, mapping, racer, winner, responder>>

PunchNext ==
  \/ OpensFamilies \/ MapsPort \/ Discovers \/ ServerIsTold \/ Connects \/ RaceLost \/ RealmAuthenticates
  \/ RealmConnEnds \/ ResponderHellos \/ ResponderFails \/ PunchLost
  \/ \E f \in Families : PunchHello(f) \/ PunchReads(f) \/ PunchFails(f) \/ RaceWon(f) \/ ResponderReads(f)

PunchSpec == PunchInit /\ [][PunchNext]_punchVars

(***************************************************************************)
(* However families race, fail and lose packets: an offer that failed, or  *)
(* ended, has no socket open, and no mapping but one the gateway made and  *)
(* would not describe; one that stands has the winner's socket and no      *)
(* other, and keeps the mapping exactly if it is the winner's; and neither *)
(* side meets a peer that was not told of the attempt.                     *)
(***************************************************************************)
PunchInv ==
  /\ stage \in {"failed", "ended"} => OpenFamilies = {} /\ mapping \in {"none", "removed", "forgotten"}
  /\ stage \in {"authenticates", "done"} => OpenFamilies = {winner} /\ racer[winner] = "met"
  /\ stage = "done" => mapping # "mapped" /\ (mapping = "kept" => winner = "v4")
  /\ mapping = "kept" => stage = "done"
  /\ \A f \in Families : racer[f] = "met" => responder # "none"
  /\ responder = "met" => \E f \in Families : racer[f] # "idle"
=============================================================================
