---------------------------- MODULE ProxyServer ----------------------------
(***************************************************************************)
(* One client's session at a Hysteria, Hysteria2 or TUIC server            *)
(* (service.go, service_packet.go): how it is authenticated, the table of  *)
(* its UDP sessions, the goroutines that read its messages and look the    *)
(* table up, the handlers that end their own session, TUIC's Dissociate,   *)
(* and the end of the connection.  A session of the table is a handle;     *)
(* what it does with a payload is ProxyDatagram's.                         *)
(***************************************************************************)
EXTENDS Naturals, Sequences, FiniteSets

CONSTANTS Services,   \* subset of {"hysteria", "hysteria2", "tuic"}
          UDPIds,     \* session numbers the client uses
          Handles,    \* bound: handles made
          Readers,    \* goroutines that handle a message: datagram loops, unidirectional streams
          Requests    \* HTTP requests (Hysteria2)

ASSUME ServerConstants ==
  /\ Services \subseteq {"hysteria", "hysteria2", "tuic"} /\ Handles \in Nat
  /\ IsFiniteSet(Readers) /\ Readers \subseteq Nat

VARIABLES svc, auth,    \* whether authenticated (authDone is closed) is set
          request,      \* request -> idle, checked, done: ServeHTTP
          answered,     \* requests answered with StatusAuthOK
          masked,       \* a user was accepted and answered as if it was not
          loops,        \* running loopMessages
          over,         \* connDone is closed
          table,        \* udpConnMap
          handle,       \* handles made, in order: [id, done, late]
          destroyed,    \* handles whose onDestroy ran
          reader,       \* reader -> [at, id, found]
          strays        \* handles another handle's end or creation took off the table

serverVars == <<svc, auth, request, answered, masked, loops, over, table, handle, destroyed, reader, strays>>

ServerIds == IF svc = "hysteria" THEN 1..Handles ELSE UDPIds
Resting == [at |-> "idle", id |-> 0, found |-> 0]

ServerInit ==
  /\ svc \in Services /\ auth = FALSE /\ over = FALSE /\ loops = 0
  /\ request = [r \in Requests |-> "idle"] /\ answered = {} /\ masked = FALSE
  /\ table = [i \in UDPIds \cup 1..Handles |-> 0] /\ handle = <<>> /\ destroyed = {}
  /\ reader = [m \in Readers |-> Resting] /\ strays = {}

Alive(k) == ~handle[k].done
Mapped == {table[i] : i \in DOMAIN table} \ {0}

(* closeWithError of the session: the table is replaced, what was in it is *)
(* cancelled; Hysteria's handles also run their onDestroy.                 *)
Ended ==
  /\ over' = TRUE
  /\ table' = [i \in DOMAIN table |-> 0]
  /\ handle' = [k \in DOMAIN handle |-> IF k \in Mapped THEN [handle[k] EXCEPT !.done = TRUE] ELSE handle[k]]
  /\ destroyed' = IF svc = "hysteria" THEN destroyed \cup Mapped ELSE destroyed

(* Any cause: the context, a receive error, a bad message, a heartbeat     *)
(* that cannot be sent, the authentication timeout.                        *)
SessionEnds ==
  /\ ~over /\ Ended
  /\ UNCHANGED <<svc, auth, request, answered, masked, loops, reader, strays>>

(* ServeHTTP (Hysteria2).  Requests run concurrently: the field is read in *)
(* one step and set in another.                                            *)
ServeHTTP(r) ==
  /\ svc = "hysteria2" /\ request[r] = "idle" /\ ~over
  /\ request' = [request EXCEPT ![r] = IF auth THEN "done" ELSE "checked"]
  /\ answered' = IF auth THEN answered \cup {r} ELSE answered
  /\ UNCHANGED <<svc, auth, masked, loops, over, table, handle, destroyed, reader, strays>>

(* A user that is not known, one refused after all for its bandwidth, and  *)
(* one whose messages are read from now on.                                *)
Authenticated(r) ==
  /\ request[r] = "checked" /\ request' = [request EXCEPT ![r] = "done"]
  /\ \/ UNCHANGED <<auth, masked, loops, answered>>
     \/ auth' = TRUE /\ masked' = TRUE /\ UNCHANGED <<loops, answered>>
     \/ auth' = TRUE /\ loops' = loops + 1 /\ answered' = answered \cup {r} /\ UNCHANGED masked
  /\ UNCHANGED <<svc, over, table, handle, destroyed, reader, strays>>

(* handleConnection (Hysteria): one hello, read before anything else; the  *)
(* wrong password closes.                                                  *)
ClientHello ==
  /\ svc = "hysteria" /\ ~auth /\ ~over
  /\ \/ auth' = TRUE /\ loops' = 1 /\ UNCHANGED <<over, table, handle, destroyed>>
     \/ Ended /\ UNCHANGED <<auth, loops>>
  /\ UNCHANGED <<svc, request, answered, masked, reader, strays>>

(* CommandAuthenticate (TUIC): under authAccess; a second one, or a wrong  *)
(* token, ends the session.                                                *)
Authenticate ==
  /\ svc = "tuic" /\ ~over
  /\ \/ ~auth /\ auth' = TRUE /\ loops' = 1 /\ UNCHANGED <<over, table, handle, destroyed>>
     \/ Ended /\ UNCHANGED <<auth, loops>>
  /\ UNCHANGED <<svc, request, answered, masked, reader, strays>>

(* What a message finds.  A closed connection's queued messages are still  *)
(* read; a TUIC stream's select may prefer authDone to connDone.           *)
Listening == IF svc = "tuic" THEN auth ELSE loops > 0
ReadersOf == IF svc = "tuic" THEN Readers ELSE {m \in Readers : Cardinality({n \in Readers : n < m}) < loops}

Missing(i) == IF table[i] = 0 THEN TRUE ELSE ~Alive(table[i])

LooksUp(m, i) ==
  /\ svc # "hysteria" /\ Listening /\ m \in ReadersOf /\ reader[m] = Resting /\ Missing(i)
  /\ reader' = [reader EXCEPT ![m] = [at |-> "creates", id |-> i, found |-> 0]]
  /\ UNCHANGED <<svc, auth, request, answered, masked, loops, over, table, handle, destroyed, strays>>

(* handleUDPMessage without a session: a handle, entered in the table.     *)
Entered(i) ==
  LET k == Len(handle) + 1
      was == table[i]
  IN  /\ k <= Handles
      /\ handle' = Append(handle, [id |-> i, done |-> FALSE, late |-> over])
      /\ table' = [table EXCEPT ![i] = k]
      /\ strays' = IF was # 0 /\ Alive(was) THEN strays \cup {was} ELSE strays

Creates(m) ==
  /\ reader[m].at = "creates" /\ reader' = [reader EXCEPT ![m] = Resting]
  /\ Entered(reader[m].id)
  /\ UNCHANGED <<svc, auth, request, answered, masked, loops, over, destroyed>>

(* Hysteria's stream request for UDP: a number of its own; an answer that  *)
(* cannot be written, and the end of the stream, are HandlerCloses.        *)
RequestsUDP ==
  /\ svc = "hysteria" /\ auth /\ Len(handle) < Handles
  /\ Entered(Len(handle) + 1)
  /\ UNCHANGED <<svc, auth, request, answered, masked, loops, over, destroyed, reader>>

(* Hysteria's handleUDPMessage: a session it does not have is an error,    *)
(* and ends the connection.                                                *)
UnknownSession(i) ==
  /\ svc = "hysteria" /\ Listening /\ ~over /\ Missing(i) /\ Ended
  /\ UNCHANGED <<svc, auth, request, answered, masked, loops, reader, strays>>

\* Faulty, unused: the end of a session forgets the table.
MutOffTable(i) == table

(* onDestroy deletes by number, whoever has it now.                        *)
OffTable(i) == [table EXCEPT ![i] = 0]
StraysOf(i, k) == IF table[i] \notin {0, k} /\ Alive(table[i]) THEN strays \cup {table[i]} ELSE strays

(* The handler, or the idle timeout, closes its packet connection.         *)
HandlerCloses(k) ==
  /\ k \notin destroyed /\ destroyed' = destroyed \cup {k}
  /\ handle' = [handle EXCEPT ![k].done = TRUE]
  /\ table' = OffTable(handle[k].id)
  /\ strays' = StraysOf(handle[k].id, k)
  /\ UNCHANGED <<svc, auth, request, answered, masked, loops, over, reader>>

(* CommandDissociate (TUIC): the session found is cancelled, and the       *)
(* number is deleted a step later.                                         *)
Dissociates(m, i) ==
  /\ svc = "tuic" /\ Listening /\ reader[m] = Resting /\ table[i] # 0
  /\ reader' = [reader EXCEPT ![m] = [at |-> "deletes", id |-> i, found |-> table[i]]]
  /\ handle' = [handle EXCEPT ![table[i]].done = TRUE]
  /\ UNCHANGED <<svc, auth, request, answered, masked, loops, over, table, destroyed, strays>>

Deletes(m) ==
  /\ reader[m].at = "deletes" /\ reader' = [reader EXCEPT ![m] = Resting]
  /\ table' = OffTable(reader[m].id)
  /\ strays' = StraysOf(reader[m].id, reader[m].found)
  /\ UNCHANGED <<svc, auth, request, answered, masked, loops, over, handle, destroyed>>

HTTPNext == \E r \in Requests : ServeHTTP(r) \/ Authenticated(r)
ServerNext ==
  \/ SessionEnds \/ HTTPNext \/ ClientHello \/ Authenticate \/ RequestsUDP
  \/ \E m \in Readers : Creates(m) \/ Deletes(m) \/ \E i \in UDPIds : LooksUp(m, i) \/ Dissociates(m, i)
  \/ \E i \in ServerIds : UnknownSession(i)
  \/ \E k \in DOMAIN handle : HandlerCloses(k)

ServerSpec == ServerInit /\ [][ServerNext]_serverVars

(***************************************************************************)
(* However messages, handlers' ends, requests and the end of the           *)
(* connection interleave: no session exists without an authenticated user; *)
(* a number leads to a session of that number whose end has not been       *)
(* handled; a session under way is on the table, or the connection ended   *)
(* around it, unless a handle of its number ended late or raced it, which  *)
(* Hysteria, giving out its own numbers, never sees and Hysteria2, with    *)
(* one reader, sees only behind a session that had ended; nothing that was *)
(* on the table survives the connection; and a client told that it is in   *)
(* has a reader of its messages, unless it was turned away before.         *)
(***************************************************************************)
ServerInv ==
  /\ handle # <<>> => auth
  /\ \A i \in DOMAIN table : table[i] # 0 => handle[table[i]].id = i /\ table[i] \notin destroyed
  /\ \A k \in DOMAIN handle : Alive(k) => k \in Mapped \cup strays \/ (over /\ handle[k].late)
  /\ svc = "hysteria" => strays = {}
  /\ svc = "hysteria2" /\ loops = 1 =>
       \A k \in strays : \E j \in 1..(k - 1) : handle[j].id = handle[k].id /\ ~Alive(j)
  /\ over => \A k \in DOMAIN handle : Alive(k) => handle[k].late \/ k \in strays
  /\ answered # {} /\ ~masked => loops > 0
=============================================================================
