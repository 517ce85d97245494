------------------------------ MODULE BulkPool ------------------------------
(***************************************************************************)
(* The client's secondary connections (queqiao/internal/pep/client.go): each *)
(* is reserved for the one lane it carries, returns to an idle set with a     *)
(* timer, and at most BulkMax are pooled.  Handshakes run without the mutex.  *)
(* Which of several idle connections a lane gets is left open.               *)
(***************************************************************************)
EXTENDS Integers, FiniteSets

CONSTANTS
  BulkLanes,      \* goroutines that open or carry a bulk lane
  BulkMax,        \* memoryLimits.maxBulkConnections
  BulkDials       \* bound: connections ever made

ASSUME BulkConstants == BulkMax \in Nat \ {0} /\ BulkDials \in Nat

VARIABLES
  pool,           \* bulkConns
  busy,           \* entries whose busy flag is set
  armed,          \* entries whose idle timer runs
  firing,         \* entries whose timer fired: expireBulkConn waits for the mutex
  bulk,           \* each connection and its packet socket
  dialled,        \* connections made so far
  bulkClosing,    \* connections a goroutine is about to close, the mutex released
  joiner          \* each lane's goroutine

bulkVars == <<pool, busy, armed, firing, bulk, dialled, bulkClosing, joiner>>

Conns         == 1 .. BulkDials
NoConn        == 0
Resting       == [pc |-> "idle", conn |-> NoConn, seen |-> "alive"]
BulkAlive(e)  == bulk[e] = "alive"
\* The lanes a connection is reserved for.
HoldersOf(e)  == {l \in BulkLanes : joiner[l].conn = e /\ joiner[l].pc # "dialed"}

BulkInit ==
  /\ pool = {} /\ busy = {} /\ armed = {} /\ firing = {} /\ bulkClosing = {}
  /\ bulk = [e \in Conns |-> "none"] /\ dialled = 0
  /\ joiner = [l \in BulkLanes |-> Resting]

-----------------------------------------------------------------------------
(* reserveBulkConn *)

BulkBegin(l) ==
  /\ joiner[l].pc = "idle"
  /\ joiner' = [joiner EXCEPT ![l].pc = "reserving"]
  /\ UNCHANGED <<pool, busy, armed, firing, bulk, dialled, bulkClosing>>

\* Entries found dead are pruned and closed under the mutex.
Stale  == {e \in pool : ~BulkAlive(e) /\ e \notin busy}
Pruned == [e \in Conns |-> IF e \in Stale THEN "closed" ELSE bulk[e]]

\* Variants named Mut... are faulty readings of the definition that follows them;
\* no specification uses them, a property must fail when one replaces it.
MutFree == {e \in pool : BulkAlive(e)}

Free == {e \in pool : BulkAlive(e) /\ e \notin busy}

\* An idle connection: its timer is stopped, unless that already fired.
BulkReuse(l) ==
  /\ joiner[l].pc = "reserving"
  /\ pool' = pool \ Stale
  /\ bulk' = Pruned
  /\ \E e \in Free :
       /\ busy' = busy \cup {e}
       /\ armed' = armed \ (Stale \cup {e})
       /\ joiner' = [joiner EXCEPT ![l].pc = "opening", ![l].conn = e]
  /\ UNCHANGED <<firing, dialled, bulkClosing>>

\* None is idle: errBulkConnectionLimit, or a handshake.
BulkNone(l) ==
  /\ joiner[l].pc = "reserving" /\ Free = {}
  /\ pool' = pool \ Stale
  /\ bulk' = Pruned
  /\ armed' = armed \ Stale
  /\ joiner' = [joiner EXCEPT ![l].pc =
                  IF Cardinality(pool \ Stale) >= BulkMax THEN "idle" ELSE "dialing"]
  /\ UNCHANGED <<busy, firing, dialled, bulkClosing>>

\* dialBulkConn returned with a connection, or without one.
BulkDialed(l) ==
  /\ joiner[l].pc = "dialing"
  /\ \/ /\ dialled < BulkDials
        /\ dialled' = dialled + 1
        /\ bulk' = [bulk EXCEPT ![dialled + 1] = "alive"]
        /\ joiner' = [joiner EXCEPT ![l].pc = "dialed", ![l].conn = dialled + 1]
     \/ joiner' = [joiner EXCEPT ![l] = Resting] /\ UNCHANGED <<dialled, bulk>>
  /\ UNCHANGED <<pool, busy, armed, firing, bulkClosing>>

MutFull == FALSE

\* Others may have filled the pool during the handshake.
Full == Cardinality(pool) >= BulkMax

MutSurplus(e) == {}

\* What a full pool does not take is closed.
Surplus(e) == {e}

BulkAdmit(l) ==
  LET e == joiner[l].conn IN
  /\ joiner[l].pc = "dialed"
  /\ IF Full
       THEN /\ bulkClosing' = bulkClosing \cup Surplus(e)
            /\ joiner' = [joiner EXCEPT ![l] = Resting]
            /\ UNCHANGED <<pool, busy>>
       ELSE /\ pool' = pool \cup {e} /\ busy' = busy \cup {e}
            /\ joiner' = [joiner EXCEPT ![l].pc = "opening"]
            /\ UNCHANGED bulkClosing
  /\ UNCHANGED <<armed, firing, bulk, dialled>>

-----------------------------------------------------------------------------
(* The lane's stream, and releaseBulkConn *)

BulkOpens(l) ==
  /\ joiner[l].pc = "opening" /\ BulkAlive(joiner[l].conn)
  /\ joiner' = [joiner EXCEPT ![l].pc = "carrying"]
  /\ UNCHANGED <<pool, busy, armed, firing, bulk, dialled, bulkClosing>>

\* Whether the connection is dead is read before the mutex is taken.
Seen(e) == IF BulkAlive(e) THEN "alive" ELSE "dead"

MutEnds(l) ==
  IF joiner[l].pc = "opening" THEN Resting
  ELSE [joiner[l] EXCEPT !.pc = "releasing", !.seen = Seen(joiner[l].conn)]

Ends(l) == [joiner[l] EXCEPT !.pc = "releasing", !.seen = Seen(joiner[l].conn)]

\* OpenStreamSync failed, or the lane closed its stream.
BulkEnds(l) ==
  /\ joiner[l].pc \in {"opening", "carrying"}
  /\ joiner' = [joiner EXCEPT ![l] = Ends(l)]
  /\ UNCHANGED <<pool, busy, armed, firing, bulk, dialled, bulkClosing>>

MutTimed(e) == armed

\* The idle timer starts again.
Timed(e) == armed \cup {e}

BulkRelease(l) ==
  LET e == joiner[l].conn IN
  /\ joiner[l].pc = "releasing"
  /\ busy' = busy \ {e}
  /\ IF joiner[l].seen = "dead"
       THEN pool' = pool \ {e} /\ bulkClosing' = bulkClosing \cup {e} /\ UNCHANGED armed
       ELSE armed' = Timed(e) /\ UNCHANGED <<pool, bulkClosing>>
  /\ joiner' = [joiner EXCEPT ![l] = Resting]
  /\ UNCHANGED <<firing, bulk, dialled>>

-----------------------------------------------------------------------------
(* expireBulkConn, closeBulkQUICPool, and the network *)

BulkTimerFires(e) ==
  /\ e \in armed
  /\ armed' = armed \ {e} /\ firing' = firing \cup {e}
  /\ UNCHANGED <<pool, busy, bulk, dialled, bulkClosing, joiner>>

MutExpires(e) == pool \cap {e}

\* What the callback takes out: a lane may have reserved the entry by then.
Expires(e) == (pool \cap {e}) \ busy

BulkExpire(e) ==
  /\ e \in firing
  /\ firing' = firing \ {e}
  /\ pool' = pool \ Expires(e)
  /\ bulkClosing' = bulkClosing \cup Expires(e)
  /\ UNCHANGED <<busy, armed, bulk, dialled, joiner>>

\* The client stops, or its network changed: lanes fail and release what they hold.
BulkReset ==
  /\ pool # {}
  /\ pool' = {} /\ bulkClosing' = bulkClosing \cup pool
  /\ UNCHANGED <<busy, armed, firing, bulk, dialled, joiner>>

\* bulkConn.close
BulkCloses(e) ==
  /\ e \in bulkClosing
  /\ bulkClosing' = bulkClosing \ {e}
  /\ bulk' = [bulk EXCEPT ![e] = "closed"]
  /\ armed' = armed \ {e}
  /\ UNCHANGED <<pool, busy, firing, dialled, joiner>>

BulkDies(e) ==
  /\ BulkAlive(e)
  /\ bulk' = [bulk EXCEPT ![e] = "dead"]
  /\ UNCHANGED <<pool, busy, armed, firing, dialled, bulkClosing, joiner>>

BulkNext ==
  \/ \E l \in BulkLanes : BulkBegin(l) \/ BulkReuse(l) \/ BulkNone(l) \/ BulkDialed(l)
                          \/ BulkAdmit(l) \/ BulkOpens(l) \/ BulkEnds(l) \/ BulkRelease(l)
  \/ \E e \in Conns : BulkTimerFires(e) \/ BulkExpire(e) \/ BulkCloses(e) \/ BulkDies(e)
  \/ BulkReset

BulkSpec == BulkInit /\ [][BulkNext]_bulkVars

-----------------------------------------------------------------------------
(* Properties *)

\* "each is reserved exclusively for the lane it carries": no two lanes ever share a
\* secondary connection, and an entry is busy exactly while a lane holds it, so no
\* isolation slot is lost either.
OneLanePerConnection ==
  \A e \in Conns :
    /\ Cardinality(HoldersOf(e)) <= 1
    /\ e \in busy <=> HoldersOf(e) # {}

\* Every open connection is pooled, in a lane's hands or about to be closed.  The pool
\* keeps its limit although handshakes run side by side without the mutex, and no idle
\* entry stays in it: its timer runs, or fired and waits for the mutex.
NoBulkForgotten ==
  /\ \A e \in Conns :
       bulk[e] \in {"alive", "dead"} =>
         e \in pool \cup bulkClosing \/ \E l \in BulkLanes : joiner[l].conn = e
  /\ Cardinality(pool) <= BulkMax
  /\ pool \ busy \subseteq armed \cup firing

\* A connection is one lane's at a time, and never nobody's (reserveBulkConn, client.go:1386).
BulkInv == OneLanePerConnection /\ NoBulkForgotten

Stages == {"idle", "reserving", "dialing", "dialed", "opening", "carrying", "releasing"}

Joiners == [pc : Stages, conn : Conns \cup {NoConn}, seen : {"alive", "dead"}]

JoinerTypeOK == joiner \in [BulkLanes -> Joiners]

BulkTypeOK ==
  /\ pool \subseteq Conns /\ busy \subseteq Conns /\ armed \subseteq Conns
  /\ firing \subseteq Conns /\ bulkClosing \subseteq Conns
  /\ dialled \in 0 .. BulkDials
  /\ bulk \in [Conns -> {"none", "alive", "dead", "closed"}]
  /\ JoinerTypeOK

\* A goroutine has a connection from its dial or its reservation to its release.
HeldByStage ==
  \A l \in BulkLanes :
    joiner[l].conn = NoConn <=> joiner[l].pc \in {"idle", "reserving", "dialing"}

\* No two goroutines have the same one.
HeldByOne ==
  \A l, m \in BulkLanes : joiner[l].conn = joiner[m].conn /\ joiner[l].conn # NoConn => l = m

BusyIsHeld ==
  \A e \in Conns :
    e \in busy <=> \E l \in BulkLanes : joiner[l].conn = e /\ joiner[l].pc # "dialed"

\* A connection just dialled is in no table, and one not dialled is nobody's.
DialedIsNew ==
  /\ \A l \in BulkLanes : joiner[l].pc = "dialed" => joiner[l].conn \notin pool \cup bulkClosing
  /\ \A l \in BulkLanes : joiner[l].conn <= dialled
  /\ \A e \in Conns : e > dialled => bulk[e] = "none" /\ e \notin pool \cup bulkClosing

OneHolder == HeldByStage /\ HeldByOne /\ BusyIsHeld /\ DialedIsNew

\* Every open connection is pooled, about to be closed or just dialled: what a lane returns
\* has not been forgotten meanwhile.
OpenAreKept ==
  \A e \in Conns : bulk[e] \in {"alive", "dead"} =>
    e \in pool \cup bulkClosing \/ \E l \in BulkLanes : joiner[l].pc = "dialed" /\ joiner[l].conn = e

IdleAreTimed == pool \ busy \subseteq armed \cup firing

\* Nothing pooled is about to be closed.
Accounted == OpenAreKept /\ IdleAreTimed /\ pool \cap bulkClosing = {}

\* The inductive invariant.
BulkIInv == BulkTypeOK /\ OneHolder /\ Accounted /\ Cardinality(pool) <= BulkMax

\* A timer that lost the race against a reservation takes no lane's connection away.
ExpiryTakesNoLane ==
  [][\A e \in Conns : e \in firing \ firing' /\ e \in pool \ pool' => HoldersOf(e) = {}]_bulkVars
=============================================================================
