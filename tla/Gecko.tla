-------------------------------- MODULE Gecko --------------------------------
(***************************************************************************)
(* Hysteria2's fragmenting obfuscation (hysteria2/gecko.go over            *)
(* salamander.go): a long-header packet is cut into chunks under a message *)
(* number that wraps, and put together again under limits per source and   *)
(* in all.  GeckoPacketConn is the server's, GeckoConn the client's, with  *)
(* one source and no eviction.  Time is counted in halves of               *)
(* geckoReassemblyTTL.                                                     *)
(***************************************************************************)
EXTENDS Naturals, FiniteSets, Sequences

CONSTANTS GeckoKinds, GeckoSources,
          GeckoIds,       \* message numbers before they wrap
          GeckoTotals,    \* the numbers of chunks a packet may be cut into
          MaxPerSource, MaxReassembly,
          GeckoMessages, GeckoTime   \* bounds: packets cut by a source, and time

(* A packet is cut into some chunks, and numbers wrap (gecko.go).            *)
ASSUME GeckoConstants ==
  /\ GeckoKinds \subseteq {"packet", "client"} /\ GeckoIds \in Nat \ {0} /\ GeckoTotals \subseteq Nat \ {0}
  /\ MaxPerSource \in Nat /\ MaxReassembly \in Nat /\ GeckoMessages \in Nat /\ GeckoTime \in Nat

VARIABLES kind, cutBy,     \* source -> the numbers of chunks of the packets cut by it
          entries,         \* reassembly: [src, id, total, got, deadline], got a set of chunks
          nowGecko, lastSweep,
          given            \* the chunks of the packet given up last

geckoVars == <<kind, cutBy, entries, nowGecko, lastSweep, given>>

GeckoInit ==
  /\ kind \in GeckoKinds /\ cutBy = [s \in GeckoSources |-> <<>>] /\ entries = {}
  /\ nowGecko = 0 /\ lastSweep = 0 /\ given = {}

(* writeFragmented: all chunks carry the number and the total.             *)
NumberOf(m) == m % GeckoIds
Chunks(s, m, total) == {[src |-> s, msg |-> m, idx |-> i, total |-> total] : i \in 1..total}

Air == UNION {UNION {Chunks(s, m, cutBy[s][m]) : m \in DOMAIN cutBy[s]} : s \in GeckoSources}

CutsPacket(s, total) ==
  /\ Len(cutBy[s]) < GeckoMessages
  /\ kind = "client" => \A o \in GeckoSources \ {s} : cutBy[o] = <<>>
  /\ cutBy' = [cutBy EXCEPT ![s] = Append(@, total)]
  /\ UNCHANGED <<kind, entries, nowGecko, lastSweep, given>>

GeckoTick ==
  /\ nowGecko < GeckoTime /\ nowGecko' = nowGecko + 1
  /\ UNCHANGED <<kind, cutBy, entries, lastSweep, given>>

(* sweepExpiredLocked, evictOldestLocked: the entries that remain.         *)
SweepDue == nowGecko - lastSweep >= 1
Kept == IF SweepDue THEN {e \in entries : nowGecko <= e.deadline} ELSE entries
Oldest(es) == {e \in es : \A o \in es : e.deadline <= o.deadline}
Of(es, s) == Cardinality({e \in es : e.src = s})

(* acceptChunk (perSource counts what Of does): its entry, a new one when there is room, or none.          *)
Found(es, c) == {e \in es : e.src = c.src /\ e.id = NumberOf(c.msg)}
Fresh(c) == [src |-> c.src, id |-> NumberOf(c.msg), total |-> c.total, got |-> {}, deadline |-> nowGecko + 2]
Full(es, c) == Of(es, c.src) >= MaxPerSource
Makes(es, c, after) ==
  IF Cardinality(es) >= MaxReassembly
    THEN \E o \in Oldest(es) : after = (es \ {o}) \cup {Fresh(c)}
    ELSE after = es \cup {Fresh(c)}
With(e, c) == [e EXCEPT !.got = @ \cup {c}]
\* Faulty, unused: the number of chunks is not compared.
MutRefuses(e, c) == \E g \in e.got : g.idx = c.idx

Refuses(e, c) == e.total # c.total \/ \E g \in e.got : g.idx = c.idx
Whole(e) == Cardinality(e.got) = e.total

Takes(es, e, c) ==
  IF Refuses(e, c) THEN entries' = es /\ UNCHANGED given
  ELSE IF Whole(With(e, c)) THEN entries' = es \ {e} /\ given' = With(e, c).got
  ELSE entries' = (es \ {e}) \cup {With(e, c)} /\ UNCHANGED given

Swept ==
  /\ lastSweep' = IF SweepDue THEN nowGecko ELSE lastSweep
  /\ UNCHANGED <<kind, cutBy, nowGecko>>

(* A chunk arrives: late, again, or (never arriving) lost.                 *)
ChunkArrives(c) ==
  /\ kind = "packet" /\ Swept
  /\ IF Found(Kept, c) # {} THEN \E e \in Found(Kept, c) : Takes(Kept, e, c)
     ELSE IF Full(Kept, c) THEN entries' = Kept /\ UNCHANGED given
     ELSE \E es \in SUBSET (Kept \cup {Fresh(c)}) : Makes(Kept, c, es) /\ Takes(es, Fresh(c), c)

(* The client's: nothing is evicted.                                       *)
ClientChunkArrives(c) ==
  /\ kind = "client" /\ Swept
  /\ IF Found(Kept, c) # {} THEN \E e \in Found(Kept, c) : Takes(Kept, e, c)
     ELSE IF Full(Kept, c) THEN entries' = Kept /\ UNCHANGED given
     ELSE Takes(Kept \cup {Fresh(c)}, Fresh(c), c)

GeckoNext ==
  \/ GeckoTick
  \/ \E s \in GeckoSources, t \in GeckoTotals : CutsPacket(s, t)
  \/ \E c \in Air : ChunkArrives(c) \/ ClientChunkArrives(c)

GeckoSpec == GeckoInit /\ [][GeckoNext]_geckoVars

(***************************************************************************)
(* Whatever is lost, repeated, out of order, evicted or swept: a packet    *)
(* that is given up is every chunk of one packet of its source, or of two  *)
(* whose numbers the wrap made alike and that were cut into as many; no    *)
(* entry is complete, outlives a sweep past its deadline, or shares its    *)
(* number with another; and the limits hold.                               *)
(***************************************************************************)
GeckoInv ==
  /\ \A c, d \in given : c.src = d.src /\ c.total = d.total /\ NumberOf(c.msg) = NumberOf(d.msg)
  /\ \A c \in given : {d.idx : d \in given} = 1..c.total /\ Cardinality(given) = c.total
  /\ \A e \in entries :
       /\ e.got # {} /\ ~Whole(e) /\ e.deadline >= lastSweep
       /\ \A o \in entries : o.src = e.src /\ o.id = e.id => o = e
  /\ \A s \in GeckoSources : Of(entries, s) <= MaxPerSource
  /\ kind = "packet" => Cardinality(entries) <= MaxReassembly
=============================================================================
