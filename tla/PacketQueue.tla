----------------------------- MODULE PacketQueue -----------------------------
(***************************************************************************)
(* What the bandwidth sampler remembers of the packets in flight           *)
(* (congestion_meta2): a queue indexed by packet number                    *)
(* (packet_number_indexed_queue.go) kept in a ring that doubles when it is *)
(* full (ringbuffer.go).  An entry is the number of its packet.            *)
(***************************************************************************)
EXTENDS Integers, FiniteSets, FiniteSetsExt

CONSTANTS RingSize,     \* the ring's first size
          QueuedPackets \* the last packet number

ASSUME QueueConstants == RingSize \in Nat \ {0} /\ QueuedPackets \in Nat

Absent == -1
NoPacket == -1

VARIABLES slots, headPos, tailPos, ringFull,  \* RingBuffer
          present, firstPacket,           \* numberOfPresentEntries, firstPacket
          kept                            \* ghost: the packets put in and not taken out

queueVars == <<slots, headPos, tailPos, ringFull, present, firstPacket, kept>>

(* RingBuffer: a ring is [slots, head, tail, full]; slots count from 0.    *)
Ring == [slots |-> slots, head |-> headPos, tail |-> tailPos, ringFull |-> ringFull]
SizeOfRing(r) == Cardinality(DOMAIN r.slots)
RingLen(r) ==
  IF r.ringFull THEN SizeOfRing(r)
  ELSE IF r.tail >= r.head THEN r.tail - r.head ELSE r.tail - r.head + SizeOfRing(r)
RingEmpty(r) == ~r.ringFull /\ r.head = r.tail
\* Faulty, unused: the ring grows without turning its entries to the front.
MutGrown(r) ==
  LET old == SizeOfRing(r)
      new == IF old = 0 THEN 1 ELSE 2 * old
  IN  [slots |-> [i \in 0..new - 1 |-> IF i < old THEN r.slots[i] ELSE Absent], head |-> 0, tail |-> old, ringFull |-> FALSE]

Grown(r) ==
  LET old == SizeOfRing(r)
      new == IF old = 0 THEN 1 ELSE 2 * old
  IN  [slots |-> [i \in 0..new - 1 |-> IF i < old THEN r.slots[(r.head + i) % old] ELSE Absent],
       head |-> 0, tail |-> old, ringFull |-> FALSE]
PushBack(r, e) ==
  LET g == IF r.ringFull \/ SizeOfRing(r) = 0 THEN Grown(r) ELSE r
      t == (g.tail + 1) % SizeOfRing(g)
  IN  [g EXCEPT !.slots[g.tail] = e, !.tail = t, !.ringFull = (t = g.head)]
PopFront(r) == [r EXCEPT !.slots[r.head] = Absent, !.head = (@ + 1) % SizeOfRing(r), !.ringFull = FALSE]
Offset(r, i) == r.slots[(r.head + i) % SizeOfRing(r)]

(* Several of either: the gap of absent entries, and the entries dropped.  *)
PushedGap(r, n) == LET after[i \in 0..n] == IF i = 0 THEN r ELSE PushBack(after[i - 1], Absent) IN after[n]
Popped(r, n) == LET after[i \in 0..n] == IF i = 0 THEN r ELSE PopFront(after[i - 1]) IN after[n]
LeadingAbsent(r) == Min({i \in 0..RingLen(r) : i = RingLen(r) \/ Offset(r, i) # Absent})

Becomes(r) == slots' = r.slots /\ headPos' = r.head /\ tailPos' = r.tail /\ ringFull' = r.ringFull
QueueInit ==
  /\ slots = [i \in 0..RingSize - 1 |-> Absent] /\ headPos = 0 /\ tailPos = 0 /\ ringFull = FALSE
  /\ present = 0 /\ firstPacket = NoPacket /\ kept = {}

LastQueued == IF present = 0 THEN NoPacket ELSE firstPacket + RingLen(Ring) - 1

(* Emplace: a packet not above the last one is refused.                    *)
Emplace(p) ==
  IF present = 0
  THEN /\ Becomes(PushBack(Ring, p))
       /\ present' = 1 /\ firstPacket' = p /\ kept' = kept \cup {p}
  ELSE /\ p > LastQueued
       /\ Becomes(PushBack(PushedGap(Ring, (p - firstPacket) - RingLen(Ring)), p))
       /\ present' = present + 1 /\ kept' = kept \cup {p}
       /\ UNCHANGED firstPacket

(* getEntryWraper.                                                         *)
InQueue(p) == /\ present # 0 /\ p >= firstPacket /\ p - firstPacket < RingLen(Ring)
            /\ Offset(Ring, p - firstPacket) # Absent

(* clearup, after r has lost some of its entries.                          *)
ClearedUp(r, first) ==
  LET n == LeadingAbsent(r)
  IN  /\ Becomes(Popped(r, n))
      /\ firstPacket' = (IF n = RingLen(r) THEN NoPacket ELSE first + n)

(* Remove: an acknowledged or lost packet.                                 *)
RemoveEntry(p) ==
  LET marked == [Ring EXCEPT !.slots[(headPos + (p - firstPacket)) % SizeOfRing(Ring)] = Absent]
  IN  /\ InQueue(p)
      /\ present' = present - 1 /\ kept' = kept \ {p}
      /\ IF p = firstPacket THEN ClearedUp(marked, firstPacket)
         ELSE Becomes(marked) /\ UNCHANGED firstPacket

(* RemoveUpTo.                                                             *)
Below(p) == IF firstPacket = NoPacket \/ firstPacket >= p THEN 0 ELSE Min({RingLen(Ring), p - firstPacket})
RemoveUpTo(p) ==
  /\ present' = present - Cardinality({i \in 0..Below(p) - 1 : Offset(Ring, i) # Absent})
  /\ kept' = {q \in kept : q >= p}
  /\ ClearedUp(Popped(Ring, Below(p)), firstPacket + Below(p))

QueueNext == \E p \in 0..QueuedPackets : Emplace(p) \/ RemoveEntry(p) \/ RemoveUpTo(p)
QueueSpec == QueueInit /\ [][QueueNext]_queueVars

-----------------------------------------------------------------------------
(* However the ring wraps and grows, the queue finds exactly the packets   *)
(* put in and not taken out, each with its own entry; it counts them, and  *)
(* keeps no slot before the first of them.                                 *)
QueueInv ==
  /\ \A p \in 0..QueuedPackets : InQueue(p) <=> p \in kept
  /\ \A p \in kept : Offset(Ring, p - firstPacket) = p
  /\ present = Cardinality(kept)
  /\ firstPacket = (IF kept = {} THEN NoPacket ELSE Min(kept))
  /\ kept = {} => RingEmpty(Ring)
==============================================================================
