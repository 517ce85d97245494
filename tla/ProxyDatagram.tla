--------------------------- MODULE ProxyDatagram ---------------------------
(***************************************************************************)
(* UDP payloads over QUIC datagrams in Hysteria, Hysteria2 and TUIC: a     *)
(* payload is numbered, cut into fragments that fit, cut again when QUIC   *)
(* refuses a fragment as too large, and put together by a defragmenter     *)
(* that keeps what it has for ten seconds.  Datagrams are lost and         *)
(* reordered; TUIC may send payloads on streams of their own instead.      *)
(* Sizes are in units; a fragment is the part [off, off + size) of its     *)
(* payload under one cut.  The three packet.go files carry the same code;  *)
(* the actions are those of hysteria2/packet.go, the wrappers at the end   *)
(* the copies in hysteria/ and tuic/.                                      *)
(***************************************************************************)
EXTENDS Naturals, Sequences, SequencesExt, FiniteSets, FiniteSetsExt

CONSTANTS Payloads,    \* payloads written, numbered
          Lengths,     \* their lengths
          PacketIds,   \* values of the 16-bit packet number
          FirstMTU,    \* udpMTU less the header
          Limits,      \* what SendDatagram may accept, changing with the path
          Margin,      \* the bytes taken off a refused size (3)
          DataQueue,   \* capacity of the data channel (64)
          DatagramProtocols  \* subset of {"hysteria", "hysteria2", "tuic", "tuicStream"}

(* A fragment has room for more than its header.                           *)
ASSUME DatagramConstants ==
  /\ Payloads \in Nat /\ Lengths \subseteq Nat /\ PacketIds \in Nat \ {0} /\ FirstMTU \in Nat \ {0}
  /\ Limits \subseteq Nat \ {0} /\ Margin \in Nat /\ DataQueue \in Nat

VARIABLES dproto, sizeLimit, udpMTU, packetId,
          tx,       \* the payload being written: [frags, recut], or no frags
          written,  \* payload -> [len, id, cuts], cuts the totals it was sent in
          net,      \* fragments in flight
          items,    \* packet number -> [total, parts]: the defragmenter
          dataQueue, delivered

datagramVars == <<dproto, sizeLimit, udpMTU, packetId, tx, written, net, items, dataQueue, delivered>>

NoTx == [frags |-> <<>>, recut |-> FALSE]
NoItem == [total |-> 0, parts |-> {}]

DatagramInit ==
  /\ dproto \in DatagramProtocols
  /\ sizeLimit \in Limits /\ udpMTU = FirstMTU /\ packetId = 0 /\ tx = NoTx
  /\ written = <<>> /\ net = {} /\ items = [i \in 0..(PacketIds - 1) |-> NoItem]
  /\ dataQueue = <<>> /\ delivered = {}

(* fragUDPMessage: pieces of mtu units, the last one shorter. *)
Pieces(len, mtu) == IF len <= mtu THEN 1 ELSE (len + mtu - 1) \div mtu
FragmentsOf(p, len, id, mtu) ==
  LET n == Pieces(len, mtu)
  IN  [k \in 1..n |-> [payload |-> p, id |-> id, total |-> n, index |-> k - 1, off |-> (k - 1) * mtu,
                       size |-> IF n = 1 THEN len ELSE Min({mtu, len - (k - 1) * mtu})]]

(* 65,535 packets take longer than the defragmenter's ten seconds, so a    *)
(* number comes back only after what it named has gone: the environment.   *)
NumberIsFree(id) == items[id].parts = {} /\ \A f \in net : f.id # id

(* WritePacket and WriteTo: a number, and fragments if it is known not to  *)
(* fit; on a stream everything fits.                                       *)
FirstCut(p, len, id) ==
  FragmentsOf(p, len, id, IF dproto = "tuicStream" THEN len ELSE udpMTU)
WritesPayload ==
  /\ tx.frags = <<>> /\ Len(written) < Payloads
  /\ \E len \in Lengths :
       LET id == (packetId + 1) % PacketIds
           cut == FirstCut(Len(written) + 1, len, id)
       IN  /\ NumberIsFree(id)
           /\ packetId' = id
           /\ written' = Append(written, [len |-> len, id |-> id, cuts |-> <<Len(cut)>>])
           /\ tx' = [frags |-> cut, recut |-> FALSE]
  /\ UNCHANGED <<dproto, sizeLimit, udpMTU, net, items, dataQueue, delivered>>

(* writePacket of the next fragment.                                       *)
Fits(f) == dproto = "tuicStream" \/ f.size <= sizeLimit
SendsFragment ==
  /\ tx.frags # <<>> /\ Fits(Head(tx.frags))
  /\ net' = net \cup {Head(tx.frags)}
  /\ tx' = [tx EXCEPT !.frags = Tail(@)]
  /\ UNCHANGED <<dproto, sizeLimit, udpMTU, packetId, written, items, dataQueue, delivered>>

(* A refusal: the whole payload is cut again, once, to what was refused;   *)
(* TUIC remembers the size.                                                *)
Recut ==
  LET p == Len(written) IN
  /\ tx.frags # <<>> /\ ~Fits(Head(tx.frags))
  /\ IF tx.recut \/ sizeLimit <= Margin
     THEN tx' = NoTx /\ UNCHANGED <<udpMTU, written>>
     ELSE LET cut == FragmentsOf(p, written[p].len, packetId, sizeLimit - Margin)
          IN  /\ tx' = [frags |-> cut, recut |-> TRUE]
              /\ udpMTU' = IF dproto = "tuic" THEN sizeLimit - Margin ELSE udpMTU
              /\ written' = [written EXCEPT ![p].cuts = Append(@, Len(cut))]
  /\ UNCHANGED <<dproto, sizeLimit, packetId, net, items, dataQueue, delivered>>

(* The environment: the path's limit changes, a datagram is lost.          *)
LimitChanges ==
  /\ sizeLimit' \in Limits \ {sizeLimit}
  /\ UNCHANGED <<dproto, udpMTU, packetId, tx, written, net, items, dataQueue, delivered>>
DatagramLost(f) ==
  /\ dproto # "tuicStream" /\ net' = net \ {f}
  /\ UNCHANGED <<dproto, sizeLimit, udpMTU, packetId, tx, written, items, dataQueue, delivered>>

\* Faulty, unused: the pieces of another cut are kept.
MutFed(item, f) ==
  IF item.total = 0 THEN [total |-> f.total, parts |-> {f}]
  ELSE IF \E g \in item.parts : g.index = f.index THEN item
  ELSE [item EXCEPT !.parts = @ \cup {f}]

(* udpDefragger.feed: another total starts the number afresh, a fragment   *)
(* already there is dropped.                                               *)
Fed(item, f) ==
  IF item.total # f.total THEN [total |-> f.total, parts |-> {f}]
  ELSE IF \E g \in item.parts : g.index = f.index THEN item
  ELSE [item EXCEPT !.parts = @ \cup {f}]
\* Faulty, unused: a fragment counts twice.
MutComplete(item) == Cardinality(item.parts) + 1 = item.total

Complete(item) == Cardinality(item.parts) = item.total

(* inputPacket: a full queue drops what it is given.                       *)
Queued(parts) == IF Len(dataQueue) < DataQueue THEN Append(dataQueue, parts) ELSE dataQueue

Arrives(f) ==
  /\ net' = net \ {f}
  /\ IF f.total <= 1 THEN dataQueue' = Queued({f}) /\ UNCHANGED items
     ELSE LET item == Fed(items[f.id], f)
          IN  IF Complete(item)
              THEN dataQueue' = Queued(item.parts) /\ items' = [items EXCEPT ![f.id] = NoItem]
              ELSE items' = [items EXCEPT ![f.id] = item] /\ UNCHANGED dataQueue
  /\ UNCHANGED <<dproto, sizeLimit, udpMTU, packetId, tx, written, delivered>>

(* The cache lets go of a number that was not touched for its age.         *)
Evicts(id) ==
  /\ items[id].parts # {}
  /\ items' = [items EXCEPT ![id] = NoItem]
  /\ UNCHANGED <<dproto, sizeLimit, udpMTU, packetId, tx, written, net, dataQueue, delivered>>

(* ReadPacket, ReadFrom and WaitReadPacket. *)
Reads ==
  /\ dataQueue # <<>>
  /\ delivered' = delivered \cup {Head(dataQueue)} /\ dataQueue' = Tail(dataQueue)
  /\ UNCHANGED <<dproto, sizeLimit, udpMTU, packetId, tx, written, net, items>>

H2DatagramNext ==
  /\ dproto = "hysteria2"
  /\ WritesPayload \/ SendsFragment \/ Recut \/ Reads \/ (\E f \in net : Arrives(f))

HysteriaWrites == WritesPayload
HysteriaSends == SendsFragment
HysteriaRecut == Recut
HysteriaArrives(f) == Arrives(f)
HysteriaReads == Reads
HysteriaDatagramNext ==
  /\ dproto = "hysteria"
  /\ \/ HysteriaWrites \/ HysteriaSends \/ HysteriaRecut \/ HysteriaReads
     \/ \E f \in net : HysteriaArrives(f)

TuicWrites == WritesPayload
TuicSends == SendsFragment
TuicRecut == Recut
TuicArrives(f) == Arrives(f)
TuicReads == Reads
TuicDatagramNext ==
  /\ dproto \in {"tuic", "tuicStream"}
  /\ TuicWrites \/ TuicSends \/ TuicRecut \/ TuicReads \/ (\E f \in net : TuicArrives(f))

DatagramNext ==
  \/ LimitChanges \/ (\E f \in net : DatagramLost(f)) \/ (\E id \in 0..(PacketIds - 1) : Evicts(id))
  \/ HysteriaDatagramNext \/ H2DatagramNext \/ TuicDatagramNext

DatagramSpec == DatagramInit /\ [][DatagramNext]_datagramVars

Part(parts, i) == CHOOSE f \in parts : f.index = i
Contiguous(parts) ==
  LET n == Cardinality(parts) IN
  /\ \A i \in 0..(n - 2) : Part(parts, i).off + Part(parts, i).size = Part(parts, i + 1).off
  /\ \A f \in parts : Part(parts, n - 1).off + Part(parts, n - 1).size = written[f.payload].len

CutTwiceAlike(p) == \E i, j \in 1..Len(written[p].cuts) : i # j /\ written[p].cuts[i] = written[p].cuts[j]

(***************************************************************************)
(* What is read is one payload, all of its fragments and each once, in     *)
(* whatever order they came and whatever became of the fragments of an     *)
(* earlier payload of the same number; its bytes are the payload's, but    *)
(* where the path shrank while it was sent and both cuts have as many      *)
(* pieces, which the defragmenter cannot tell apart.                       *)
(***************************************************************************)
DatagramInv ==
  \A parts \in delivered \cup Range(dataQueue) :
    /\ \A f, g \in parts : f.payload = g.payload /\ (f.index = g.index => f = g)
    /\ \A f \in parts : Cardinality(parts) = f.total
    /\ Contiguous(parts) \/ \E f \in parts : CutTwiceAlike(f.payload)
=============================================================================
