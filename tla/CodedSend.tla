------------------------------ MODULE CodedSend ------------------------------
(***************************************************************************)
(* The sending side of a coded path (queqiao/internal/coded/coded.go):     *)
(* the queue, frames packed into symbols or cut into fragments, the        *)
(* encoder's window, repairs earned at the running rate and at the end of  *)
(* a burst, and a carrier whose datagram limit moves (quic.go).  Sizes are *)
(* in units; a repair is one unit longer than the longest symbol it spans. *)
(***************************************************************************)
EXTENDS Naturals, FiniteSets, Sequences, SequencesExt

CONSTANTS FrameSizes,   \* the frames sent, in order: their sizes
          Rooms,        \* what the carrier may accept
          CodeRates,    \* the code's rate, in halves of a repair for each symbol
          CodeWindow,   \* the code's capacity
          PendingSlots  \* the capacity of pending

ASSUME CodedConstants ==
  /\ FrameSizes \in Seq(Nat \ {0})
  /\ Rooms \subseteq Nat /\ \E r \in Rooms : \A q \in Rooms : q <= r
  /\ CodeRates \subseteq Nat /\ CodeWindow \in Nat \ {0} /\ PendingSlots \in Nat \ {0}

VARIABLES accepted,     \* frames taken by Send
          queuedFrames,      \* frames waiting
          loop,         \* sendLoop: [at, rate, want]
          packed, jobs, \* the symbol being packed; symbols to be emitted: [frames, size, part]
          window,       \* the encoder's: sizes of the symbols it holds
          credit, burst,\* burst: [symbols, repairs]
          room, limit,  \* what the carrier accepts now, and what it last said
          seqs,         \* [next, sent]: nextSeq, and datagrams that reached the carrier
          carried,      \* symbols that reached it: [frames, part]
          refused,      \* frames refused for their size
          cutInto,      \* frame -> its fragments, 0 for none
          coded         \* "open", "failed" or "closed"

codedVars == <<accepted, queuedFrames, loop, packed, jobs, window, credit, burst, room, limit, seqs, carried,
               refused, cutInto, coded>>

Frames == 1..Len(FrameSizes)
NoBurst == [symbols |-> 0, repairs |-> 0]
Biggest == CHOOSE r \in Rooms : \A q \in Rooms : q <= r
AtRest == [at |-> "waits", rate |-> 0, want |-> 0]

CodedInit ==
  /\ accepted = 0 /\ queuedFrames = <<>> /\ loop = AtRest /\ packed = <<>> /\ jobs = <<>> /\ window = <<>>
  /\ credit = 0 /\ burst = NoBurst /\ room = Biggest /\ limit = Biggest
  /\ seqs = [next |-> 0, sent |-> 0] /\ carried = {} /\ refused = {}
  /\ cutInto = [f \in Frames |-> 0] /\ coded = "open"

SizeOf(fs) == FoldLeft(LAMBDA n, f : n + FrameSizes[f], 0, fs)
SymbolPayload == IF limit < 2 THEN 1 ELSE limit - 1
Open == coded = "open"

(* Send: waits for room in the queue; a closed path takes nothing.         *)
SendFrame ==
  /\ Open /\ accepted < Len(FrameSizes) /\ Len(queuedFrames) < PendingSlots
  /\ accepted' = accepted + 1 /\ queuedFrames' = Append(queuedFrames, accepted + 1)
  /\ UNCHANGED <<loop, packed, jobs, window, credit, burst, room, limit, seqs, carried, refused, cutInto, coded>>

RoomMoves ==
  /\ \E r \in Rooms \ {room} : room' = r
  /\ UNCHANGED <<accepted, queuedFrames, loop, packed, jobs, window, credit, burst, limit, seqs, carried, refused,
                 cutInto, coded>>

(* appendFrame: packed with its neighbours, after them, or cut.            *)
Packed == IF packed = <<>> THEN <<>> ELSE <<[frames |-> packed, size |-> SizeOf(packed), part |-> 0]>>
Count(f) == (FrameSizes[f] + SymbolPayload - 1) \div SymbolPayload
Fragment(f, i) == [frames |-> <<f>>, part |-> i,
                   size |-> IF i < Count(f) THEN SymbolPayload ELSE FrameSizes[f] - (i - 1) * SymbolPayload]
Fragments(f) == [i \in 1..Count(f) |-> Fragment(f, i)]

Appends ==
  /\ loop.at \in {"waits", "drains"} /\ jobs = <<>> /\ queuedFrames # <<>> /\ Open
  /\ LET f == Head(queuedFrames) IN
       CASE FrameSizes[f] > SymbolPayload ->
              /\ jobs' = Packed \o Fragments(f) /\ packed' = <<>>
              /\ cutInto' = [cutInto EXCEPT ![f] = Count(f)]
         [] FrameSizes[f] <= SymbolPayload /\ SizeOf(packed) + FrameSizes[f] > SymbolPayload ->
              jobs' = Packed /\ packed' = <<f>> /\ UNCHANGED cutInto
         [] OTHER -> packed' = Append(packed, f) /\ UNCHANGED <<jobs, cutInto>>
  /\ queuedFrames' = Tail(queuedFrames) /\ loop' = [loop EXCEPT !.at = "drains"]
  /\ UNCHANGED <<accepted, window, credit, burst, room, limit, seqs, carried, refused, coded>>

(* put: what the carrier refuses takes no sequence number (untake), and    *)
(* empties the encoder's window (dropOversizedWindow).                     *)
Taken == seqs' = [next |-> seqs.next + 1, sent |-> seqs.sent + 1] /\ UNCHANGED limit
\* Faulty, unused: a refused datagram keeps its sequence number.
MutUntake(s) == [s EXCEPT !.next = @ + 1]

Untake(s) == [s EXCEPT !.next = @]
Oversize == limit' = room /\ window' = <<>> /\ seqs' = Untake(seqs)

\* The fragments of a frame are the last symbols to be emitted: with one, the rest go.
Others(j) == IF j.part = 0 THEN Tail(jobs) ELSE <<>>
SlidBy(w, j) == IF Len(w) < CodeWindow THEN Append(w, j.size) ELSE Append(Tail(w), j.size)
Covers(b) == IF b.symbols >= CodeWindow THEN NoBurst ELSE b

(* emit: the source symbol, and the repairs it has earned.                 *)
Emits(rate) ==
  /\ loop.at \in {"drains", "flushes"} /\ jobs # <<>> /\ Open
  /\ LET j == Head(jobs) IN
       IF j.size > room
         THEN /\ Oversize /\ burst' = NoBurst /\ jobs' = Others(j)
              /\ refused' = refused \cup Range(j.frames) /\ UNCHANGED <<loop, credit, carried>>
         ELSE /\ Taken /\ jobs' = Tail(jobs) /\ window' = SlidBy(window, j)
              /\ carried' = carried \cup {[frames |-> j.frames, part |-> j.part]}
              /\ credit' = credit + rate /\ UNCHANGED refused
              /\ LET b == [burst EXCEPT !.symbols = @ + 1] IN
                   IF credit + rate >= 2
                     THEN burst' = b /\ loop' = [at |-> "repairs", rate |-> rate, want |-> loop.want]
                     ELSE burst' = Covers(b) /\ UNCHANGED loop
  /\ UNCHANGED <<accepted, queuedFrames, packed, room, cutInto, coded>>

(* sendRepair over the newest count symbols, over all for none.            *)
NewestOf(count) == IF count = 0 \/ count > Len(window) THEN Range(window)
                   ELSE {window[i] : i \in (Len(window) - count + 1)..Len(window)}
RepairFits(count) == \A s \in NewestOf(count) : s + 1 <= room
SendRepair(count) ==
  IF window = <<>> THEN UNCHANGED <<seqs, limit, window>> /\ burst' = [burst EXCEPT !.repairs = @ + 1]
  ELSE IF RepairFits(count) THEN Taken /\ UNCHANGED window /\ burst' = [burst EXCEPT !.repairs = @ + 1]
  ELSE Oversize /\ burst' = [NoBurst EXCEPT !.repairs = 1]

RunningRepair ==
  /\ loop.at = "repairs" /\ credit >= 2 /\ credit' = credit - 2 /\ Open
  /\ SendRepair(0)
  /\ UNCHANGED <<accepted, queuedFrames, loop, packed, jobs, room, carried, refused, cutInto, coded>>

RepairsEarned ==
  /\ loop.at = "repairs" /\ credit < 2 /\ burst' = Covers(burst)
  /\ loop' = [loop EXCEPT !.at = IF loop.want = 0 THEN "drains" ELSE "flushes"]
  /\ UNCHANGED <<accepted, queuedFrames, packed, jobs, window, credit, room, limit, seqs, carried, refused, cutInto, coded>>

(* Nothing waits: the symbol goes, and the burst is topped up.             *)
Flushes ==
  /\ loop.at = "drains" /\ jobs = <<>> /\ queuedFrames = <<>> /\ Open
  /\ jobs' = Packed /\ packed' = <<>> /\ loop' = [loop EXCEPT !.at = "flushes", !.want = 1]
  /\ UNCHANGED <<accepted, queuedFrames, window, credit, burst, room, limit, seqs, carried, refused, cutInto, coded>>

TailRepairs(rate, symbols) == rate * symbols
ProtectBegins(rate) ==
  /\ loop.at = "flushes" /\ jobs = <<>>
  /\ loop' = IF burst.symbols = 0 THEN AtRest
             ELSE [at |-> "protects", rate |-> rate, want |-> TailRepairs(rate, burst.symbols)]
  /\ UNCHANGED <<accepted, queuedFrames, packed, jobs, window, credit, burst, room, limit, seqs, carried, refused,
                 cutInto, coded>>

TailRepair ==
  /\ loop.at = "protects" /\ burst.repairs < loop.want /\ Open /\ SendRepair(burst.symbols)
  /\ UNCHANGED <<accepted, queuedFrames, loop, packed, jobs, credit, room, carried, refused, cutInto, coded>>

Protected ==
  /\ loop.at = "protects" /\ burst.repairs >= loop.want
  /\ loop' = AtRest /\ burst' = NoBurst /\ credit' = 0
  /\ UNCHANGED <<accepted, queuedFrames, packed, jobs, window, room, limit, seqs, carried, refused, cutInto, coded>>

(* fail and Close: the loops end, and Send and Receive with them.          *)
CarrierFails ==
  /\ Open /\ coded' \in {"failed", "closed"} /\ loop' = [AtRest EXCEPT !.at = "ended"]
  /\ UNCHANGED <<accepted, queuedFrames, packed, jobs, window, credit, burst, room, limit, seqs, carried, refused, cutInto>>

CodedNext ==
  \/ SendFrame \/ RoomMoves \/ Appends \/ RunningRepair \/ RepairsEarned \/ Flushes \/ TailRepair \/ Protected
  \/ CarrierFails \/ \E rate \in CodeRates : Emits(rate) \/ ProtectBegins(rate)
CodedSpec == CodedInit /\ [][CodedNext]_codedVars

(***************************************************************************)
(* The peer sees no gap the wire never made, whatever the carrier refuses. *)
(* Whenever the loop waits, every frame it took went out whole or was      *)
(* refused for its size, and nothing waits to be packed; a frame of which  *)
(* a fragment was refused is not continued.                                *)
(***************************************************************************)
WholeOut(f) == \/ cutInto[f] = 0 /\ \E s \in carried : s.part = 0 /\ f \in Range(s.frames)
               \/ cutInto[f] # 0 /\ \A i \in 1..cutInto[f] : [frames |-> <<f>>, part |-> i] \in carried
CodedInv ==
  /\ seqs.next = seqs.sent
  /\ loop.at = "waits" =>
       /\ packed = <<>> /\ jobs = <<>>
       /\ \A f \in 1..(accepted - Len(queuedFrames)) : WholeOut(f) \/ f \in refused
  /\ \A i \in DOMAIN jobs : jobs[i].part > 1 => Head(jobs[i].frames) \notin refused
  /\ loop.at = "waits" => burst.symbols = 0

(* A burst ends with the window it was protected by (dropOversizedWindow): *)
(* its bookkeeping ends there too.                                         *)
BurstEnds == window = <<>> /\ loop.at # "protects" => burst = NoBurst
=============================================================================
