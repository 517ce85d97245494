------------------------------ MODULE LaneWire ------------------------------
(***************************************************************************)
(* What a lane's two ends see of its frames (pep/frameconn.go,                  *)
(* pep/context_mutex.go, protocol/frame.go): the goroutines that write to the    *)
(* lane, the choice between datagrams and the stream, the lock and the deadline    *)
(* of a stream write, the bytes that reach the stream, and the peer's reader.       *)
(*                                                                         *)
(* A frame is its two halves on the stream; a write can be interrupted before or     *)
(* between them.  What the coded path does with a datagram is CodedPath's; here it      *)
(* accepts it or does not.                                                          *)
(***************************************************************************)
EXTENDS Integers, Sequences, FiniteSets

CONSTANTS
  WireWriters,     \* goroutines that write to the lane
  WireFrames       \* bound: frames written

ASSUME WireAssumption == "none" \notin WireWriters /\ WireFrames \in Nat

VARIABLES
  wireCoding,      \* the connection has a coded path and the flow wants it
  unconfirmed,     \* the peer's OPEN_OK is outstanding
  safetyCopy,      \* openSafetyCopy
  kinds,           \* frame -> data or control, for the frames made so far
  pen,             \* writer -> its frame, how much of it is written, and its state
  holder,          \* who has writeMu, "none" for nobody
  wireStream,          \* the halves written to the stream
  fin,             \* the stream was closed by this end
  sentCoded,       \* frames the coded path accepted
  finished,        \* frames whose write returned no error
  decoded          \* what the peer's reader made of the stream so far

wireVars == <<wireCoding, unconfirmed, safetyCopy, kinds, pen, holder, wireStream, fin, sentCoded,
              finished, decoded>>

WireResting == [is |-> "resting", frame |-> 0, half |-> 0]

WireInit ==
  /\ wireCoding \in BOOLEAN /\ unconfirmed \in BOOLEAN /\ safetyCopy = unconfirmed
  /\ kinds = <<>> /\ pen = [w \in WireWriters |-> WireResting] /\ holder = "none"
  /\ wireStream = <<>> /\ fin = FALSE
  /\ sentCoded = {} /\ finished = {} /\ decoded = <<>>

-----------------------------------------------------------------------------
Becomes(w, state) == pen' = [pen EXCEPT ![w] = state]

\* Faulty, unused: no copy goes to the stream.
MutNeedsCopy == FALSE

\* needsOpenSafetyCopy: one data frame goes both ways while the OPEN is unconfirmed.
NeedsCopy == unconfirmed /\ safetyCopy

\* WriteContext.  A data frame goes to the coded path if that is wanted, and from there
\* to the stream if the path does not take it, or as a copy for safety.
WireBegins(w) ==
  /\ pen[w] = WireResting /\ Len(kinds) < WireFrames
  /\ LET n == Len(kinds) + 1
         OnStream == [is |-> "waiting", frame |-> n, half |-> 0] IN
     \E kind \in {"data", "control"} :
       /\ kinds' = Append(kinds, kind)
       /\ \/ /\ ~(kind = "data" /\ wireCoding)
             /\ Becomes(w, OnStream)
             /\ UNCHANGED <<sentCoded, safetyCopy, finished>>
          \/ /\ kind = "data" /\ wireCoding
             /\ \E taken \in BOOLEAN :
                  /\ sentCoded' = IF taken THEN sentCoded \cup {n} ELSE sentCoded
                  /\ IF NeedsCopy \/ ~taken
                       THEN Becomes(w, OnStream) /\ UNCHANGED finished
                       ELSE finished' = finished \cup {n} /\ UNCHANGED pen
                  /\ safetyCopy' = (safetyCopy /\ ~(taken /\ NeedsCopy))
  /\ UNCHANGED <<wireCoding, unconfirmed, holder, wireStream, fin, decoded>>

\* The peer's OPEN_OK.
OpenConfirmed ==
  /\ unconfirmed /\ unconfirmed' = FALSE
  /\ UNCHANGED <<wireCoding, safetyCopy, kinds, pen, holder, wireStream, fin, sentCoded,
                 finished, decoded>>

\* writeControlContext: the lock, then the frame, half by half.
WireLocks(w) ==
  /\ pen[w].is = "waiting" /\ holder = "none"
  /\ holder' = w /\ Becomes(w, [pen[w] EXCEPT !.is = "writing"])
  /\ UNCHANGED <<wireCoding, unconfirmed, safetyCopy, kinds, wireStream, fin, sentCoded,
                 finished, decoded>>

WireWrites(w) ==
  /\ holder = w /\ ~fin
  /\ wireStream' = Append(wireStream, <<pen[w].frame, pen[w].half + 1>>)
  /\ IF pen[w].half = 1
       THEN /\ holder' = "none" /\ Becomes(w, WireResting)
            /\ finished' = finished \cup {pen[w].frame}
       ELSE Becomes(w, [pen[w] EXCEPT !.half = 1]) /\ UNCHANGED <<holder, finished>>
  /\ UNCHANGED <<wireCoding, unconfirmed, safetyCopy, kinds, fin, sentCoded, decoded>>

Unlocked(w) == IF holder = w THEN "none" ELSE holder

\* frameWriteTimeout passes, the context ends, or the stream is closed: the write
\* returns an error, wherever it was.
WireInterrupted(w) ==
  /\ pen[w].is \in {"waiting", "writing"}
  /\ Becomes(w, [pen[w] EXCEPT !.is = "failing"])
  /\ holder' = Unlocked(w)
  /\ UNCHANGED <<wireCoding, unconfirmed, safetyCopy, kinds, wireStream, fin, sentCoded,
                 finished, decoded>>

\* ... and the writer then fails the lane, which closes its end of the stream.
WireFails(w) ==
  /\ pen[w].is = "failing"
  /\ Becomes(w, WireResting) /\ fin' = TRUE
  /\ UNCHANGED <<wireCoding, unconfirmed, safetyCopy, kinds, holder, wireStream, sentCoded,
                 finished, decoded>>

\* The peer's ReadFrame takes as many bytes as a frame has.
PeerReads ==
  /\ Len(wireStream) >= 2 * (Len(decoded) + 1)
  /\ LET at == 2 * Len(decoded) IN
     decoded' = Append(decoded, IF wireStream[at + 1][1] = wireStream[at + 2][1]
                                  THEN wireStream[at + 1][1] ELSE 0)
  /\ UNCHANGED <<wireCoding, unconfirmed, safetyCopy, kinds, pen, holder, wireStream, fin,
                 sentCoded, finished>>

WireNext ==
  \/ OpenConfirmed \/ PeerReads
  \/ \E w \in WireWriters : \/ WireBegins(w) \/ WireLocks(w) \/ WireWrites(w)
                            \/ WireInterrupted(w) \/ WireFails(w)

WireSpec == WireInit /\ [][WireNext]_wireVars

-----------------------------------------------------------------------------
Halves(n) == {i \in 1..Len(wireStream) : wireStream[i][1] = n}
Torn == {n \in 1..Len(kinds) : Cardinality(Halves(n)) = 1 /\ ~\E w \in WireWriters :
                                 pen[w].frame = n /\ pen[w].is = "writing"}

\* However the writers interleave and are interrupted: until the first frame that was cut
\* off, the peer decodes whole frames, each once; what a writer was told is sent is on one
\* of the substrates, a control frame always on the stream; and until the OPEN is
\* confirmed the coded path is not alone in carrying the flow's data.
WireInv ==
  /\ Torn = {} => 0 \notin {decoded[i] : i \in 1..Len(decoded)}
  /\ \A i, j \in 1..Len(decoded) : decoded[i] = decoded[j] /\ decoded[i] # 0 => i = j
  /\ \A n \in finished : Cardinality(Halves(n)) = 2 \/ (n \in sentCoded /\ kinds[n] = "data")
  /\ unconfirmed /\ finished \cap sentCoded # {} /\ ~fin => 
       \/ \E n \in finished \cap sentCoded : Cardinality(Halves(n)) = 2
       \/ \E w \in WireWriters : pen[w].frame \in sentCoded

\* "must not corrupt the frame stream": the peer never takes parts of two frames for one.
FramesArriveWhole == \A i \in 1..Len(decoded) : decoded[i] # 0
=============================================================================
