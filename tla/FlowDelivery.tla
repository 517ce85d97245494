---------------------------- MODULE FlowDelivery ----------------------------
(***************************************************************************)
(* One direction of a flow from the sending application to the receiving one *)
(* (queqiao/internal/pep: stripedsend.go, mpflow.go; stripe, multipath):     *)
(* the composition of the scheduler (StripeScheduler), the acknowledgement  *)
(* path (AckPath) and the receive path (ReceivePath), each reduced to what   *)
(* the others see of it, over lanes that lose, repeat and reorder.           *)
(*                                                                         *)
(* A chunk is its number and one unit long.  Which lane carries a chunk and  *)
(* when is left open: any retained chunk may be dispatched at any time, and   *)
(* any part of what is held above the cursor may be left out of a report.    *)
(***************************************************************************)
EXTENDS Integers, FiniteSets

CONSTANTS
  N,          \* bound: units the source yields
  Window,     \* stripe.Config.MaxOutstandingBytes
  Buffer,     \* multipath.Config.MaxBufferedBytes
  MayFail,    \* lanes may be lost for good, applications may leave
  MaxLosses   \* bound: losses of the path

ASSUME FlowConstants ==
  /\ N \in Nat /\ Window \in Nat \ {0} /\ Buffer \in Nat \ {0}
  /\ MayFail \in BOOLEAN /\ MaxLosses \in Nat

VARIABLES
  \* the sender
  read, eof, retained, sacked, finSent, remoteFin, verdict,
  \* the receiver
  next, buffered, finAt, sink, overflow,
  due,        \* a report is due: something arrived, or a lane was added
  \* the path: data copies, reports, the FIN, the final acknowledgement
  copies, reports, fin, finalAck, losses

sender   == <<read, eof, retained, sacked, finSent, remoteFin, verdict>>
receiver == <<next, buffered, finAt, sink, overflow, due>>
path     == <<copies, reports, fin, finalAck, losses>>
vars     == <<sender, receiver, path>>

Units   == 0 .. N - 1
NoFIN   == -1
Held    == {o \in Units : o < next} \cup buffered

-----------------------------------------------------------------------------
Init ==
  /\ read = 0 /\ eof = FALSE /\ retained = {} /\ sacked = {}
  /\ finSent = FALSE /\ remoteFin = FALSE /\ verdict = "running"
  /\ next = 0 /\ buffered = {} /\ finAt = NoFIN /\ sink = "open" /\ overflow = FALSE /\ due = FALSE
  /\ copies = {} /\ reports = {} /\ fin = FALSE /\ finalAck = FALSE /\ losses = 0

-----------------------------------------------------------------------------
(* The sender *)

\* Variants named Mut... are faulty readings of the definition that follows them;
\* no specification uses them, a property must fail when one replaces it.

\* The producer reads while its retention bound allows.
Read ==
  /\ verdict = "running" /\ ~eof /\ read < N /\ Cardinality(retained) < Window
  /\ read' = read + 1
  /\ retained' = retained \cup {read}
  /\ UNCHANGED <<eof, sacked, finSent, remoteFin, verdict, receiver, path>>

ReadEOF ==
  /\ verdict = "running" /\ ~eof
  /\ eof' = TRUE
  /\ UNCHANGED <<read, retained, sacked, finSent, remoteFin, verdict, receiver, path>>

\* A lane takes a retained chunk, for the first time or again.
Dispatch(o) ==
  /\ o \in retained /\ verdict = "running"
  /\ copies' = copies \cup {o}
  /\ UNCHANGED <<sender, receiver, reports, fin, finalAck, losses>>

MutAcked(r) == r.above \cup {o \in Units : o <= r.cumulative}

\* What a report acknowledges: everything below its cumulative sequence, and its ranges.
Acked(r) == r.above \cup {o \in Units : o < r.cumulative}

\* receiveProgressACK
ReceiveReport(r) ==
  /\ sacked' = sacked \cup Acked(r)
  /\ UNCHANGED <<read, eof, retained, finSent, remoteFin, verdict, receiver, path>>

\* watchChunkCompletion and Scheduler.Complete
Complete(o) ==
  /\ verdict = "running" /\ o \in retained \cap sacked
  /\ retained' = retained \ {o}
  /\ UNCHANGED <<read, eof, sacked, finSent, remoteFin, verdict, receiver, path>>

MutSourceDone == eof /\ retained \subseteq copies

\* The scheduler is done: the source ended and nothing it read is unacknowledged.
SourceDone == eof /\ retained = {}

\* sendFinal
SendFinal ==
  /\ SourceDone /\ ~finSent /\ verdict = "running"
  /\ finSent' = TRUE /\ fin' = TRUE
  /\ UNCHANGED <<read, eof, retained, sacked, remoteFin, verdict, receiver, copies,
                 reports, finalAck, losses>>

\* replayPending, on the lane that replaced a dead one
ReplayFinal ==
  /\ finSent /\ verdict = "running" /\ ~fin
  /\ fin' = TRUE
  /\ UNCHANGED <<sender, receiver, copies, reports, finalAck, losses>>

ReceiveFinalAck ==
  /\ finalAck /\ finSent /\ verdict = "running"
  /\ verdict' = "complete"
  /\ finalAck' = FALSE
  /\ UNCHANGED <<read, eof, retained, sacked, finSent, remoteFin, receiver, copies,
                 reports, fin, losses>>

\* The other direction's FIN arrived.
SeeRemoteFin ==
  /\ MayFail /\ ~remoteFin
  /\ remoteFin' = TRUE
  /\ UNCHANGED <<read, eof, retained, sacked, finSent, verdict, receiver, path>>

MutBothFINs == eof /\ remoteFin

\* finSent and remoteFinSeen, "the correctness boundary"
BothFINs == finSent /\ remoteFin

\* completionWatchdog, or a lane failing: with both FINs known the flow does not wait
\* for the final acknowledgement.
CompletionWatchdog ==
  /\ BothFINs /\ verdict = "running"
  /\ verdict' = "complete"
  /\ UNCHANGED <<read, eof, retained, sacked, finSent, remoteFin, receiver, path>>

\* run ends the flow otherwise: no lane, no progress, a reset, the peer's abort.
SenderStops ==
  /\ verdict = "running" /\ (MayFail \/ overflow)
  /\ verdict' = "stopped"
  /\ UNCHANGED <<read, eof, retained, sacked, finSent, remoteFin, receiver, path>>

-----------------------------------------------------------------------------
(* The receiver *)

Receiving == sink \in {"open", "gone"}

\* The cursor after b arrived: the first unit not held.
CursorWith(B) ==
  CHOOSE c \in 0 .. N : c >= next /\ c \notin B /\ \A o \in next .. c - 1 : o \in B

MutEndsAt(c) == c >= finAt

\* The stream ends at c: a FIN is known and c reaches it.
EndsAt(c) == finAt # NoFIN /\ c >= finAt

\* receiveInner's remoteFin
Ended == next = finAt

\* consumeContiguous: c is the first unit not in B.
Consumes(c, B) == c >= next /\ c \notin B /\ \A o \in next .. c - 1 : o \in B

\* Insert: a replay is ignored, the cursor moves over everything contiguous, a
\* segment above it is retained.
ReceiveData(o) ==
  LET B == {b \in buffered \cup {o} : b >= next} IN
  /\ Receiving /\ ~Ended
  /\ o \in Held \/ o = next \/ Cardinality(buffered) < Buffer
  /\ \E c \in 0 .. N :
       /\ Consumes(c, B)
       /\ next' = c
       /\ buffered' = {b \in B : b >= c}
       /\ sink' = IF sink = "open" /\ EndsAt(c) THEN "closed" ELSE sink
       /\ finalAck' = (finalAck \/ EndsAt(c))
  /\ due' = TRUE
  /\ UNCHANGED <<finAt, overflow, sender, copies, reports, fin, losses>>

\* Insert without room: ErrWindowExceeded ends the flow.
ReceiveOverflow(o) ==
  /\ Receiving /\ ~Ended
  /\ o \notin Held /\ o # next /\ Cardinality(buffered) >= Buffer
  /\ overflow' = TRUE /\ sink' = "failed"
  /\ UNCHANGED <<next, buffered, finAt, due, sender, path>>

\* Data repeated after the FIN repeats the final acknowledgement.
ReceiveLate(o) ==
  /\ sink \in {"closed", "gone"} /\ Ended /\ o < next
  /\ finalAck' = TRUE
  /\ UNCHANGED <<sender, receiver, copies, reports, fin, losses>>

\* startLane repeats the acknowledgement on a lane that joins.
LaneJoins ==
  /\ Receiving /\ ~Ended /\ next > 0
  /\ due' = TRUE
  /\ UNCHANGED <<next, buffered, finAt, sink, overflow, sender, path>>

\* ackLoop: the cursor, and some of what is held above it (at most MaxAckRanges
\* spans fit).
Report ==
  /\ Receiving /\ ~Ended /\ due
  /\ due' = FALSE
  /\ \E A \in SUBSET buffered :
       reports' = reports \cup {[cumulative |-> next, above |-> A]}
  /\ UNCHANGED <<next, buffered, finAt, sink, overflow, sender, copies, fin, finalAck, losses>>

MutFINSequence == read + 1

\* The sequence of the FIN: bytesUp once the source ended.
FINSequence == read

MutRepeatsFinal == next = FINSequence /\ sink = "open"

\* A FIN that completes the stream, or repeats one that did, is acknowledged.
RepeatsFinal == next = FINSequence

\* Insert of the FIN and acknowledgeRemoteFIN
ReceiveFIN ==
  /\ fin /\ sink # "failed"
  /\ fin' = FALSE
  /\ finAt' = FINSequence
  /\ sink' = IF sink = "open" /\ next = FINSequence THEN "closed" ELSE sink
  /\ finalAck' = (finalAck \/ RepeatsFinal)
  /\ UNCHANGED <<next, buffered, overflow, due, sender, copies, reports, losses>>

\* The application closes both halves: bytes are consumed and discarded until the
\* abort reaches the sender, which ends as failed or complete.
SinkLeaves ==
  /\ MayFail /\ sink = "open"
  /\ sink' = "gone"
  /\ UNCHANGED <<next, buffered, finAt, overflow, due, sender, path>>

ReceiverFails ==
  /\ MayFail /\ Receiving
  /\ sink' = "failed"
  /\ UNCHANGED <<next, buffered, finAt, overflow, due, sender, path>>

-----------------------------------------------------------------------------
(* The path: what a lane carried may be lost; what is not, may arrive again *)

Lose ==
  /\ losses < MaxLosses
  /\ losses' = losses + 1
  /\ \/ \E o \in copies : copies' = copies \ {o} /\ UNCHANGED <<reports, fin, finalAck>>
     \/ \E r \in reports : reports' = reports \ {r} /\ UNCHANGED <<copies, fin, finalAck>>
     \/ fin /\ fin' = FALSE /\ UNCHANGED <<copies, reports, finalAck>>
     \/ finalAck /\ finalAck' = FALSE /\ UNCHANGED <<copies, reports, fin>>
  /\ UNCHANGED <<sender, receiver>>

Over ==
  /\ verdict # "running" /\ ~Receiving
  /\ UNCHANGED vars

Next ==
  \/ Read \/ ReadEOF \/ SendFinal \/ ReplayFinal \/ ReceiveFinalAck
  \/ SeeRemoteFin \/ CompletionWatchdog \/ SenderStops
  \/ \E o \in Units : Dispatch(o) \/ Complete(o)
  \/ \E r \in reports : ReceiveReport(r)
  \/ \E o \in copies : ReceiveData(o) \/ ReceiveOverflow(o) \/ ReceiveLate(o)
  \/ LaneJoins \/ Report \/ ReceiveFIN \/ SinkLeaves \/ ReceiverFails
  \/ Lose \/ Over

Spec == Init /\ [][Next]_vars

\* The source is read to its end, then the FIN goes out, and again on the lane that
\* replaces the one that lost it.
Source == Read \/ ReadEOF \/ SendFinal \/ ReplayFinal

\* Data that is still retained arrives.
Arrive(o) == o \in copies \cap retained /\ (ReceiveData(o) \/ ReceiveOverflow(o))

\* A retained chunk is dispatched and, by ReissueExpired, dispatched again until it is
\* acknowledged, so what was lost arrives and what arrived arrives again; a report that
\* is due is sent, and reports arrive.
FairSpec ==
  /\ Spec
  /\ WF_vars(Source) /\ WF_vars(ReceiveFIN) /\ WF_vars(ReceiveFinalAck)
  /\ WF_vars(\E o \in Units : Dispatch(o) /\ o \notin copies)
  /\ WF_vars(\E o \in Units : Complete(o))
  /\ \A o \in Units : WF_vars(Arrive(o))
  /\ WF_vars(Report)
  /\ \A c \in 0..N : WF_vars(\E r \in reports : r.cumulative = c /\ ReceiveReport(r))

-----------------------------------------------------------------------------
(* Properties *)

\* The variables have their types.
TypeOK ==
  /\ read \in 0..N /\ eof \in BOOLEAN /\ retained \subseteq Units /\ sacked \subseteq Units
  /\ finSent \in BOOLEAN /\ remoteFin \in BOOLEAN
  /\ verdict \in {"running", "complete", "stopped"}
  /\ next \in 0..N /\ buffered \subseteq Units /\ finAt \in 0..N \cup {NoFIN}
  /\ sink \in {"open", "closed", "gone", "failed"} /\ overflow \in BOOLEAN
  /\ due \in BOOLEAN
  /\ copies \subseteq Units /\ reports \subseteq [cumulative: 0..N, above: SUBSET Units]
  /\ fin \in BOOLEAN /\ finalAck \in BOOLEAN /\ losses \in 0..MaxLosses

\* Everything read is retained by the sender or held by the receiver: a chunk is
\* forgotten only on a report that it arrived, however old the report is.
NothingForgotten == \A o \in Units : o < read => o \in retained \cup Held

\* What has been read, buffered, reported and acknowledged fits together: what a report
\* still on the path claims is held, too.
Ledger ==
  /\ next <= read
  /\ \A o \in buffered : next < o /\ o < read
  /\ \A o \in retained : o < read
  /\ \A o \in copies : o < read
  /\ sacked \subseteq Held
  /\ \A r \in reports : r.cumulative <= next /\ r.above \subseteq Held
  /\ NothingForgotten

\* Everything about the end of the stream follows the source's end and an empty
\* retention.
Closing ==
  /\ finSent => SourceDone
  /\ fin \/ finalAck \/ finAt # NoFIN \/ sink = "closed" \/ verdict = "complete" => finSent
  /\ finAt # NoFIN => finAt = read

\* The inductive invariant behind the properties of this module: without its parts about
\* reports and final acknowledgements still on the path, an old one could release a unit
\* nobody holds, or end a flow that was not delivered.
IInv == TypeOK /\ Ledger /\ Closing

\* The FIN never travels before every byte of the stream was delivered, so the
\* receiver never has to hold one behind a gap.
FINComesLast == finSent => eof /\ next = read /\ buffered = {}

\* The sender's success means the peer's application was handed every byte, also
\* when the watchdog ended the flow without the final acknowledgement.
SuccessIsDelivery == verdict = "complete" => eof /\ next = read

\* mpflow.go on maxReassemblyBytes: "a peer running this code can never overflow
\* it", because bytes held out of order "are always bytes the sender has not had
\* acknowledged".
NeverOverflows == ~overflow

\* One direction of a flow behaves as a byte stream.
Stream == INSTANCE ByteStream WITH
            given <- read, ended <- eof, passed <- next, sink <- sink, verdict <- verdict
ImplementsByteStream == Stream!Spec

\* With lanes that lose, but not forever, the sender learns that the stream was
\* delivered, unless the flow is stopped or the receiver failed or overflowed; an
\* application that merely leaves does not keep it waiting.
StreamCompletes == <>(verdict # "running" \/ sink = "failed")

=============================================================================
