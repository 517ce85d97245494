---------------------------- MODULE ProxyStream ----------------------------
(***************************************************************************)
(* A proxied TCP connection over one QUIC stream, both ends (clientConn    *)
(* and serverConn of Hysteria, Hysteria2 and TUIC).  The request travels   *)
(* with the client's first write; Hysteria and Hysteria2 answer, with the  *)
(* first write of the server's handler or before it, and the client takes  *)
(* the answer off the stream in its first read.  TUIC has no answer.       *)
(***************************************************************************)
EXTENDS Naturals, Sequences, SequencesExt

CONSTANTS StreamProtocols,  \* subset of {"hysteria", "hysteria2", "tuic"}
          Writes            \* bound: writes of each side

VARIABLES streamProtocol,
          up, down,   \* the two directions of the stream, in flight
          near,       \* clientConn: [asked, answer, shut, sent, got]
          far         \* serverConn: [at, answered, refused, shut, sent, got]

streamVars == <<streamProtocol, up, down, near, far>>

Data(n) == [is |-> "data", n |-> n, ok |-> TRUE]
Request == [is |-> "request", n |-> 0, ok |-> TRUE]
Answer(ok) == [is |-> "answer", n |-> 0, ok |-> ok]

StreamInit ==
  /\ streamProtocol \in StreamProtocols /\ up = <<>> /\ down = <<>>
  /\ near = [asked |-> FALSE, answer |-> FALSE, failed |-> FALSE, shut |-> FALSE, sent |-> 0, got |-> <<>>]
  /\ far = [at |-> "none", answered |-> FALSE, refused |-> FALSE, shut |-> FALSE, sent |-> 0, got |-> <<>>]

(* clientConn.Write. *)
WithRequest(n) == IF near.asked THEN <<Data(n)>> ELSE <<Request, Data(n)>>
ClientWrites ==
  /\ ~near.shut /\ near.sent < Writes
  /\ up' = IF far.shut THEN up ELSE up \o WithRequest(near.sent + 1)
  /\ near' = [near EXCEPT !.asked = TRUE, !.sent = @ + 1]
  /\ UNCHANGED <<streamProtocol, down, far>>

(* clientConn.Read: the answer, then what the stream has.                  *)
ClientReads ==
  /\ ~near.shut /\ down # <<>> /\ down' = Tail(down)
  /\ near' = IF streamProtocol # "tuic" /\ ~near.answer
             THEN [near EXCEPT !.answer = Head(down).ok /\ Head(down).is = "answer",
                               !.failed = @ \/ ~(Head(down).ok /\ Head(down).is = "answer")]
             ELSE [near EXCEPT !.got = Append(@, Head(down))]
  /\ UNCHANGED <<streamProtocol, up, far>>

(* clientConn.Close: reading is cancelled, writing ends.                   *)
ClientCloses ==
  /\ ~near.shut /\ near' = [near EXCEPT !.shut = TRUE] /\ down' = <<>>
  /\ UNCHANGED <<streamProtocol, up, far>>

(* handleStream: the request, then the handler.                            *)
ServerTakes ==
  /\ far.at = "none" /\ up # <<>> /\ up' = Tail(up)
  /\ far' = [far EXCEPT !.at = IF Head(up) = Request THEN "handled" ELSE "rejected"]
  /\ UNCHANGED <<streamProtocol, down, near>>

ServerReads ==
  /\ far.at = "handled" /\ ~far.shut /\ up # <<>> /\ up' = Tail(up)
  /\ far' = [far EXCEPT !.got = Append(@, Head(up))]
  /\ UNCHANGED <<streamProtocol, down, near>>

Sends(items) == down' = IF near.shut THEN <<>> ELSE down \o items
\* Faulty, unused: the answer is written again with each write.
MutAnswers(ok) == IF streamProtocol = "tuic" THEN <<>> ELSE <<Answer(ok)>>

Answers(ok) == IF streamProtocol = "tuic" \/ far.answered THEN <<>> ELSE <<Answer(ok)>>

(* HandshakeSuccess, HandshakeFailure and Write of serverConn; a handler   *)
(* that has reported failure only closes.                                  *)
HandshakeSuccess ==
  /\ far.at = "handled" /\ ~far.shut /\ ~far.refused /\ streamProtocol # "tuic"
  /\ Sends(Answers(TRUE)) /\ far' = [far EXCEPT !.answered = TRUE]
  /\ UNCHANGED <<streamProtocol, up, near>>

HandshakeFailure ==
  /\ far.at = "handled" /\ ~far.shut /\ streamProtocol # "tuic"
  /\ Sends(Answers(FALSE)) /\ far' = [far EXCEPT !.answered = TRUE, !.refused = TRUE]
  /\ UNCHANGED <<streamProtocol, up, near>>

ServerWrites ==
  /\ far.at = "handled" /\ ~far.shut /\ ~far.refused /\ far.sent < Writes
  /\ Sends(Answers(TRUE) \o <<Data(far.sent + 1)>>)
  /\ far' = [far EXCEPT !.answered = TRUE, !.sent = @ + 1]
  /\ UNCHANGED <<streamProtocol, up, near>>

ServerCloses ==
  /\ far.at \in {"handled", "rejected"} /\ ~far.shut
  /\ far' = [far EXCEPT !.shut = TRUE] /\ up' = <<>>
  /\ UNCHANGED <<streamProtocol, down, near>>

StreamNext ==
  \/ ClientWrites \/ ClientReads \/ ClientCloses \/ ServerTakes \/ ServerReads
  \/ HandshakeSuccess \/ HandshakeFailure \/ ServerWrites \/ ServerCloses

StreamSpec == StreamInit /\ [][StreamNext]_streamVars

(***************************************************************************)
(* In whatever order the two ends read, write, answer and close: what each *)
(* reader gets is the other's data from its first byte, never a request or *)
(* an answer; only a stream whose request came first is handled; and a     *)
(* client hears of failure exactly when the handler refused before it had  *)
(* answered, with nothing of the destination's read by then.               *)
(***************************************************************************)
RelayInv ==
  /\ \A i \in 1..Len(near.got) : near.got[i] = Data(i)
  /\ \A i \in 1..Len(far.got) : far.got[i] = Data(i)
  /\ Len(near.got) <= far.sent /\ Len(far.got) <= near.sent
  /\ far.at # "rejected"
  /\ near.failed => far.refused /\ near.got = <<>> /\ far.sent = 0
=============================================================================
