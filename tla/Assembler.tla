------------------------------ MODULE Assembler ------------------------------
(***************************************************************************)
(* The receiving side of a coded path (queqiao/internal/coded/coded.go):   *)
(* symbols that arrive, are recovered or are told lost, frames given up    *)
(* from whole symbols or put together from fragments, and the queue to     *)
(* Receive.  The sender's fragments of a frame have consecutive            *)
(* identifiers; a frame it gave up has not all of them.                    *)
(***************************************************************************)
EXTENDS Integers, FiniteSets, Sequences, SequencesExt

CONSTANTS Layouts,    \* symbols as sent: sequences of [frame, index, count], index from 0
          Slack,      \* assemblerSlack
          MaxGroups,  \* assemblerMaxGroups
          ReceiveSlots

(* What a sender makes: the fragments of a frame follow one another, and   *)
(* no two frames share a symbol's first.                                   *)
Follow(l, i) == \A k \in 1..l[i].index :
  i - k > 0 /\ l[i - k] = [frame |-> l[i].frame, index |-> l[i].index - k, count |-> l[i].count]
AsSent(l) ==
  /\ l \in Seq(Range(l))
  /\ \A i \in DOMAIN l : l[i].count \in Nat /\ l[i].index \in 0..(l[i].count - 1) /\ Follow(l, i)
  /\ \A i, j \in DOMAIN l : l[i].frame = l[j].frame => i - l[i].index = j - l[j].index
ASSUME AssemblerConstants ==
  /\ \A l \in Layouts : AsSent(l)
  /\ Slack \in Nat /\ MaxGroups \in Nat \ {0} /\ ReceiveSlots \in Nat \ {0}

VARIABLES layout,
          had, told,       \* symbols the decoder had, and told lost
          groups,          \* first -> parts held
          top,             \* high; -1 until a symbol is noted
          outgoing, received, \* frames given up, and the queue to Receive
          handed,           \* [frame, from]: frames given up and the symbols they came from
          pathDone         \* "no", "yes"

assemblerVars == <<layout, had, told, groups, top, outgoing, received, handed, pathDone>>

Esis == 0..(Len(layout) - 1)
Symbol(e) == layout[e + 1]
FirstOf(e) == e - Symbol(e).index

AssemblerInit ==
  /\ layout \in Layouts /\ had = {} /\ told = {} /\ groups = {} /\ top = -1
  /\ outgoing = <<>> /\ received = <<>> /\ handed = {} /\ pathDone = "no"

(* note and prune: groups that ended too far behind the newest are gone.   *)
Noted(e) == IF e > top THEN e ELSE top
Stale(t, first, count) == t - (first + count) > Slack
\* Faulty, unused: groups left behind stay.
MutPruned(e) == groups

Pruned(e) == IF top >= 0 /\ e > top THEN {g \in groups : ~Stale(e, g.first, g.count)} ELSE groups

(* arrived: whole frames at once; a fragment into its group, which a full  *)
(* table makes room for.                                                   *)
GroupOf(gs, e) == {g \in gs : g.first = FirstOf(e)}
NewGroup(e) == [first |-> FirstOf(e), count |-> Symbol(e).count, parts |-> {}]
RoomFor(gs) == IF Cardinality(gs) < MaxGroups THEN gs
               ELSE gs \ {CHOOSE g \in gs : \A o \in gs : g.first <= o.first}
Opened(gs, e) == IF GroupOf(gs, e) = {} THEN RoomFor(gs) \cup {NewGroup(e)} ELSE gs
Gives(e, from) ==
  /\ outgoing' = Append(outgoing, Symbol(e).frame)
  /\ handed' = handed \cup {[frame |-> Symbol(e).frame, from |-> from]}

Arrived(e) ==
  LET gs == Opened(Pruned(e), e)
      g == CHOOSE x \in GroupOf(gs, e) : TRUE
      more == [g EXCEPT !.parts = @ \cup {e}]
  IN CASE Symbol(e).count = 1 -> Gives(e, {e}) /\ groups' = Pruned(e)
       [] Symbol(e).count > 1 /\ Stale(Noted(e), FirstOf(e), Symbol(e).count) ->
            groups' = Pruned(e) /\ UNCHANGED <<outgoing, handed>>
       [] OTHER -> IF Cardinality(more.parts) = g.count
                     THEN Gives(e, more.parts) /\ groups' = gs \ {g}
                     ELSE groups' = (gs \ {g}) \cup {more} /\ UNCHANGED <<outgoing, handed>>

Busy == outgoing # <<>>
SourceIn(e) ==  \* a source datagram, perhaps again, perhaps after it was recovered
  /\ ~Busy /\ pathDone = "no" /\ Arrived(e) /\ top' = Noted(e)
  /\ had' = IF e \in told THEN had ELSE had \cup {e}
  /\ UNCHANGED <<layout, told, received, pathDone>>

RecoveredIn(e) ==
  /\ ~Busy /\ pathDone = "no" /\ e \notin had \cup told /\ Arrived(e) /\ top' = Noted(e)
  /\ had' = had \cup {e} /\ UNCHANGED <<layout, told, received, pathDone>>

(* lost: the groups it belongs to will never be whole.                     *)
Reached(g, e) == e >= g.first /\ e < g.first + g.count
LostIn(e) ==
  /\ ~Busy /\ pathDone = "no" /\ e \notin had \cup told /\ told' = told \cup {e}
  /\ groups' = {g \in Pruned(e) : ~Reached(g, e)} /\ top' = Noted(e)
  /\ UNCHANGED <<layout, had, outgoing, received, handed, pathDone>>

(* receiveLoop and Receive: frames go to the queue one by one; what is     *)
(* queued when the path ends is still given.                               *)
QueuesFrame ==
  /\ Busy /\ pathDone = "no" /\ Len(received) < ReceiveSlots
  /\ received' = Append(received, Head(outgoing)) /\ outgoing' = Tail(outgoing)
  /\ UNCHANGED <<layout, had, told, groups, top, handed, pathDone>>

Receives ==
  /\ received # <<>> /\ received' = Tail(received)
  /\ UNCHANGED <<layout, had, told, groups, top, outgoing, handed, pathDone>>

PathEnds ==
  /\ pathDone = "no" /\ pathDone' = "yes" /\ outgoing' = <<>>
  /\ UNCHANGED <<layout, had, told, groups, top, received, handed>>

AssemblerNext ==
  QueuesFrame \/ Receives \/ PathEnds \/ \E e \in Esis : SourceIn(e) \/ RecoveredIn(e) \/ LostIn(e)
AssemblerSpec == AssemblerInit /\ [][AssemblerNext]_assemblerVars

(***************************************************************************)
(* A frame is given up from all of its symbols and no others, in whatever  *)
(* order and however often they come; a group that waits misses a symbol   *)
(* and is within the slack of the newest one; the table is bounded.        *)
(***************************************************************************)
FrameSymbols(f) == {e \in Esis : Symbol(e).frame = f}
AssemblerInv ==
  /\ \A g \in handed : /\ g.from = FrameSymbols(g.frame)
                      /\ \A e \in g.from : Symbol(e).count = Cardinality(g.from)
  /\ \A g \in groups : /\ g.parts # {} /\ Cardinality(g.parts) < g.count
                       /\ ~Stale(top, g.first, g.count)
                       /\ \A o \in groups : o.first = g.first => o = g
  /\ Cardinality(groups) <= MaxGroups
=============================================================================
