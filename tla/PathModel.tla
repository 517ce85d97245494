------------------------------ MODULE PathModel ------------------------------
(***************************************************************************)
(* What the lanes to one place share (congestion_queqiao/pathmodel): nodes *)
(* that pool the reports of the lanes crossing them and hand back a share  *)
(* of the bottleneck (pathmodel.go), and chains of nodes from the egress   *)
(* to the destination (tree.go).  A lane is a controller (erasure.go): it  *)
(* reads the chain when it is made, reports at every acknowledgement and   *)
(* never says that it has closed.                                          *)
(* Rates are whole numbers, as the controller stores them; only ages of    *)
(* reports and samples are kept, and of the samples only those no later    *)
(* one exceeds.                                                            *)
(***************************************************************************)
EXTENDS Integers, FiniteSets, Sequences, SequencesExt, FiniteSetsExt, Functions

CONSTANTS PathLanes,    \* lanes that may be made, each once
          ChainOf,      \* lane -> the keys of its nodes, root first
          PathRates,    \* what a lane may deliver
          MemberIdle,   \* memberIdle, in ticks
          RateWindow,   \* bottleneckWindow, in ticks
          SampleCounts, \* how many outcomes a report may rest on
          Confident     \* confidentSamples

ASSUME PathConstants ==
  /\ IsFiniteSet(PathLanes) /\ ChainOf \in [PathLanes -> Seq(STRING)]
  /\ PathRates \subseteq Nat /\ SampleCounts \subseteq Nat
  /\ MemberIdle \in Nat /\ RateWindow \in Nat /\ Confident \in Nat

VARIABLES pool,         \* node -> [seen: lane -> its last report, rates: samples, known]
          lanes         \* lane -> [up, share, from, with, carried]: its last exchange

pathVars == <<pool, lanes>>

NoReportYet == [delivered |-> 0, observed |-> 0, age |-> MemberIdle + 1]
EmptyNode == [seen |-> [l \in PathLanes |-> NoReportYet], rates |-> {}, known |-> 0]
NotMade == [up |-> FALSE, share |-> 0, from |-> {}, with |-> <<>>, carried |-> <<>>]

NodesOf(l) == Range(ChainOf[l])
Nodes == UNION {NodesOf(l) : l \in PathLanes}

PathInit == pool = [n \in Nodes |-> EmptyNode] /\ lanes = [l \in PathLanes |-> NotMade]

LiveIn(node) == {l \in PathLanes : node.seen[l].age <= MemberIdle}
Measured(node) == {s \in node.rates : s.age <= RateWindow}
Bottleneck(node) == Max({0} \cup {s.rate : s \in Measured(node)})
Observed(node) == SumFunctionOnSet([l \in PathLanes |-> node.seen[l].observed], LiveIn(node))
Delivers(node) == SumFunctionOnSet([l \in PathLanes |-> node.seen[l].delivered], LiveIn(node))
Enough(samples) == IF samples > Confident THEN Confident ELSE samples
Larger(a, b) == IF a > b THEN a ELSE b

(* What a node answers: five quarters of an even split, and no cap for a   *)
(* lane that is alone.                                                     *)
Split(node, among, capped) ==
  [share |-> IF capped /\ among > 0 THEN (5 * Bottleneck(node)) \div (4 * among) ELSE 0,
   known |-> node.known]

(* PathModel.Report.                                                       *)
Unbeaten(samples) ==
  {s \in samples : ~\E t \in samples : t.rate >= s.rate /\ t.age <= s.age /\ t # s}
Reported(node, l, delivered, observed) ==
  LET told == [node EXCEPT !.seen[l] = [delivered |-> delivered, observed |-> observed, age |-> 0]]
      sum  == Delivers(told)
  IN  [told EXCEPT !.rates = Unbeaten(Measured(told) \cup (IF sum > 0 THEN {[rate |-> sum, age |-> 0]} ELSE {})),
                   !.known = Larger(@, Enough(Observed(told)))]
AnswerToReport(node) == Split(node, Cardinality(LiveIn(node)), Cardinality(LiveIn(node)) > 1)

\* Faulty, unused: the lane that asks is not counted.
MutAnswerToJoin(node) == Split(node, Cardinality(LiveIn(node)), LiveIn(node) # {})

(* PathModel.Current: the lane that joins counts too.                      *)
AnswerToJoin(node) == Split(node, Cardinality(LiveIn(node)) + 1, LiveIn(node) # {})

(* combine: the tightest of the nodes that have measured enough.           *)
Speaks(a) == a.known >= Confident /\ a.share > 0
Combined(answers) ==
  LET caps == {a.share : a \in {b \in Range(answers) : Speaks(b)}}
  IN  IF caps = {} THEN 0 ELSE Min(caps)

Told(l, answers) ==
  LET share == Combined(answers)
  IN  [up |-> TRUE, share |-> share,
       from |-> {ChainOf[l][i] : i \in {j \in DOMAIN answers : Speaks(answers[j]) /\ answers[j].share = share}},
       with |-> [n \in NodesOf(l) |-> {l} \cup LiveIn(pool'[n])],
       carried |-> [n \in NodesOf(l) |-> Bottleneck(pool'[n])]]

(* NewErasureSenderOn: a new lane is a new member, so a name of PathLanes  *)
(* is used again only after the nodes have forgotten it.                   *)
LaneMade(l) ==
  /\ ~lanes[l].up /\ \A n \in Nodes : l \notin LiveIn(pool[n])
  /\ pool' = pool
  /\ lanes' = [lanes EXCEPT ![l] = Told(l, [i \in DOMAIN ChainOf[l] |-> AnswerToJoin(pool[ChainOf[l][i]])])]

HeldTo(share, rate) == IF share > 0 /\ share < rate THEN share ELSE rate

(* Chain.Report, called by OnCongestionEventEx: what the lane delivers is  *)
(* held to the share it has.                                               *)
LaneReports(l) ==
  /\ lanes[l].up
  /\ \E d \in PathRates, o \in SampleCounts :
       pool' = [n \in Nodes |->
                  IF n \in NodesOf(l) THEN Reported(pool[n], l, HeldTo(lanes[l].share, d), o) ELSE pool[n]]
  /\ lanes' = [lanes EXCEPT ![l] = Told(l, [i \in DOMAIN ChainOf[l] |-> AnswerToReport(pool'[ChainOf[l][i]])])]

(* A lane that closes is not heard of again.                               *)
LaneGone(l) ==
  /\ lanes[l].up /\ lanes' = [lanes EXCEPT ![l] = NotMade]
  /\ UNCHANGED pool

OneOlder(s) == [s EXCEPT !.age = @ + 1]
Aged(node) ==
  [node EXCEPT !.seen = [l \in PathLanes |-> IF node.seen[l].age >= MemberIdle THEN NoReportYet ELSE OneOlder(node.seen[l])],
               !.rates = {OneOlder(s) : s \in {t \in node.rates : t.age < RateWindow}}]
PathTick ==
  /\ pool' = [n \in Nodes |-> Aged(pool[n])]
  /\ UNCHANGED lanes

PathNext ==
  \/ \E l \in PathLanes : LaneMade(l) \/ LaneReports(l) \/ LaneGone(l)
  \/ PathTick
PathSpec == PathInit /\ [][PathNext]_pathVars

-----------------------------------------------------------------------------
(* Nobody is held back alone: a lane has a share only from a node that had *)
(* measured enough and was crossed by another lane when it was given.      *)
CapsAreShared ==
  \A l \in PathLanes :
    lanes[l].share > 0 =>
      \E n \in lanes[l].from : /\ lanes[l].with[n] # {l}
                              /\ pool[n].known >= Confident

(* The lanes of a node together may send five quarters of what it was      *)
(* measured to carry, and no more, once each has heard of the others: what *)
(* a lane that joins takes is already sized for it.                        *)
SharesFit ==
  \A n \in Nodes :
    LET here == {l \in PathLanes : lanes[l].up /\ n \in lanes[l].from}
    IN  (here # {} /\ \A l \in here : here \subseteq lanes[l].with[n])
          => SumFunctionOnSet([l \in PathLanes |-> lanes[l].share], here) <= (5 * Max({lanes[l].carried[n] : l \in here})) \div 4

PathInv ==
  /\ \A n \in Nodes : \A s \in pool[n].rates : s.age \in 0..RateWindow
  /\ CapsAreShared /\ SharesFit

-----------------------------------------------------------------------------
(***************************************************************************)
(* Groups of destinations behind one node (congestion_queqiao/pathmodel,   *)
(* tree.go): the correlator's suggestions are merged at a bounded cadence, *)
(* each merge adds an alias, and a chain made later follows the aliases to *)
(* the group whose node it crosses.  Chains made earlier stay where they   *)
(* are.                                                                    *)
(***************************************************************************)

CONSTANTS Regions,      \* the groups of destinations: numbers, in the order of their names
          AliasHops     \* the most aliases a name is followed through

\* Past AliasHops aliases the code stops where it is: no more groups than it can follow.
ASSUME GroupConstants ==
  /\ IsFiniteSet(Regions) /\ Regions \subseteq Nat
  /\ AliasHops \in Nat /\ Cardinality(Regions) <= AliasHops + 1

VARIABLES alias,        \* groupAlias: group -> the group it was merged into, itself for none
          merged,       \* the pairs merged so far
          under         \* group -> the groups whose nodes its chains cross

groupVars == <<alias, merged, under>>

GroupsInit == alias = [g \in Regions |-> g] /\ merged = {} /\ under = [g \in Regions |-> {}]

(* resolveAliasLocked.                                                     *)
ResolveAlias(g) ==
  LET after[i \in 0..AliasHops] == IF i = 0 THEN g ELSE alias[after[i - 1]]
  IN  after[AliasHops]

(* maybeRegroup, MergeGroups: SuggestMerges names a pair in order; the     *)
(* smaller root is kept, so the order of the suggestions does not matter.  *)
KeptGroup(a, b) == Min({ResolveAlias(a), ResolveAlias(b)})
\* Faulty, unused: the names given are joined rather than what they stand for.
MutDropped(a, b) == Max({a, b})

Dropped(a, b) == Max({ResolveAlias(a), ResolveAlias(b)})
MergeGroups(a, b) ==
  /\ a < b /\ <<a, b>> \notin merged
  /\ merged' = merged \cup {<<a, b>>}
  /\ alias' = [alias EXCEPT ![Dropped(a, b)] = KeptGroup(a, b)]
  /\ UNCHANGED under

(* sharedChain.                                                            *)
ChainMade(g) ==
  /\ under' = [under EXCEPT ![g] = @ \cup {ResolveAlias(g)}]
  /\ UNCHANGED <<alias, merged>>

GroupsNext == \E a, b \in Regions : MergeGroups(a, b) \/ ChainMade(a)
GroupsSpec == GroupsInit /\ [][GroupsNext]_groupVars

-----------------------------------------------------------------------------
(* Whatever the order of the merges, a group's next chain crosses the node *)
(* of the least group it was joined to, directly or through others; and a  *)
(* chain crosses no node of a group it was never joined to.                *)
Unparted(groups) == \A p \in merged : p[1] \in groups <=> p[2] \in groups
Joined == [g \in Regions |-> {h \in Regions : \A groups \in SUBSET Regions :
                                             g \in groups /\ Unparted(groups) => h \in groups}]
GroupsInv ==
  \A g \in Regions : /\ ResolveAlias(g) = Min(Joined[g])
                     /\ under[g] \subseteq Joined[g]
==============================================================================
