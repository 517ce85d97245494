----------------------------- MODULE RateBudget -----------------------------
(***************************************************************************)
(* The aggregate rate budget of an endpoint: limiter/budget.go, with the      *)
(* configuration NewClient and NewServer accept and the chunk size they        *)
(* derive from it (pep/flow.go).  Time is counted in bursts: a rate is what     *)
(* accrues in one, so a bucket holds one burst of its rate, but never less        *)
(* than its floor.                                                               *)
(***************************************************************************)
EXTENDS Integers, FiniteSets, FiniteSetsExt

CONSTANTS
  RateSenders,    \* lanes' enqueuers that share the budget
  RateConfigs,    \* configurations, records with fields total, reserve, chunk
  BulkFloor,      \* the least bulk burst, 64 KiB
  ReserveFloor,   \* the least interactive burst, 16 KiB
  RateDefault,    \* defaultChunkSize
  RateMaxChunk,   \* protocol.MaxPayload
  RateMaxClock    \* bound on time

ASSUME RateAssumption ==
  /\ {BulkFloor, ReserveFloor, RateDefault, RateMaxChunk} \subseteq Nat \ {0}
  /\ RateConfigs \subseteq [total : Nat, reserve : Nat, chunk : Int] /\ RateMaxClock \in Nat

VARIABLES
  plan,           \* the resolved configuration
  clock, last,    \* now, and the time of the last refill
  total, reserve, \* tokens for everybody, tokens for interactive frames only
  ask,            \* sender -> what it asks for, and when it looks again
  granted         \* what was granted so far, by class

rateVars == <<plan, clock, last, total, reserve, ask, granted>>

\* A configuration that is refused leaves nothing to run; without a total there is
\* no budget at all (a nil Budget), and every request is admitted at once.
Turned == [total |-> 0, reserve |-> 0, chunk |-> 0]

BulkRate(p) == p.total - p.reserve
BulkCap(p) == IF BulkRate(p) = 0 THEN 0 ELSE Max({BulkFloor, BulkRate(p)})
ReserveCap(p) == IF p.reserve = 0 THEN 0 ELSE Max({ReserveFloor, p.reserve})

MutChunkFor(p) == p.chunk

\* chunkSizeForBudget: no chunk is larger than the largest bulk request.
ChunkFor(p) == IF p.total > 0 THEN Min({p.chunk, BulkCap(p)}) ELSE p.chunk

\* The checks of NewClient and NewServer that concern the budget.
Accepted(c) ==
  LET chunk == IF c.chunk \in 1..RateMaxChunk THEN c.chunk ELSE RateDefault
      p     == [c EXCEPT !.chunk = chunk]
  IN  IF \/ c.total = 0 /\ c.reserve # 0
         \/ c.total # 0 /\ c.reserve >= c.total
        THEN Turned ELSE [p EXCEPT !.chunk = ChunkFor(p)]

Silent == [n |-> 0, fast |-> FALSE, at |-> 0, refused |-> FALSE]

RateInit ==
  /\ plan \in {Accepted(c) : c \in RateConfigs}
  /\ clock = 0 /\ last = 0
  /\ total = BulkCap(plan) /\ reserve = ReserveCap(plan)
  /\ ask = [s \in RateSenders |-> Silent]
  /\ granted = [bulk |-> 0, fast |-> 0]

-----------------------------------------------------------------------------
\* refill, at the present time.
Refilled == Min({BulkCap(plan), total + BulkRate(plan) * (clock - last)})
RefilledReserve == Min({ReserveCap(plan), reserve + plan.reserve * (clock - last)})

\* A frame of at most a chunk; a request above the bucket is refused outright.
RateAsks(s) ==
  /\ plan.total > 0 /\ ask[s] = Silent
  /\ \E n \in 1..plan.chunk, fast \in BOOLEAN :
       LET capacity == BulkCap(plan) + IF fast THEN ReserveCap(plan) ELSE 0
       IN  ask' = [ask EXCEPT ![s] = [n |-> n, fast |-> fast, at |-> clock,
                                      refused |-> n > capacity]]
  /\ UNCHANGED <<plan, clock, last, total, reserve, granted>>

MutFromReserve(a) == IF a.fast THEN Min({RefilledReserve, a.n}) ELSE Min({RefilledReserve, a.n, 1})

\* What a request takes of the reserve; the rest comes from the total.
FromReserve(a) == IF a.fast THEN Min({RefilledReserve, a.n}) ELSE 0

\* Tokens a request may be met from, and the rate they come back at.
Within(a) == Refilled + IF a.fast THEN RefilledReserve ELSE 0
ComesAt(a) == BulkRate(plan) + IF a.fast THEN plan.reserve ELSE 0

CeilDiv(a, b) == (a + b - 1) \div b

\* The loop of Wait: granted, or asleep until the deficit has accrued.
RateTries(s) ==
  LET a == ask[s] IN
  /\ a.n > 0 /\ ~a.refused /\ clock >= a.at
  /\ last' = clock
  /\ IF Within(a) >= a.n
       THEN /\ reserve' = RefilledReserve - FromReserve(a)
            /\ total' = Refilled - (a.n - FromReserve(a))
            /\ ask' = [ask EXCEPT ![s] = Silent]
            /\ granted' = IF a.fast THEN [granted EXCEPT !.fast = @ + a.n]
                                    ELSE [granted EXCEPT !.bulk = @ + a.n]
       ELSE /\ ask' = [ask EXCEPT ![s].at = clock + CeilDiv(a.n - Within(a), ComesAt(a))]
            /\ reserve' = RefilledReserve /\ total' = Refilled
            /\ UNCHANGED granted
  /\ UNCHANGED <<plan, clock>>

\* The flow of the sender ends while it waits.
RateLeaves(s) ==
  /\ ask[s].n > 0
  /\ ask' = [ask EXCEPT ![s] = Silent]
  /\ UNCHANGED <<plan, clock, last, total, reserve, granted>>

RateTick ==
  /\ clock < RateMaxClock
  /\ clock' = clock + 1
  /\ UNCHANGED <<plan, last, total, reserve, ask, granted>>

RateNext == RateTick \/ \E s \in RateSenders : RateAsks(s) \/ RateTries(s) \/ RateLeaves(s)

RateSpec == RateInit /\ [][RateNext]_rateVars

-----------------------------------------------------------------------------
\* No budget is overspent by any interleaving of refills and waits: what was granted
\* is within one burst of what the rate has earned, bulk frames alone within the part
\* of the rate that is not reserved.  And a chunk of an accepted configuration is
\* never told that no wait could ever satisfy it, which would fail its lane.
RateInv ==
  /\ total \in 0..BulkCap(plan) /\ reserve \in 0..ReserveCap(plan) /\ last <= clock
  /\ granted.bulk <= BulkCap(plan) + BulkRate(plan) * clock
  /\ granted.bulk + granted.fast <= BulkCap(plan) + ReserveCap(plan) + plan.total * clock
  /\ \A s \in RateSenders : ~ask[s].refused
=============================================================================
