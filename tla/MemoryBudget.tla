---------------------------- MODULE MemoryBudget ----------------------------
(***************************************************************************)
(* The limits an operator configures, as pep/memory.go resolves them, and    *)
(* the endpoint-wide budget of memlimit/budget.go that flows share.           *)
(*                                                                         *)
(* Acquire waits outside the mutex on a channel that every Release closes     *)
(* and replaces; its waiter may be cancelled at the same moment.  `asleep`     *)
(* are the waiters whose channel is still open, `waiting` all of them.         *)
(***************************************************************************)
EXTENDS Integers, FiniteSets, FiniteSetsExt

CONSTANTS
  MemFlows,      \* the flows that share the budget
  MemConfigs,    \* configurations, records with fields send, perFlow, queue, reserve
  MemChunk       \* the chunk size of the endpoint

ASSUME MemAssumption ==
  /\ MemChunk \in Nat \ {0} /\ IsFiniteSet(MemFlows)
  /\ MemConfigs \subseteq [send : Int, perFlow : Int, queue : Int, reserve : Int]

VARIABLES
  limits,        \* the resolved limits
  used,          \* Budget.used
  waiters,       \* Budget.waiters
  memState,      \* flow -> idle, waiting, left
  want,          \* flow -> the bytes its Acquire asks for
  held,          \* flow -> the bytes it holds
  asleep,        \* waiters nobody has woken
  cancelled,     \* flows whose context is done
  tooLarge       \* somebody was told ErrRequestTooLarge

memVars == <<limits, used, waiters, memState, want, held, asleep, cancelled, tooLarge>>

\* maxLaneWriteQueue and maxFlowOutstandingBytes, scaled down.
QueueCeiling == 4
SendDefault  == 2 * MemChunk

\* A configuration NewClient turns down leaves nothing to run.
Refused == [send |-> 0, perFlow |-> 0, queue |-> 0, reserve |-> 0]

\* Zero means "not configured" and takes the default.
OrDefault(n, default) == IF n > 0 THEN n ELSE default

\* resolveMemoryLimits: the limits in force, or an error.
Resolve(c) ==
  LET l == [send    |-> c.send,
            perFlow |-> OrDefault(c.perFlow, SendDefault),
            queue   |-> OrDefault(c.queue, QueueCeiling),
            reserve |-> OrDefault(c.reserve, 1)]
  IN  IF /\ l.perFlow >= MemChunk
         /\ l.send >= MemChunk
         /\ l.perFlow <= l.send
         /\ l.queue \in 2..QueueCeiling /\ l.reserve \in 1..(l.queue - 1)
        THEN l ELSE Refused

MemInit ==
  /\ limits \in {Resolve(c) : c \in MemConfigs}
  /\ used = 0 /\ waiters = 0 /\ tooLarge = FALSE
  /\ memState = [f \in MemFlows |-> "idle"]
  /\ want = [f \in MemFlows |-> 0] /\ held = [f \in MemFlows |-> 0]
  /\ asleep = {} /\ cancelled = {}

-----------------------------------------------------------------------------
\* The body of Acquire's loop, under the mutex: leave, take, or wait.
MemDecides(f, n) ==
  \/ /\ f \in cancelled
     /\ memState' = [memState EXCEPT ![f] = "left"]
     /\ UNCHANGED <<used, held, asleep>>
  \/ /\ f \notin cancelled /\ n <= limits.send - used
     /\ used' = used + n
     /\ held' = [held EXCEPT ![f] = @ + n]
     /\ memState' = [memState EXCEPT ![f] = "idle"]
     /\ UNCHANGED asleep
  \/ /\ f \notin cancelled /\ n > limits.send - used
     /\ memState' = [memState EXCEPT ![f] = "waiting"]
     /\ asleep' = asleep \cup {f}
     /\ UNCHANGED <<used, held>>

\* A flow reads at most a chunk, and only within its own retention.
MemAcquire(f) ==
  /\ limits # Refused /\ memState[f] = "idle"
  /\ \E n \in 1..MemChunk :
       /\ held[f] + n <= limits.perFlow
       /\ want' = [want EXCEPT ![f] = n]
       /\ IF n > limits.send
            THEN /\ tooLarge' = TRUE /\ memState' = [memState EXCEPT ![f] = "left"]
                 /\ UNCHANGED <<used, held, asleep>>
            ELSE MemDecides(f, n) /\ UNCHANGED tooLarge
  /\ waiters' = IF memState'[f] = "waiting" THEN waiters + 1 ELSE waiters
  /\ UNCHANGED <<limits, cancelled>>

\* The channel was closed: the waiter goes round the loop.
MemWakes(f) ==
  /\ memState[f] = "waiting" /\ f \notin asleep
  /\ MemDecides(f, want[f])
  /\ waiters' = IF memState'[f] = "waiting" THEN waiters ELSE waiters - 1
  /\ UNCHANGED <<limits, want, cancelled, tooLarge>>

\* The context ended first.
MemLeaves(f) ==
  /\ memState[f] = "waiting" /\ f \in cancelled
  /\ memState' = [memState EXCEPT ![f] = "left"]
  /\ asleep' = asleep \ {f}
  /\ waiters' = waiters - 1
  /\ UNCHANGED <<limits, used, want, held, cancelled, tooLarge>>

MemTryAcquire(f) ==
  /\ limits # Refused /\ memState[f] = "idle"
  /\ \E n \in 1..MemChunk :
       /\ n <= limits.send - used
       /\ used' = used + n
       /\ held' = [held EXCEPT ![f] = @ + n]
  /\ UNCHANGED <<limits, waiters, memState, want, asleep, cancelled, tooLarge>>

MutMemWoken == asleep \ {CHOOSE f \in MemFlows : TRUE}

\* close(old): every waiter of the generation wakes.
MemWoken == {}

MemRelease(f) ==
  /\ held[f] > 0
  /\ \E n \in 1..held[f] :
       /\ used' = used - n
       /\ held' = [held EXCEPT ![f] = @ - n]
  /\ asleep' = MemWoken
  /\ UNCHANGED <<limits, waiters, memState, want, cancelled, tooLarge>>

\* The flow is torn down: its context ends, what it holds comes back by releases.
MemCancel(f) ==
  /\ f \notin cancelled
  /\ cancelled' = cancelled \cup {f}
  /\ UNCHANGED <<limits, used, waiters, memState, want, held, asleep, tooLarge>>

MemNext == \E f \in MemFlows :
  MemAcquire(f) \/ MemWakes(f) \/ MemLeaves(f) \/ MemTryAcquire(f) \/ MemRelease(f) \/ MemCancel(f)

MemSpec == MemInit /\ [][MemNext]_memVars

-----------------------------------------------------------------------------
Waiting == {f \in MemFlows : memState[f] = "waiting"}

\* The budget is what its flows hold, its waiters are counted, and whoever sleeps
\* asks for more than is free: a wake-up lost between a release, a departure and a
\* new wait would leave somebody asleep beside memory it could have.  An accepted
\* configuration never tells a flow that its request can never be met.
MemInv ==
  /\ used = SumFunctionOnSet(held, MemFlows)
  /\ waiters = Cardinality(Waiting)
  /\ asleep \subseteq Waiting
  /\ limits # Refused => /\ used <= limits.send
                           /\ \A f \in asleep : want[f] > limits.send - used
  /\ ~tooLarge
=============================================================================
