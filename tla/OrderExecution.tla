--------------------------- MODULE OrderExecution ---------------------------
(***************************************************************************)
(* The life of an order row (orders.service.ts), from the request that     *)
(* creates it to the position it opens, with the BullMQ queue and workers  *)
(* that execute it (order-queue.service.ts, order-worker.service.ts).      *)
(*                                                                         *)
(* Callers are threads inside executeManagedOrder: HTTP requests, which    *)
(* queue the execution, and copy-trade workers, which execute directly.    *)
(* Workers are the slots of the BullMQ worker. Both kinds of process run   *)
(* processOrderExecution; every await of that method is a step boundary    *)
(* and any other process may run there. Each database statement, and each  *)
(* $transaction, is one step.                                              *)
(*                                                                         *)
(* One account; its equity is a constant and requests carry the margin     *)
(* their position needs, so only orders and closes move the free margin.   *)
(***************************************************************************)
EXTENDS Integers, FiniteSets, FiniteSetsExt

CONSTANTS
  Callers,     \* threads inside executeManagedOrder
  Workers,     \* concurrent slots of the order worker (20 in the code)
  Keys,        \* the clientRequestIds in use
  NoKey,       \* a request without clientRequestId
  Modes,       \* how callers execute: queued (FALSE), directly (TRUE)
  Payloads,    \* order requests: type, side, requested price, margin needed
  Quotes,      \* market snapshots: bid, ask and market state
  Equity,      \* equity of the account
  MaxOrders,   \* bound on the number of order rows
  SweepLimit,  \* rows one limit sweep takes (100 in the code)
  MaxAttempts, \* attempts of an execution job (5 in the code)
  MaxFaults,   \* bound on crashes and failing calls
  MaxToggles   \* bound on changes of the trading kill switch

Orders == 1 .. MaxOrders   \* row ids, in the order of createdAt
Procs  == Callers \cup Workers
None   == 0                \* no row, no price

ASSUME BoundsAssumption ==
  /\ MaxOrders \in Nat
  /\ SweepLimit \in Nat \ {0}
  /\ MaxAttempts \in Nat \ {0}
  /\ MaxFaults \in Nat
  /\ MaxToggles \in Nat

ASSUME ProcsAssumption ==
  /\ Callers \cap Workers = {}
  /\ NoKey \notin Keys

ASSUME DataAssumption ==
  /\ Equity \in Int
  /\ Payloads # {}
  /\ Modes # {}
  /\ Modes \subseteq BOOLEAN
  /\ Payloads \subseteq [type : {"MARKET", "LIMIT"}, side : {"BUY", "SELL"},
                         price : Nat \ {0}, margin : Nat]
  /\ Quotes \subseteq [bid : Nat \ {0}, ask : Nat \ {0},
                       state : {"LIVE", "CLOSED", "UNHEALTHY"}]

VARIABLES
  status,    \* order.status, ABSENT before the row exists
  request,   \* the key and payload the row was created from
  reason,    \* order.rejectionReason
  fill,      \* order.executionPrice
  position,  \* the position row of the order (orderId is unique)
  job,       \* BullMQ state of the job order-<id>
  attempts,  \* attemptsMade of that job
  trading,   \* BrokerSettingsService.isTradingEnabled
  toggles,   \* changes of that switch so far
  faults,    \* crashes and failed calls so far
  pc,        \* where each process is
  at,        \* the row it handles
  quoted,    \* the execution price it computed
  cause,     \* the error it is about to record
  call,      \* the request of a caller
  todo,      \* rows a sweeping worker has still to try
  holds      \* the execution job a worker has taken

rows  == <<status, request, reason, fill, position>>
queue == <<job, attempts>>
env   == <<trading, toggles, faults>>
local == <<pc, at, quoted, cause, call, todo, holds>>
vars  == <<rows, queue, env, local>>

Statuses  == {"PENDING", "OPEN", "PROCESSING", "EXECUTED", "REJECTED"}
Resting   == {"PENDING", "OPEN"}
Causes    == {"none", "halted", "quote", "margin", "error"}
JobStates == {"none", "waiting", "active", "completed", "failed"}
Requests  == [key : Keys \cup {NoKey}, payload : Payloads, direct : Modes]
NoRequest == CHOOSE r \in Requests : TRUE   \* stands where there is none

\* pc values inside the try block of processOrderExecution, and all of them
InTry     == {"price", "rest", "risk", "commit", "after"}
Executing == InTry \cup {"load", "reject"}
PCs       == Executing \cup {"idle", "preflight", "create", "placed", "claim",
                             "done", "failed"}

Placed  == {o \in Orders : status[o] # "ABSENT"}
KeyOf(o) == request[o].key

-----------------------------------------------------------------------------
(***************************************************************************)
(* Margin (risk.service.ts): free margin is equity less the margin of the  *)
(* open positions.                                                         *)
(***************************************************************************)
OpenPositions == {o \in Orders : position[o] = "open"}
UsedMargin    == MapThenSumSet(LAMBDA o : request[o].payload.margin, OpenPositions)
\* Mutant: the margin in use is not deducted.
CanBeOpenedOnEquity(p) == Equity >= p.margin
CanBeOpened(p) == Equity - UsedMargin >= p.margin

\* Mutant: every limit order counts as triggered.
PriceUntriggered(p, q) == IF p.side = "BUY" THEN q.ask ELSE q.bid

\* resolveExecutionPrice: None when a limit order is not triggered. A triggered
\* limit order takes the better of its price and the quote, which is the quote.
ResolveExecutionPrice(p, q) ==
  IF p.side = "BUY"
  THEN IF p.type = "MARKET" \/ q.ask <= p.price THEN q.ask ELSE None
  ELSE IF p.type = "MARKET" \/ q.bid >= p.price THEN q.bid ELSE None

-----------------------------------------------------------------------------
Init ==
  /\ status = [o \in Orders |-> "ABSENT"]
  /\ request = [o \in Orders |-> NoRequest]
  /\ reason = [o \in Orders |-> "none"]
  /\ fill = [o \in Orders |-> None]
  /\ position = [o \in Orders |-> "none"]
  /\ job = [o \in Orders |-> "none"]
  /\ attempts = [o \in Orders |-> 0]
  /\ trading = TRUE
  /\ toggles = 0
  /\ faults = 0
  /\ pc = [p \in Procs |-> "idle"]
  /\ at = [p \in Procs |-> None]
  /\ quoted = [p \in Procs |-> None]
  /\ cause = [p \in Procs |-> "none"]
  /\ call = [c \in Callers |-> NoRequest]
  /\ todo = [w \in Workers |-> {}]
  /\ holds = [w \in Workers |-> None]

Goto(p, label) == pc' = [pc EXCEPT ![p] = label]

\* A caller answers its client; a worker hands the outcome to BullMQ.
Leave(p, outcome) ==
  /\ Goto(p, IF p \in Callers THEN "idle" ELSE outcome)
  /\ at' = [at EXCEPT ![p] = IF p \in Callers THEN None ELSE @]
  /\ quoted' = [quoted EXCEPT ![p] = None]
  /\ cause' = [cause EXCEPT ![p] = "none"]
  /\ call' = [c \in Callers |-> IF c = p THEN NoRequest ELSE call[c]]
  /\ UNCHANGED <<todo, holds>>

\* An await that does not come back with a value, within the bound.
OneFault ==
  /\ faults < MaxFaults
  /\ faults' = faults + 1
  /\ UNCHANGED <<trading, toggles>>

-----------------------------------------------------------------------------
(***************************************************************************)
(* executeManagedOrder: the idempotency lookup, the preflight checks, the  *)
(* insert guarded by the unique index on (userId, clientRequestId), then   *)
(* the queue or the direct execution.                                      *)
(***************************************************************************)

\* findIdempotentOrder
FindIdempotentOrder(key) == {o \in Placed : key # NoKey /\ KeyOf(o) = key}

\* The rows the unique index on (userId, clientRequestId) refuses a second of.
\* Mutant: the index is not there.
NoIndex(key) == {}
UniqueIndexHits(key) == FindIdempotentOrder(key)

Entering == {c \in Callers : pc[c] \in {"preflight", "create"}}

\* buildExistingManagedOrderResponse: a direct call retries what is not
\* settled; any other call only reports the row. A different payload is refused.
AnswerExisting(c, r, o) ==
  IF /\ request[o].payload = r.payload
     /\ r.direct
     /\ status[o] \in Resting \cup {"PROCESSING"}
  THEN /\ Goto(c, "claim")
       /\ at' = [at EXCEPT ![c] = o]
       /\ call' = [call EXCEPT ![c] = NoRequest]
       /\ UNCHANGED <<quoted, cause, todo, holds>>
  ELSE Leave(c, "done")

ReceiveNew(c, r) ==
  /\ pc[c] = "idle"
  /\ FindIdempotentOrder(r.key) = {}
  /\ trading
  /\ Cardinality(Placed) + Cardinality(Entering) < MaxOrders
  /\ Goto(c, "preflight")
  /\ call' = [call EXCEPT ![c] = r]
  /\ UNCHANGED <<rows, queue, env, at, quoted, cause, todo, holds>>

ReceiveDuplicate(c, r) ==
  /\ pc[c] = "idle"
  /\ \E o \in FindIdempotentOrder(r.key) : AnswerExisting(c, r, o)
  /\ UNCHANGED <<rows, queue, env>>

\* assertOrderPreflight
Preflight(c) ==
  /\ pc[c] = "preflight"
  /\ CanBeOpened(call[c].payload)
  /\ Goto(c, "create")
  /\ UNCHANGED <<rows, queue, env, at, quoted, cause, call, todo, holds>>

\* The quote is unhealthy, margin is short or a risk limit is met: nothing stored.
PreflightRefuses(c) ==
  /\ pc[c] = "preflight"
  /\ Leave(c, "failed")
  /\ UNCHANGED <<rows, queue, env>>

Create(c) ==
  /\ pc[c] = "create"
  /\ UniqueIndexHits(call[c].key) = {}
  /\ \E o \in Orders \ Placed :
       /\ \A x \in Orders \ Placed : o <= x
       /\ status' = [status EXCEPT ![o] = "PENDING"]
       /\ request' = [request EXCEPT ![o] = call[c]]
       /\ at' = [at EXCEPT ![c] = o]
  /\ Goto(c, "placed")
  /\ UNCHANGED <<reason, fill, position, queue, env, quoted, cause, call, todo, holds>>

\* P2002: another request with this key was inserted after the lookup.
CreateConflicts(c) ==
  /\ pc[c] = "create"
  /\ \E o \in UniqueIndexHits(call[c].key) : AnswerExisting(c, call[c], o)
  /\ UNCHANGED <<rows, queue, env>>

\* Mutant: the caller answers "queued" and queues nothing.
EnqueueNothing(c) ==
  /\ pc[c] = "placed"
  /\ ~call[c].direct
  /\ Leave(c, "done")
  /\ UNCHANGED <<rows, queue, env>>

EnqueueOrderExecution(c) ==
  /\ pc[c] = "placed"
  /\ ~call[c].direct
  /\ job' = [job EXCEPT ![at[c]] = "waiting"]
  /\ Leave(c, "done")
  /\ UNCHANGED <<rows, attempts, env>>

ExecuteDirectly(c) ==
  /\ pc[c] = "placed"
  /\ call[c].direct
  /\ Goto(c, "claim")
  /\ call' = [call EXCEPT ![c] = NoRequest]
  /\ UNCHANGED <<rows, queue, env, at, quoted, cause, todo, holds>>

\* The audit log, the surveillance rule or the queue throws: the row stays.
PlacedFails(c) ==
  /\ pc[c] = "placed"
  /\ OneFault
  /\ Leave(c, "failed")
  /\ UNCHANGED <<rows, queue>>

-----------------------------------------------------------------------------
(***************************************************************************)
(* processOrderExecution                                                   *)
(***************************************************************************)
PayloadOf(p) == request[at[p]].payload

\* Mutants: a retry may take over a row already claimed; a settled row; any row.
ClaimableAgain(s) == s \in Resting \cup {"PROCESSING"}
ClaimableRejected(s) == s \in Resting \cup {"REJECTED"}
ClaimableExecuted(s) == s \in Resting \cup {"EXECUTED"}
Claimable(s) == s \in Resting

\* updateMany where status is claimable; count 0 returns null
Claim(p) ==
  /\ pc[p] = "claim"
  /\ IF Claimable(status[at[p]])
     THEN /\ status' = [status EXCEPT ![at[p]] = "PROCESSING"]
          /\ Goto(p, "load")
          /\ UNCHANGED <<at, quoted, cause, call, todo, holds>>
     ELSE /\ Leave(p, "done")
          /\ UNCHANGED status
  /\ UNCHANGED <<request, reason, fill, position, queue, env>>

Load(p) ==
  /\ pc[p] = "load"
  /\ Goto(p, "price")
  /\ UNCHANGED <<rows, queue, env, at, quoted, cause, call, todo, holds>>

Throw(p, why) ==
  /\ Goto(p, "reject")
  /\ cause' = [cause EXCEPT ![p] = why]
  /\ UNCHANGED <<at, quoted, call, todo, holds>>

\* assertTradingAllowed
PriceHalted(p) ==
  /\ pc[p] = "price"
  /\ ~trading
  /\ Throw(p, "halted")
  /\ UNCHANGED <<rows, queue, env>>

\* getLatestQuote, the market state, assertQuoteHealthy, resolveExecutionPrice
Price(p, q) ==
  /\ pc[p] = "price"
  /\ trading
  /\ LET limit == PayloadOf(p).type = "LIMIT"
         price == ResolveExecutionPrice(PayloadOf(p), q)
     IN  \/ /\ limit /\ q.state = "CLOSED"
            /\ Goto(p, "rest")
            /\ UNCHANGED <<at, quoted, cause, call, todo, holds>>
         \/ /\ q.state = "UNHEALTHY" \/ (q.state = "CLOSED" /\ ~limit)
            /\ Throw(p, "quote")
         \/ /\ q.state = "LIVE"
            /\ Goto(p, IF price = None THEN "rest" ELSE "risk")
            /\ quoted' = [quoted EXCEPT ![p] = price]
            /\ UNCHANGED <<at, cause, call, todo, holds>>
  /\ UNCHANGED <<rows, queue, env>>

\* Mutants: the claim is not given back; the row is cancelled.
RestStatusClaimed == "PROCESSING"
RestStatusCancelled == "CANCELLED"
RestStatus == "OPEN"

Rest(p) ==
  /\ pc[p] = "rest"
  /\ status' = [status EXCEPT ![at[p]] = RestStatus]
  /\ Leave(p, "done")
  /\ UNCHANGED <<request, reason, fill, position, queue, env>>

\* assertOrderCanBeOpened: read before, and outside, the transaction
Risk(p) ==
  /\ pc[p] = "risk"
  /\ IF CanBeOpened(PayloadOf(p))
     THEN /\ Goto(p, "commit")
          /\ UNCHANGED <<at, quoted, cause, call, todo, holds>>
     ELSE Throw(p, "margin")
  /\ UNCHANGED <<rows, queue, env>>

\* The transaction; position.orderId is unique, so a second insert rolls back.
Commit(p) ==
  /\ pc[p] = "commit"
  /\ IF position[at[p]] = "none"
     THEN /\ status' = [status EXCEPT ![at[p]] = "EXECUTED"]
          /\ fill' = [fill EXCEPT ![at[p]] = quoted[p]]
          /\ reason' = [reason EXCEPT ![at[p]] = "none"]
          /\ position' = [position EXCEPT ![at[p]] = "open"]
          /\ Goto(p, "after")
          /\ UNCHANGED <<at, quoted, cause, call, todo, holds>>
     ELSE /\ Throw(p, "error")
          /\ UNCHANGED <<status, fill, reason, position>>
  /\ UNCHANGED <<request, queue, env>>

\* Mutant: Promise.all in place of Promise.allSettled, so a copy or an affiliate
\* failure throws.
AfterThrows(p) ==
  /\ pc[p] = "after"
  /\ Throw(p, "error")
  /\ UNCHANGED <<rows, queue, env>>

\* Audit log, events, first-trade email, wallet mirror, affiliates and copies.
After(p) ==
  /\ pc[p] = "after"
  /\ Leave(p, "done")
  /\ UNCHANGED <<rows, queue, env>>

\* The catch block writes REJECTED whatever the row has become.
Reject(p) ==
  /\ pc[p] = "reject"
  /\ status' = [status EXCEPT ![at[p]] = "REJECTED"]
  /\ reason' = [reason EXCEPT ![at[p]] = cause[p]]
  /\ \/ /\ Leave(p, "done")
        /\ UNCHANGED env
     \/ /\ Leave(p, "failed")   \* the audit log or the surveillance rule throws
        /\ OneFault
  /\ UNCHANGED <<request, fill, position, queue>>

\* A throw inside the try block, after the commit included.
TryFails(p) ==
  /\ pc[p] \in InTry
  /\ OneFault
  /\ Throw(p, "error")
  /\ UNCHANGED <<rows, queue>>

\* A throw of the claim, of the read after it or of the catch block's update.
ExecutionFails(p) ==
  /\ pc[p] \in {"claim", "load", "reject"}
  /\ OneFault
  /\ Leave(p, "failed")
  /\ UNCHANGED <<rows, queue>>

-----------------------------------------------------------------------------
(***************************************************************************)
(* The worker (order-worker.service.ts) and BullMQ                         *)
(***************************************************************************)
TakeJob(w, o) ==
  /\ pc[w] = "idle"
  /\ job[o] = "waiting"
  /\ job' = [job EXCEPT ![o] = "active"]
  /\ holds' = [holds EXCEPT ![w] = o]
  /\ at' = [at EXCEPT ![w] = o]
  /\ Goto(w, "claim")
  /\ UNCHANGED <<rows, attempts, env, quoted, cause, call, todo>>

Release(w) ==
  /\ Goto(w, "idle")
  /\ at' = [at EXCEPT ![w] = None]
  /\ holds' = [holds EXCEPT ![w] = None]
  /\ todo' = [todo EXCEPT ![w] = {}]
  /\ UNCHANGED <<quoted, cause, call>>

CompleteJob(w) ==
  /\ pc[w] = "done"
  /\ holds[w] # None
  /\ job' = [job EXCEPT ![holds[w]] = "completed"]
  /\ Release(w)
  /\ UNCHANGED <<rows, attempts, env>>

\* Rethrown to BullMQ, which backs off and retries until attempts is reached.
FailJob(w) ==
  /\ pc[w] = "failed"
  /\ holds[w] # None
  /\ attempts' = [attempts EXCEPT ![holds[w]] = @ + 1]
  /\ job' = [job EXCEPT ![holds[w]] =
               IF attempts[holds[w]] + 1 >= MaxAttempts THEN "failed" ELSE "waiting"]
  /\ Release(w)
  /\ UNCHANGED <<rows, env>>

\* processLimitSweep: the SweepLimit oldest resting limit orders, in turn
\* Mutant: only rows never tried.
SweepableNew == {o \in Orders : status[o] = "PENDING" /\ request[o].payload.type = "LIMIT"}
Sweepable == {o \in Orders : status[o] \in Resting /\ request[o].payload.type = "LIMIT"}
SweepBatch == {o \in Sweepable : Cardinality({x \in Sweepable : x < o}) < SweepLimit}

TryNext(w, batch) ==
  /\ \E oldest \in batch :
       /\ \A o \in batch : oldest <= o
       /\ at' = [at EXCEPT ![w] = oldest]
       /\ todo' = [todo EXCEPT ![w] = batch \ {oldest}]
  /\ Goto(w, "claim")
  /\ UNCHANGED <<rows, queue, env, quoted, cause, call, holds>>

ProcessLimitSweep(w) ==
  /\ pc[w] = "idle"
  /\ TryNext(w, SweepBatch)

SweepNext(w) ==
  /\ pc[w] = "done"
  /\ holds[w] = None
  /\ TryNext(w, todo[w])

\* The list is exhausted, or a row threw and the sweep is left to a later quote.
SweepEnds(w) ==
  /\ holds[w] = None
  /\ \/ pc[w] = "done" /\ todo[w] = {}
     \/ pc[w] = "failed"
  /\ Release(w)
  /\ UNCHANGED <<rows, queue, env>>

\* BullMQ finds an active job without a worker: back to waiting, or failed
\* when it has stalled too often.
Stalled(o) ==
  /\ job[o] = "active"
  /\ \A w \in Workers : holds[w] # o
  /\ \E s \in {"waiting", "failed"} : job' = [job EXCEPT ![o] = s]
  /\ UNCHANGED <<rows, attempts, env, local>>

\* The administrator's retry of every failed job.
RetryAllFailedJobs ==
  /\ \E o \in Orders : job[o] = "failed"
  /\ job' = [o \in Orders |-> IF job[o] = "failed" THEN "waiting" ELSE job[o]]
  /\ UNCHANGED <<rows, attempts, env, local>>

-----------------------------------------------------------------------------
(***************************************************************************)
(* The process dies and is started again: what it held is gone, the rows   *)
(* and the queue stay.                                                     *)
(***************************************************************************)
Crash ==
  /\ \E p \in Procs : pc[p] # "idle"
  /\ OneFault
  /\ pc' = [p \in Procs |-> "idle"]
  /\ at' = [p \in Procs |-> None]
  /\ quoted' = [p \in Procs |-> None]
  /\ cause' = [p \in Procs |-> "none"]
  /\ call' = [c \in Callers |-> NoRequest]
  /\ todo' = [w \in Workers |-> {}]
  /\ holds' = [w \in Workers |-> None]
  /\ UNCHANGED <<rows, queue>>

\* positions.service.ts closes the position and returns its margin.
ClosePosition(o) ==
  /\ position[o] = "open"
  /\ position' = [position EXCEPT ![o] = "closed"]
  /\ UNCHANGED <<status, request, reason, fill, queue, env, local>>

\* The broker's trading kill switch.
ToggleTrading ==
  /\ toggles < MaxToggles
  /\ toggles' = toggles + 1
  /\ trading' = ~trading
  /\ UNCHANGED <<rows, queue, faults, local>>

CallerStep(c) ==
  \/ Preflight(c) \/ PreflightRefuses(c)
  \/ Create(c) \/ CreateConflicts(c)
  \/ EnqueueOrderExecution(c) \/ ExecuteDirectly(c)

ExecutionStep(p) ==
  \/ Claim(p) \/ Load(p)
  \/ PriceHalted(p) \/ \E q \in Quotes : Price(p, q)
  \/ Rest(p) \/ Risk(p) \/ Commit(p) \/ After(p) \/ Reject(p)

WorkerStep(w) == CompleteJob(w) \/ FailJob(w) \/ SweepNext(w) \/ SweepEnds(w)

FaultStep ==
  \/ \E c \in Callers : PlacedFails(c)
  \/ \E p \in Procs : TryFails(p) \/ ExecutionFails(p)
  \/ Crash

Next ==
  \/ \E c \in Callers, r \in Requests : ReceiveNew(c, r) \/ ReceiveDuplicate(c, r)
  \/ \E c \in Callers : CallerStep(c)
  \/ \E p \in Procs : ExecutionStep(p)
  \/ \E w \in Workers, o \in Orders : TakeJob(w, o)
  \/ \E w \in Workers : ProcessLimitSweep(w) \/ WorkerStep(w)
  \/ \E o \in Orders : Stalled(o) \/ ClosePosition(o)
  \/ RetryAllFailedJobs
  \/ FaultStep
  \/ ToggleTrading

Spec == Init /\ [][Next]_vars

(***************************************************************************)
(* Fairness. An await comes back, so a process that has started goes on; a *)
(* waiting job is eventually taken, whatever else the workers do (BullMQ   *)
(* serves jobs in order, so this is strong); and quotes keep arriving, each *)
(* of them enqueuing a sweep (maybeEnqueueLimitSweep).                     *)
(***************************************************************************)
Fairness ==
  /\ \A c \in Callers : WF_vars(CallerStep(c))
  /\ \A p \in Procs : WF_vars(ExecutionStep(p))
  /\ \A w \in Workers : WF_vars(WorkerStep(w))
  /\ \A o \in Orders : SF_vars(\E w \in Workers : TakeJob(w, o))
  /\ SF_vars(\E w \in Workers : ProcessLimitSweep(w))

FairSpec == Spec /\ Fairness

-----------------------------------------------------------------------------
TypeOK ==
  /\ status \in [Orders -> Statuses \cup {"ABSENT"}]
  /\ request \in [Orders -> Requests]
  /\ reason \in [Orders -> Causes]
  /\ fill \in [Orders -> Nat]
  /\ position \in [Orders -> {"none", "open", "closed"}]
  /\ job \in [Orders -> JobStates]
  /\ attempts \in [Orders -> Nat]
  /\ trading \in BOOLEAN
  /\ toggles \in 0 .. MaxToggles
  /\ faults \in 0 .. MaxFaults
  /\ pc \in [Procs -> PCs]
  /\ at \in [Procs -> Orders \cup {None}]
  /\ quoted \in [Procs -> Nat]
  /\ cause \in [Procs -> Causes]
  /\ call \in [Callers -> Requests]
  /\ todo \in [Workers -> SUBSET Orders]
  /\ holds \in [Workers -> Orders \cup {None}]

\* The process is inside processOrderExecution for o, past the claim.
Executes(p, o) == pc[p] \in Executing /\ at[p] = o

(***************************************************************************)
(* Safety                                                                  *)
(***************************************************************************)

\* However many requests carry one clientRequestId, concurrently or again
\* after an error, one order row exists for it.
OneOrderPerKey ==
  \A o1, o2 \in Placed :
    KeyOf(o1) = KeyOf(o2) /\ KeyOf(o1) # NoKey => o1 = o2

\* The claim gives an order to one execution at a time: job retries, sweeps,
\* direct calls and their duplicates never run the same row together.
OneExecutor ==
  \A p, q \in Procs : \A o \in Orders :
    Executes(p, o) /\ Executes(q, o) => p = q

\* An executed order has its position, and a position belongs to an order
\* that committed its execution, even if its row says REJECTED afterwards.
PositionMatchesOrder ==
  \A o \in Orders :
    /\ status[o] = "EXECUTED" => position[o] # "none"
    /\ position[o] # "none" => status[o] \in {"EXECUTED", "REJECTED"}

\* No limit order is filled at a price worse than the client asked for,
\* whichever quote its execution read and however long ago.
LimitPriceRespected ==
  \A o \in Orders :
    status[o] = "EXECUTED" /\ request[o].payload.type = "LIMIT" =>
      IF request[o].payload.side = "BUY"
      THEN fill[o] <= request[o].payload.price
      ELSE fill[o] >= request[o].payload.price

\* Without a failing call or a crash, an order is PROCESSING only while an
\* execution is at work on it.
ProcessingHasExecutor ==
  faults = 0 =>
    \A o \in Orders : status[o] = "PROCESSING" => \E p \in Procs : Executes(p, o)

\* Without a failing call or a crash, a pending market order is on its way to
\* an execution: a caller is about to queue or to claim it, or its job waits
\* or is held by a worker. (Limit orders are also found by the sweep.)
PendingIsScheduled ==
  faults = 0 =>
    \A o \in Orders :
      status[o] = "PENDING" /\ request[o].payload.type = "MARKET" =>
        \/ job[o] = "waiting"
        \/ \E w \in Workers : at[w] = o /\ pc[w] = "claim" /\ holds[w] = o
        \/ \E c \in Callers : at[c] = o /\ pc[c] \in {"placed", "claim"}

\* Without a failing call or a crash, a rejected order has no position.
RejectedHasNoPosition ==
  faults = 0 => \A o \in Orders : status[o] = "REJECTED" => position[o] = "none"

\* What the row of an order says is what becomes of it, as long as nothing
\* fails: somebody works on it, somebody will, or it came to nothing.
OrdersAreAccounted == ProcessingHasExecutor /\ PendingIsScheduled /\ RejectedHasNoPosition

\* The open positions never need more margin than the account has: the
\* promise of assertOrderCanBeOpened, which reads the margin before the
\* transaction that uses it. It holds when executions do not overlap.
MarginRespected == UsedMargin <= Equity

\* docs/kill-switches.md: the trading switch halts the entry of new orders. A
\* limit order that was accepted before the halt is not rejected by it.
HaltStopsOnlyEntry ==
  \A o \in Placed :
    status[o] = "REJECTED" /\ request[o].payload.type = "LIMIT" => reason[o] # "halted"

(***************************************************************************)
(* Action properties                                                       *)
(***************************************************************************)

\* A rejected order is final: no retry, sweep or duplicate request executes it
\* or gives it a position.
RejectedIsFinal ==
  [][\A o \in Orders : status[o] = "REJECTED" =>
       /\ status'[o] = "REJECTED"
       /\ position[o] = "none" => position'[o] = "none"]_vars

\* An execution that dies between its claim and its outcome is never resumed:
\* job retries, stalled jobs, sweeps and duplicates all leave the row in
\* PROCESSING, with nobody at work on it.
AbandonedStaysProcessing ==
  [][\A o \in Orders :
       status[o] = "PROCESSING" /\ (\A p \in Procs : ~Executes(p, o)) =>
         /\ status'[o] = "PROCESSING"
         /\ position'[o] = "none"]_vars

\* What ended is not taken up again: neither rejected orders nor abandoned ones
\* (the claim of processOrderExecution).
OutcomesAreFinal == RejectedIsFinal /\ AbandonedStaysProcessing

(***************************************************************************)
(* Liveness, under FairSpec and without faults                             *)
(***************************************************************************)
Settled(o) == status[o] \in {"EXECUTED", "REJECTED"}

\* Every market order stored is executed or rejected.
MarketOrdersSettle ==
  \A o \in Orders :
    (status[o] = "PENDING" /\ request[o].payload.type = "MARKET") ~> Settled(o)

\* Every resting limit order is tried again, as long as the orders resting
\* fit in one sweep.
RestingOrdersAreTried == \A o \in Orders : status[o] = "OPEN" ~> status[o] # "OPEN"

\* Neither the queue nor the sweep leaves an order behind.
OrdersProceed == MarketOrdersSettle /\ RestingOrdersAreTried

=============================================================================
