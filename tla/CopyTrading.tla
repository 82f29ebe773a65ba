----------------------------- MODULE CopyTrading -----------------------------
(***************************************************************************)
(* Copy trading (copy-trading.service.ts, copy-execution.service.ts,       *)
(* copy-trading-queue.service.ts, copy-trading-worker.service.ts,          *)
(* stats.cron.ts): the trades of one provider are mirrored into the copy   *)
(* account of each relation.                                               *)
(*                                                                         *)
(* What a trade's commit or close leaves to be announced becomes one job   *)
(* per trade and kind. A worker mirrors an opened trade to the relations   *)
(* it found ACTIVE, one after the other, and closes the copies of a closed *)
(* one. A copy's order runs on its own (OrderExecution), and is abstracted *)
(* to its outcome; so is the close of a position (PositionClose): a read   *)
(* of its status, and a commit that does not look again.                   *)
(***************************************************************************)
EXTENDS Integers, FiniteSets, FiniteSetsExt
LOCAL INSTANCE TLC

CONSTANTS
  Trades,       \* positions of the provider
  Relations,    \* copy relations to it, each with its own account
  Workers,      \* slots of the copy worker
  Timers,       \* refreshes of the statistics: the hourly one and requests'
  Margin,       \* margin of a copy of each trade
  Allocated,    \* what each relation allocated
  MaxAttempts,
  MaxStalls,    \* how often a job may be found without its worker
  MaxFaults,
  Swallowed,    \* whether the close of a copy may throw, which only is logged
  MaxChanges    \* changes of relations and of the switch, copies closed by copiers

ASSUME BoundsAssumption ==
  /\ MaxAttempts \in Nat \ {0}
  /\ Swallowed \in BOOLEAN
  /\ MaxStalls \in Nat /\ MaxFaults \in Nat /\ MaxChanges \in Nat
ASSUME MarginAssumption ==
  /\ IsFiniteSet(Trades) /\ IsFiniteSet(Relations)
  /\ Margin \in [Trades -> Nat]
  /\ Allocated \in [Relations -> Nat]
\* The queue has a worker, and the provider something to mirror.
ASSUME WorkersAssumption == IsFiniteSet(Workers) /\ Workers # {} /\ Trades # {}

Kinds  == {"open", "close"}
Jobs   == Trades \X Kinds
Copies == Trades \X Relations

VARIABLES
  enabled,    \* the switch copyTradingEnabled
  relation,   \* status of each relation
  trade,      \* status of the provider's positions
  job, attempts, stalls,
  order,      \* the order of each copy; "stuck" is PROCESSING and abandoned
  copy,       \* its position
  linked,     \* copies whose copiedFromTradeId is set
  settled,    \* how often the fee of a copy was settled, up to 2
  copiers,    \* activeCopiers of the provider
  worker,     \* where each worker is, its job, the relations left, the copy in
              \* hand and what it read last
  count,      \* what a refresh of the statistics has read
  faults, changes

shared  == <<enabled, relation, trade>>
queue   == <<job, attempts, stalls>>
mirror  == <<order, copy, linked, settled>>
bounds  == <<faults, changes>>
vars    == <<shared, queue, mirror, copiers, worker, count, bounds>>

Nothing == <<>>
NoCount == -1
Idle    == [pc |-> "idle", job |-> Nothing, todo |-> {}, on |-> Nothing, read |-> 0]

JobStates   == {"none", "waiting", "active", "completed", "failed"}
OrderStates == {"none", "placed", "running", "stuck", "EXECUTED", "REJECTED"}
PCs == {"idle", "load", "list", "exposure", "start", "await", "link",
        "find", "close", "commit", "settle", "write", "done"}

Active == {r \in Relations : relation[r] = "ACTIVE"}

Init ==
  /\ enabled = TRUE
  /\ relation \in [Relations -> {"ACTIVE", "STOPPED"}]
  /\ trade = [t \in Trades |-> "none"]
  /\ job = [j \in Jobs |-> "none"]
  /\ attempts = [j \in Jobs |-> 0]
  /\ stalls = [j \in Jobs |-> 0]
  /\ order = [c \in Copies |-> "none"]
  /\ copy = [c \in Copies |-> "none"]
  /\ linked = {}
  /\ settled = [c \in Copies |-> 0]
  /\ copiers = Cardinality({r \in Relations : relation[r] = "ACTIVE"})
  /\ worker = [w \in Workers |-> Idle]
  /\ count = [f \in Timers |-> NoCount]
  /\ faults = 0
  /\ changes = 0

Becomes(w, r) == worker' = [worker EXCEPT ![w] = r]
Goto(w, label) == Becomes(w, [worker[w] EXCEPT !.pc = label])

\* On to the next relation, or the next copy.
Resume(w, label) == Becomes(w, [worker[w] EXCEPT !.pc = label, !.on = Nothing, !.read = 0])

OneFault  == faults < MaxFaults /\ faults' = faults + 1 /\ UNCHANGED changes
OneChange == changes < MaxChanges /\ changes' = changes + 1 /\ UNCHANGED faults

-----------------------------------------------------------------------------
(***************************************************************************)
(* Copiers, the provider and the switch                                    *)
(***************************************************************************)
\* handleExecutedOrder, handlePositionClosed, after the commit: the switch is
\* read, and a job is added.
Announce(j) == job' = IF enabled THEN [job EXCEPT ![j] = "waiting"] ELSE job

\* Promise.allSettled hides a failure of the queue; or the process ends here.
AnnounceFails == OneFault /\ UNCHANGED job

OpenTrade(t) ==
  /\ trade[t] = "none"
  /\ trade' = [trade EXCEPT ![t] = "OPEN"]
  /\ \/ Announce(<<t, "open">>) /\ UNCHANGED bounds
     \/ AnnounceFails
  /\ UNCHANGED <<enabled, relation, attempts, stalls, mirror, copiers, worker, count>>

CloseTrade(t) ==
  /\ trade[t] = "OPEN"
  /\ trade' = [trade EXCEPT ![t] = "CLOSED"]
  /\ \/ Announce(<<t, "close">>) /\ UNCHANGED bounds
     \/ AnnounceFails
  /\ UNCHANGED <<enabled, relation, attempts, stalls, mirror, copiers, worker, count>>

SetRelation(r, s) ==
  /\ relation' = [relation EXCEPT ![r] = s]
  /\ OneChange
  /\ UNCHANGED <<enabled, trade, queue, mirror, copiers, worker, count>>

StartCopying(r) == enabled /\ relation[r] = "STOPPED" /\ SetRelation(r, "ACTIVE")

UpdateCopyRelation(r) ==
  enabled /\ \E s \in {"ACTIVE", "PAUSED", "STOPPED"} \ {relation[r]} : SetRelation(r, s)

\* stopCopying asks neither the switch nor for the copies, which stay open.
StopCopying(r) == relation[r] # "STOPPED" /\ SetRelation(r, "STOPPED")

ToggleCopying ==
  /\ enabled' = ~enabled
  /\ OneChange
  /\ UNCHANGED <<relation, trade, queue, mirror, copiers, worker, count>>

\* The copier, a stop or a liquidation closes the copy.
CloseCopy(c) ==
  /\ copy[c] = "OPEN"
  /\ copy' = [copy EXCEPT ![c] = "CLOSED"]
  /\ OneChange
  /\ UNCHANGED <<shared, queue, order, linked, settled, copiers, worker, count>>

\* Mutant: every relation is counted.
CountRelations(f) ==
  /\ count[f] = NoCount
  /\ count' = [count EXCEPT ![f] = Cardinality(Relations)]
  /\ UNCHANGED <<shared, queue, mirror, copiers, worker, bounds>>

\* refreshProviderStats of the timer or of a request: count, then write.
CountCopiers(f) ==
  /\ count[f] = NoCount
  /\ count' = [count EXCEPT ![f] = Cardinality(Active)]
  /\ UNCHANGED <<shared, queue, mirror, copiers, worker, bounds>>

WriteCopiers(f) ==
  /\ count[f] # NoCount
  /\ copiers' = count[f]
  /\ count' = [count EXCEPT ![f] = NoCount]
  /\ UNCHANGED <<shared, queue, mirror, worker, bounds>>

-----------------------------------------------------------------------------
(***************************************************************************)
(* Jobs                                                                    *)
(***************************************************************************)
TakeJob(w, j) ==
  /\ worker[w] = Idle
  /\ job[j] = "waiting"
  /\ job' = [job EXCEPT ![j] = "active"]
  /\ Becomes(w, [Idle EXCEPT !.pc = "load", !.job = j])
  /\ UNCHANGED <<shared, attempts, stalls, mirror, copiers, count, bounds>>

\* processProviderOpen, processProviderClose: the trade must still be OPEN, or
\* be CLOSED; mirrored trades and those of no provider are not announced.
Load(w) ==
  /\ worker[w].pc = "load"
  /\ LET j == worker[w].job
     IN  Goto(w, IF j[2] = "open" THEN IF trade[j[1]] = "OPEN" THEN "list" ELSE "done"
                 ELSE IF trade[j[1]] = "CLOSED" THEN "find" ELSE "done")
  /\ UNCHANGED <<shared, queue, mirror, copiers, count, bounds>>

CompleteJob(w) ==
  /\ \/ worker[w].pc = "done"
     \/ worker[w].pc = "exposure" /\ worker[w].todo = {}
  /\ Becomes(w, Idle)
  /\ job' = [job EXCEPT ![worker[w].job] = "completed"]
  /\ UNCHANGED <<shared, attempts, stalls, mirror, copiers, count, bounds>>

\* A read of the job itself throws: BullMQ tries again, three times in all.
FailJob(w) ==
  /\ worker[w].pc \in {"load", "list", "find", "write"}
  /\ OneFault
  /\ Becomes(w, Idle)
  /\ LET j == worker[w].job
     IN  /\ attempts' = [attempts EXCEPT ![j] = @ + 1]
         /\ job' = [job EXCEPT ![j] = IF attempts[j] + 1 >= MaxAttempts THEN "failed" ELSE "waiting"]
  /\ UNCHANGED <<shared, stalls, mirror, copiers, count>>

\* Mutant: a stalled job always waits again.
StalledAgain(j) ==
  /\ job[j] = "active"
  /\ \A w \in Workers : worker[w].job # j
  /\ stalls' = [stalls EXCEPT ![j] = @ + 1]
  /\ job' = [job EXCEPT ![j] = "waiting"]
  /\ UNCHANGED <<shared, attempts, mirror, copiers, worker, count, bounds>>

\* BullMQ finds an active job without a worker.
Stalled(j) ==
  /\ job[j] = "active"
  /\ \A w \in Workers : worker[w].job # j
  /\ stalls' = [stalls EXCEPT ![j] = @ + 1]
  /\ job' = [job EXCEPT ![j] = IF stalls[j] < MaxStalls THEN "waiting" ELSE "failed"]
  /\ UNCHANGED <<shared, attempts, mirror, copiers, worker, count, bounds>>

-----------------------------------------------------------------------------
(***************************************************************************)
(* onProviderTrade                                                         *)
(***************************************************************************)
ListRelations(w) ==
  /\ worker[w].pc = "list"
  /\ Becomes(w, [worker[w] EXCEPT !.pc = "exposure", !.todo = Active])
  /\ UNCHANGED <<shared, queue, mirror, copiers, count, bounds>>

LinkedOpen(r) == {t \in Trades : <<t, r>> \in linked /\ copy[<<t, r>>] = "OPEN"}

\* getCurrentRelationExposure counts the copies that are linked.
Exposure(r) == MapThenSumSet(LAMBDA t : Margin[t], LinkedOpen(r))

\* openMirroredTrade up to the exposure: accounts, sizes and quote are fine.
ReadExposure(w) ==
  /\ worker[w].pc = "exposure"
  /\ \E r \in worker[w].todo :
       Becomes(w, [worker[w] EXCEPT !.pc = "start", !.todo = @ \ {r},
                     !.on = <<worker[w].job[1], r>>, !.read = Exposure(r)])
  /\ UNCHANGED <<shared, queue, mirror, copiers, count, bounds>>

\* Something throws, or the relation's account or size does not fit: next one.
SkipRelation(w) ==
  /\ worker[w].pc = "exposure"
  /\ \E r \in worker[w].todo : Becomes(w, [worker[w] EXCEPT !.todo = @ \ {r}])
  /\ OneFault
  /\ UNCHANGED <<shared, queue, mirror, copiers, count>>

\* Mutant: the exposure is left out.
FitsAlone(w) == Margin[worker[w].on[1]] <= Allocated[worker[w].on[2]]

Fits(w) == worker[w].read + Margin[worker[w].on[1]] <= Allocated[worker[w].on[2]]

\* executeManagedOrderNow is called, and only then is the exposure compared;
\* an order that does not fit is not awaited. A row with this request's id is
\* executed if it is not claimed yet, and otherwise throws.
StartOrder(w) ==
  /\ worker[w].pc = "start"
  /\ LET c    == worker[w].on
         runs == order[c] \in {"none", "placed"}
     IN  /\ order' = IF runs THEN [order EXCEPT ![c] = "running"] ELSE order
         /\ \/ Fits(w) /\ runs /\ Goto(w, "await")
            \/ Fits(w) /\ ~runs /\ Resume(w, "exposure")
            \/ ~Fits(w) /\ runs /\ Resume(w, "exposure")
  /\ UNCHANGED <<shared, queue, copy, linked, settled, copiers, count, bounds>>

Awaited(c) == \E w \in Workers : worker[w].pc = "await" /\ worker[w].on = c

\* processOrderExecution of the copy commits.
OrderExecutes(c) ==
  /\ order[c] = "running"
  /\ order' = [order EXCEPT ![c] = "EXECUTED"]
  /\ copy' = [copy EXCEPT ![c] = "OPEN"]
  /\ UNCHANGED <<shared, queue, linked, settled, copiers, worker, count, bounds>>

OrderRejected(c) ==
  /\ order[c] = "running"
  /\ Awaited(c)
  /\ order' = [order EXCEPT ![c] = "REJECTED"]
  /\ UNCHANGED <<shared, queue, copy, linked, settled, copiers, worker, count, bounds>>

HearsOfOrder(w) ==
  /\ worker[w].pc = "await"
  /\ \/ order[worker[w].on] = "EXECUTED" /\ Goto(w, "link")
     \/ order[worker[w].on] = "REJECTED" /\ Resume(w, "exposure")
  /\ UNCHANGED <<shared, queue, mirror, copiers, count, bounds>>

\* copiedFromTradeId is written by id, whatever became of either position.
Link(w) ==
  /\ worker[w].pc = "link"
  /\ linked' = linked \cup {worker[w].on}
  /\ Resume(w, "exposure")
  /\ UNCHANGED <<shared, queue, order, copy, settled, copiers, count, bounds>>

LinkFails(w) ==
  /\ worker[w].pc = "link"
  /\ OneFault
  /\ Resume(w, "exposure")
  /\ UNCHANGED <<shared, queue, mirror, copiers, count>>

-----------------------------------------------------------------------------
(***************************************************************************)
(* onProviderClose                                                         *)
(***************************************************************************)
\* Mutant: copies of relations that are no longer active are not found.
FindActiveCopies(w) ==
  /\ worker[w].pc = "find"
  /\ Becomes(w, [worker[w] EXCEPT !.pc = "close",
                   !.todo = {r \in Active : worker[w].job[1] \in LinkedOpen(r)}])
  /\ UNCHANGED <<shared, queue, mirror, copiers, count, bounds>>

FindCopies(w) ==
  /\ worker[w].pc = "find"
  /\ Becomes(w, [worker[w] EXCEPT !.pc = "close",
                   !.todo = {r \in Relations : worker[w].job[1] \in LinkedOpen(r)}])
  /\ UNCHANGED <<shared, queue, mirror, copiers, count, bounds>>

\* closePositionBySystem reads the copy: one that is not open gives null.
ReadCopy(w) ==
  /\ worker[w].pc = "close"
  /\ \E r \in worker[w].todo :
       LET c == <<worker[w].job[1], r>>
       IN  Becomes(w, IF copy[c] = "OPEN"
                      THEN [worker[w] EXCEPT !.todo = @ \ {r}, !.pc = "commit", !.on = c]
                      ELSE [worker[w] EXCEPT !.todo = @ \ {r}])
  /\ UNCHANGED <<shared, queue, mirror, copiers, count, bounds>>

Settled(c) == settled' = [settled EXCEPT ![c] = IF @ = 2 THEN 2 ELSE @ + 1]

\* Mutant: only the fee is taken here, and the copy closed after it.
CommitAfterFee(w) ==
  /\ worker[w].pc = "commit"
  /\ Settled(worker[w].on)
  /\ Goto(w, "settle")
  /\ UNCHANGED <<shared, queue, order, copy, linked, copiers, count, bounds>>

CommitClose(w) ==
  /\ worker[w].pc = "commit"
  /\ copy' = [copy EXCEPT ![worker[w].on] = "CLOSED"]
  /\ Goto(w, "settle")
  /\ UNCHANGED <<shared, queue, order, linked, settled, copiers, count, bounds>>

\* settleCopyClose: one transaction of increments
Settle(w) ==
  /\ worker[w].pc = "settle"
  /\ Settled(worker[w].on)
  /\ Resume(w, "close")
  /\ UNCHANGED <<shared, queue, order, copy, linked, copiers, count, bounds>>

\* The close or the settlement of a copy throws; the others go on.
CloseFails(w) ==
  /\ Swallowed
  /\ worker[w].pc \in {"commit", "settle"}
  /\ OneFault
  /\ Resume(w, "close")
  /\ UNCHANGED <<shared, queue, mirror, copiers, count>>

\* refreshProviderStats after the last copy
ReadStats(w) ==
  /\ worker[w].pc = "close"
  /\ worker[w].todo = {}
  /\ Becomes(w, [worker[w] EXCEPT !.pc = "write", !.read = Cardinality(Active)])
  /\ UNCHANGED <<shared, queue, mirror, copiers, count, bounds>>

WriteStats(w) ==
  /\ worker[w].pc = "write"
  /\ copiers' = worker[w].read
  /\ Resume(w, "done")
  /\ UNCHANGED <<shared, queue, mirror, count, bounds>>

-----------------------------------------------------------------------------
\* The process is gone: workers, refreshes, announcements and running orders.
Restart ==
  /\ worker' = [w \in Workers |-> Idle]
  /\ count' = [f \in Timers |-> NoCount]

Crash ==
  /\ OneFault
  /\ Restart
  /\ \E left \in {"placed", "stuck"} :
       order' = [c \in Copies |-> IF order[c] = "running" THEN left ELSE order[c]]
  /\ UNCHANGED <<enabled, relation, trade, queue, copy, linked, settled, copiers>>

Exit(abandoned) ==
  /\ order' = [c \in Copies |-> IF c \in abandoned THEN "REJECTED"
                                 ELSE IF order[c] = "running" THEN "stuck" ELSE order[c]]
  /\ Restart
  /\ UNCHANGED <<enabled, relation, trade, queue, copy, linked, settled, copiers, bounds>>

\* An order that nobody awaits is rejected, or its row cannot be executed:
\* nothing handles the rejection, and Node ends the process.
RejectionExits(c) == order[c] = "running" /\ ~Awaited(c) /\ Exit({c})

RowExits(w) ==
  /\ worker[w].pc = "start"
  /\ ~Fits(w)
  /\ order[worker[w].on] \notin {"none", "placed"}
  /\ Exit({})

-----------------------------------------------------------------------------
WorkerStep(w) ==
  \/ Load(w) \/ CompleteJob(w)
  \/ ListRelations(w) \/ ReadExposure(w)
  \/ StartOrder(w) \/ RowExits(w) \/ HearsOfOrder(w) \/ Link(w)
  \/ FindCopies(w) \/ ReadCopy(w) \/ CommitClose(w) \/ Settle(w)
  \/ ReadStats(w) \/ WriteStats(w)

FaultStep ==
  \/ \E w \in Workers : FailJob(w) \/ SkipRelation(w) \/ LinkFails(w) \/ CloseFails(w)
  \/ Crash

Next ==
  \/ \E t \in Trades : OpenTrade(t) \/ CloseTrade(t)
  \/ \E j \in Jobs : Stalled(j) \/ \E w \in Workers : TakeJob(w, j)
  \/ \E r \in Relations : StartCopying(r) \/ UpdateCopyRelation(r) \/ StopCopying(r)
  \/ ToggleCopying
  \/ \E c \in Copies : CloseCopy(c) \/ OrderExecutes(c) \/ OrderRejected(c) \/ RejectionExits(c)
  \/ \E f \in Timers : CountCopiers(f) \/ WriteCopiers(f)
  \/ \E w \in Workers : WorkerStep(w)
  \/ FaultStep

Spec == Init /\ [][Next]_vars

(***************************************************************************)
(* Fairness: a waiting job gets a worker, awaits of a worker and of a      *)
(* copy's order return, BullMQ looks for stalled jobs, and the statistics  *)
(* are refreshed each hour. Strong where workers take from one another.    *)
(***************************************************************************)
Fairness ==
  /\ \A w \in Workers : WF_vars(WorkerStep(w))
  /\ \A j \in Jobs : /\ SF_vars(\E w \in Workers : TakeJob(w, j))
                     /\ WF_vars(Stalled(j))
  /\ \A c \in Copies : WF_vars(OrderExecutes(c) \/ OrderRejected(c) \/ RejectionExits(c))
  /\ \A f \in Timers : WF_vars(CountCopiers(f) \/ WriteCopiers(f))

FairSpec == Spec /\ Fairness

-----------------------------------------------------------------------------
TypeOK ==
  /\ enabled \in BOOLEAN
  /\ relation \in [Relations -> {"ACTIVE", "PAUSED", "STOPPED"}]
  /\ trade \in [Trades -> {"none", "OPEN", "CLOSED"}]
  /\ job \in [Jobs -> JobStates]
  /\ attempts \in [Jobs -> 0 .. MaxAttempts]
  /\ stalls \in [Jobs -> 0 .. MaxStalls + 1]
  /\ order \in [Copies -> OrderStates]
  /\ copy \in [Copies -> {"none", "OPEN", "CLOSED"}]
  /\ linked \in SUBSET Copies
  /\ settled \in [Copies -> 0 .. 2]
  /\ copiers \in 0 .. Cardinality(Relations)
  /\ worker \in [Workers -> [pc: PCs, job: Jobs \cup {Nothing}, todo: SUBSET Relations,
                            on: Copies \cup {Nothing}, read: Nat]]
  /\ count \in [Timers -> Nat \cup {NoCount}]
  /\ faults \in 0 .. MaxFaults
  /\ changes \in 0 .. MaxChanges

\* The fee of a copy is settled once at most, and not before the copy is
\* closed, whichever jobs are tried again and whoever closes it as well.
FeeOnceAndAfterClose ==
  \A c \in Copies : settled[c] > 0 => settled[c] = 1 /\ copy[c] = "CLOSED"

\* Linked copies exceed what the relation allocated by no more than the margin
\* of one copy for each other worker: each compares with what it read.
OvershootIsBounded ==
  \A r \in Relations :
    Exposure(r) <= Allocated[r] + (Cardinality(Workers) - 1) * Max({Margin[t] : t \in Trades})

\* What jobs, retries and restarts keep of the copies and of what they cost.
CopiesAreKept == TypeOK /\ FeeOnceAndAfterClose /\ OvershootIsBounded

\* A close that waits in the queue reaches every copy linked by then, across
\* failed jobs and restarts, or its job is shown as failed; unless the close of
\* the copy throws, which nobody tries again.
WaitingCloseReachesCopies ==
  \A c \in Copies :
    (job[<<c[1], "close">>] = "waiting" /\ c \in linked /\ copy[c] = "OPEN")
      ~> (copy[c] = "CLOSED" \/ job[<<c[1], "close">>] = "failed" \/ Swallowed)

\* Refreshes that overtake one another leave a stale number of copiers, but not
\* for good.
CopiersAreCounted == []<>(copiers = Cardinality(Active))

-----------------------------------------------------------------------------
(***************************************************************************)
(* Values for TLC: every copy needs a margin of 1, and a relation          *)
(* allocated 1, so that a second copy does not fit.                        *)
(***************************************************************************)
UnitMargin == [t \in Trades |-> 1]
OneCopy    == [r \in Relations |-> 1]

CopySymmetry == Permutations(Trades) \cup Permutations(Workers)
=============================================================================
