---------------------------- MODULE EarningsProofs ----------------------------
(***************************************************************************)
(* Theorems about what users earn from the trades of others, for any       *)
(* constants: a provider's fee from those who copy (CopyTrading), and an   *)
(* affiliate's commissions from those who were referred (Affiliates).      *)
(***************************************************************************)
EXTENDS CopyTrading, Affiliates, SumProofs

(***************************************************************************)
(* CopyTrading: what jobs, retries and restarts keep of the copies, of     *)
(* their fees and of what was allocated to them.                           *)
(*                                                                         *)
(* A job is held by one worker at most, and two workers that close have    *)
(* different trades in hand: a fee is settled once. The overshoot of an    *)
(* allocation is bounded by counting, next to the copies that are linked,  *)
(* the workers that compared and have yet to link.                         *)
(***************************************************************************)
Hand == [pc: PCs, job: Jobs \cup {Nothing}, todo: SUBSET Relations,
         on: Copies \cup {Nothing}, read: Nat]

-----------------------------------------------------------------------------
\* A trade is announced when it is opened and when it is closed.
Announced ==
  /\ \A t \in Trades : trade[t] = "none" => job[<<t, "open">>] = "none"
  /\ \A t \in Trades : trade[t] # "CLOSED" => job[<<t, "close">>] = "none"

\* A worker's job is active, and nobody else's.
HeldByOne ==
  /\ \A w \in Workers : worker[w].job # Nothing => job[worker[w].job] = "active"
  /\ \A v, w \in Workers : worker[v].job = worker[w].job /\ worker[w].job # Nothing => v = w

\* Where a worker is tells the kind of its job, and the copy in its hand.
AtPlace(w) ==
  /\ worker[w].pc # "idle" => worker[w].job # Nothing
  /\ worker[w].pc \in {"list", "exposure", "start", "await", "link"} => worker[w].job[2] = "open"
  /\ worker[w].pc \in {"find", "close", "commit", "settle", "write"} => worker[w].job[2] = "close"
  /\ worker[w].pc \in {"start", "await", "link", "commit", "settle"} =>
       worker[w].on # Nothing /\ worker[w].on[1] = worker[w].job[1]
  /\ worker[w].pc \in {"link", "commit", "settle"} => order[worker[w].on] = "EXECUTED"
  /\ worker[w].pc \in {"commit", "settle"} => settled[worker[w].on] = 0
  /\ worker[w].pc = "settle" => copy[worker[w].on] = "CLOSED"
  /\ worker[w].pc = "write" => worker[w].read <= Cardinality(Relations)

AtWork == \A w \in Workers : AtPlace(w)

\* A copy exists, and is linked, only when its order was executed.
ExistsIfExecuted ==
  \A c \in Copies : copy[c] # "none" \/ c \in linked => order[c] = "EXECUTED"

\* A job that may still run has attempts left, and may be found stalled.
MayRun ==
  \A j \in Jobs : job[j] \in {"none", "waiting", "active"} =>
                    attempts[j] < MaxAttempts /\ stalls[j] <= MaxStalls

CountedAreRelations == \A f \in Timers : count[f] <= Cardinality(Relations)

-----------------------------------------------------------------------------
Heaviest == Max({Margin[t] : t \in Trades})
Limit(r) == Allocated[r] + (Cardinality(Workers) - 1) * Heaviest

\* Workers that found room for a copy of the relation and have not linked it
PendingOn(w, r) ==
  /\ worker[w].pc \in {"start", "await", "link"}
  /\ worker[w].on[2] = r
  /\ Fits(w)

Pending(r) == {w \in Workers : PendingOn(w, r)}

\* An order is awaited if it fits.
AwaitedFits == \A w \in Workers : worker[w].pc \in {"await", "link"} => Fits(w)

\* What the worker is about to link
Needs(w) == Margin[worker[w].on[1]]

\* If every pending worker linked a copy of the heaviest trade, but the one
\* that compared last its own, the limit would not be exceeded.
RoomFor(r, spared) == Exposure(r) + Cardinality(Pending(r)) * Heaviest <= Limit(r) + spared

RoomLeft(r) == RoomFor(r, 0) \/ \E w \in Pending(r) : RoomFor(r, Heaviest - Needs(w))

RoomIsLeft == \A r \in Relations : RoomLeft(r)

IInv ==
  /\ TypeOK
  /\ Announced
  /\ HeldByOne
  /\ AtWork
  /\ ExistsIfExecuted
  /\ MayRun
  /\ CountedAreRelations
  /\ FeeOnceAndAfterClose
  /\ AwaitedFits
  /\ RoomIsLeft

-----------------------------------------------------------------------------
(***************************************************************************)
(* The steps: of nobody in particular, of a worker, and the ends of the    *)
(* process                                                                 *)
(***************************************************************************)
OutsideStep ==
  \/ \E t \in Trades : OpenTrade(t) \/ CloseTrade(t)
  \/ \E j \in Jobs : Stalled(j)
  \/ \E r \in Relations : StartCopying(r) \/ UpdateCopyRelation(r) \/ StopCopying(r)
  \/ ToggleCopying
  \/ \E c \in Copies : CloseCopy(c) \/ OrderExecutes(c) \/ OrderRejected(c)
  \/ \E f \in Timers : CountCopiers(f) \/ WriteCopiers(f)

HandStep(w) ==
  \/ \E j \in Jobs : TakeJob(w, j)
  \/ WorkerStep(w) /\ ~RowExits(w)
  \/ FailJob(w) \/ SkipRelation(w) \/ LinkFails(w) \/ CloseFails(w)

EndStep ==
  \/ Crash
  \/ \E c \in Copies : RejectionExits(c)
  \/ \E w \in Workers : RowExits(w)

LEMMA NextSteps == Next => OutsideStep \/ (\E w \in Workers : HandStep(w)) \/ EndStep
BY DEF Next, FaultStep, WorkerStep, OutsideStep, HandStep, EndStep

-----------------------------------------------------------------------------
(***************************************************************************)
(* Types                                                                   *)
(***************************************************************************)
LEMMA FewActive ==
  ASSUME TypeOK
  PROVE  /\ IsFiniteSet(Active) /\ Cardinality(Active) \in 0 .. Cardinality(Relations)
         /\ Cardinality(Active) \in Nat /\ Cardinality(Relations) \in Nat
BY FS_Subset, FS_CardinalityType, MarginAssumption DEF Active

\* What the sums and the maximum of margins are, over trades that are linked.
LEMMA ExposureIsSum ==
  ASSUME NEW r
  PROVE  Exposure(r) = SumOver(Margin, LinkedOpen(r))
BY SumIsSumOver DEF Exposure

LEMMA ExposureType ==
  ASSUME NEW r
  PROVE  Exposure(r) \in Nat
<1>1. LinkedOpen(r) \subseteq Trades /\ IsFiniteSet(LinkedOpen(r))
  BY FS_Subset, MarginAssumption DEF LinkedOpen
<1>2. \A t \in LinkedOpen(r) : Margin[t] \in Nat
  BY <1>1, MarginAssumption
<1> QED BY <1>1, <1>2, ExposureIsSum, SumIsNat

LEMMA HandType ==
  ASSUME TypeOK, NEW w \in Workers
  PROVE  /\ worker[w] \in Hand
         /\ worker[w].pc \in PCs /\ worker[w].job \in Jobs \cup {Nothing}
         /\ worker[w].todo \in SUBSET Relations
         /\ worker[w].on \in Copies \cup {Nothing} /\ worker[w].read \in Nat
         /\ worker[w] = [pc |-> worker[w].pc, job |-> worker[w].job, todo |-> worker[w].todo,
                         on |-> worker[w].on, read |-> worker[w].read]
BY DEF TypeOK, Hand

LEMMA InHand ==
  ASSUME TypeOK, NEW w \in Workers, NEW h \in Hand, Becomes(w, h)
  PROVE  worker' \in [Workers -> Hand]
BY DEF TypeOK, Hand, Becomes

LEMMA IdleType == Idle \in Hand
BY DEF Idle, Hand, PCs

\* The places a worker that goes on reaches
LEMMA OnwardType ==
  ASSUME TypeOK, NEW w \in Workers, NEW label \in PCs, Goto(w, label) \/ Resume(w, label)
  PROVE  worker' \in [Workers -> Hand]
<1>1. [worker[w] EXCEPT !.pc = label] \in Hand
  BY HandType DEF Hand
<1>2. [worker[w] EXCEPT !.pc = label, !.on = Nothing, !.read = 0] \in Hand
  BY HandType DEF Hand
<1>3. CASE Goto(w, label)  BY <1>1, <1>3, InHand DEF Goto
<1>4. CASE Resume(w, label)  BY <1>2, <1>4, InHand DEF Resume
<1> QED BY <1>3, <1>4

LEMMA HandChange ==
  ASSUME TypeOK, NEW w \in Workers, NEW h \in Hand
  PROVE  [worker EXCEPT ![w] = h] \in [Workers -> Hand]
BY DEF TypeOK, Hand

\* Who works, and at what
LEMMA Pair ==
  ASSUME NEW A, NEW B, NEW p \in A \X B
  PROVE  p = <<p[1], p[2]>> /\ p[1] \in A /\ p[2] \in B
OBVIOUS

LEMMA SomethingIsPair == Nothing \notin Jobs /\ Nothing \notin Copies
BY DEF Nothing, Jobs, Copies

LEMMA JobType ==
  ASSUME TypeOK, AtWork, HeldByOne, NEW w \in Workers, worker[w].pc # "idle"
  PROVE  /\ worker[w].job \in Jobs /\ job[worker[w].job] = "active"
         /\ worker[w].job = <<worker[w].job[1], worker[w].job[2]>>
         /\ worker[w].job[1] \in Trades /\ worker[w].job[2] \in Kinds
<1>1. worker[w].job \in Jobs /\ job[worker[w].job] = "active"
  BY HandType DEF AtWork, AtPlace, HeldByOne
<1> QED BY <1>1, Pair DEF Jobs

LEMMA OnType ==
  ASSUME TypeOK, AtWork, HeldByOne, NEW w \in Workers,
         worker[w].pc \in {"start", "await", "link", "commit", "settle"}
  PROVE  /\ worker[w].on \in Copies
         /\ worker[w].on = <<worker[w].job[1], worker[w].on[2]>>
         /\ worker[w].on[1] \in Trades /\ worker[w].on[2] \in Relations
<1>1. worker[w].on \in Copies /\ worker[w].on[1] = worker[w].job[1]
  BY HandType DEF AtWork, AtPlace
<1> QED BY <1>1, Pair DEF Copies

LEMMA InitTyped == Init => TypeOK
<1> SUFFICES ASSUME Init PROVE TypeOK
  OBVIOUS
<1>1. Active \in SUBSET Relations /\ Active = {r \in Relations : relation[r] = "ACTIVE"}
  BY DEF Active
<1>2. Cardinality(Active) \in 0 .. Cardinality(Relations)
  BY <1>1, FS_Subset, FS_CardinalityType, MarginAssumption
<1>3. copiers \in 0 .. Cardinality(Relations)
  BY <1>1, <1>2 DEF Init
<1>4. worker \in [Workers -> Hand]
  BY IdleType DEF Init
<1> QED BY <1>3, <1>4, BoundsAssumption
       DEF Init, TypeOK, Hand, JobStates, OrderStates, Nothing, NoCount

-----------------------------------------------------------------------------
(***************************************************************************)
(* Types are kept: first what changes no worker, then what a worker does   *)
(***************************************************************************)
LEMMA AnnouncedType ==
  ASSUME TypeOK, NEW j, (Announce(j) /\ UNCHANGED bounds) \/ AnnounceFails
  PROVE  job' \in [Jobs -> JobStates] /\ faults' \in 0 .. MaxFaults /\ changes' = changes
<1>1. CASE Announce(j) /\ UNCHANGED bounds
  BY <1>1 DEF TypeOK, Announce, JobStates, bounds
<1>2. CASE AnnounceFails
  BY <1>2, BoundsAssumption DEF TypeOK, AnnounceFails, OneFault
<1> QED BY <1>1, <1>2

LEMMA TypeOutside ==
  ASSUME TypeOK, MayRun, OutsideStep
  PROVE  TypeOK' \/ \E f \in Timers : WriteCopiers(f)
<1> USE DEF shared, queue, mirror, bounds
<1>1. ASSUME NEW t \in Trades, OpenTrade(t) \/ CloseTrade(t) PROVE TypeOK'
  <2>1. job' \in [Jobs -> JobStates] /\ faults' \in 0 .. MaxFaults /\ changes' = changes
    BY <1>1, AnnouncedType DEF OpenTrade, CloseTrade
  <2>2. trade' \in [Trades -> {"none", "OPEN", "CLOSED"}]
    BY <1>1 DEF TypeOK, OpenTrade, CloseTrade
  <2> QED BY <1>1, <2>1, <2>2 DEF TypeOK, OpenTrade, CloseTrade
<1>3. ASSUME NEW j \in Jobs, Stalled(j) PROVE TypeOK'
  <2>1. stalls[j] \in 0 .. MaxStalls + 1 /\ stalls[j] <= MaxStalls
    BY <1>3 DEF TypeOK, MayRun, Stalled
  <2>2. stalls[j] + 1 \in 0 .. MaxStalls + 1
    BY <2>1, BoundsAssumption
  <2> QED BY <1>3, <2>2 DEF TypeOK, Stalled, JobStates
<1>4. ASSUME NEW r \in Relations, NEW s \in {"ACTIVE", "PAUSED", "STOPPED"}, SetRelation(r, s)
      PROVE  TypeOK'
  BY <1>4, BoundsAssumption DEF TypeOK, SetRelation, OneChange
<1>5. ASSUME NEW r \in Relations, StartCopying(r) \/ UpdateCopyRelation(r) \/ StopCopying(r)
      PROVE  TypeOK'
  BY <1>4, <1>5 DEF StartCopying, UpdateCopyRelation, StopCopying
<1>6. ASSUME ToggleCopying PROVE TypeOK'
  BY <1>6, BoundsAssumption DEF TypeOK, ToggleCopying, OneChange
<1>7. ASSUME NEW c \in Copies, CloseCopy(c) PROVE TypeOK'
  BY <1>7, BoundsAssumption DEF TypeOK, CloseCopy, OneChange
<1>8. ASSUME NEW c \in Copies, OrderExecutes(c) \/ OrderRejected(c) PROVE TypeOK'
  BY <1>8 DEF TypeOK, OrderExecutes, OrderRejected, OrderStates
<1>9. ASSUME NEW f \in Timers, CountCopiers(f) PROVE TypeOK'
  BY <1>9, FewActive DEF TypeOK, CountCopiers
<1> QED BY <1>1, <1>3, <1>5, <1>6, <1>7, <1>8, <1>9 DEF OutsideStep

LEMMA TypeCount ==
  ASSUME TypeOK, CountedAreRelations, NEW f \in Timers, WriteCopiers(f)
  PROVE  TypeOK'
<1>1. count[f] \in Nat /\ count[f] <= Cardinality(Relations)
  BY DEF TypeOK, CountedAreRelations, WriteCopiers
<1>2. count[f] \in 0 .. Cardinality(Relations)
  BY <1>1, FewActive
<1> QED BY <1>2 DEF TypeOK, WriteCopiers, shared, queue, mirror, bounds, NoCount

LEMMA TypeWorker ==
  ASSUME TypeOK, AtWork, HeldByOne, MayRun, NEW w \in Workers, HandStep(w)
  PROVE  TypeOK'
<1> USE DEF shared, queue, mirror, bounds
<1>h. worker' \in [Workers -> Hand]
  <2>1. ASSUME NEW j \in Jobs, TakeJob(w, j) PROVE worker' \in [Workers -> Hand]
    <3>1. [Idle EXCEPT !.pc = "load", !.job = j] \in Hand
      BY DEF Idle, Hand, PCs
    <3> QED BY <2>1, <3>1, InHand DEF TakeJob
  <2>2. ASSUME NEW label \in PCs, Goto(w, label) \/ Resume(w, label)
        PROVE  worker' \in [Workers -> Hand]
    BY <2>2, OnwardType
  <2>3. CASE Load(w) \/ StartOrder(w) \/ HearsOfOrder(w) \/ Link(w) \/ LinkFails(w)
             \/ CommitClose(w) \/ Settle(w) \/ CloseFails(w) \/ WriteStats(w)
    <3>1. \E label \in PCs : Goto(w, label) \/ Resume(w, label)
      BY <2>3 DEF PCs, Load, StartOrder, HearsOfOrder, Link, LinkFails, CommitClose, Settle,
                  CloseFails, WriteStats
    <3> QED BY <2>2, <3>1
  <2>4. CASE CompleteJob(w) \/ FailJob(w)
    BY <2>4, IdleType, InHand DEF CompleteJob, FailJob
  <2>5. CASE ListRelations(w)
    <3>1. [worker[w] EXCEPT !.pc = "exposure", !.todo = Active] \in Hand
      BY HandType DEF Hand, PCs, Active
    <3> QED BY <2>5, <3>1, InHand DEF ListRelations
  <2>6. CASE ReadExposure(w)
    <3>1. PICK r \in worker[w].todo :
            Becomes(w, [worker[w] EXCEPT !.pc = "start", !.todo = @ \ {r},
                          !.on = <<worker[w].job[1], r>>, !.read = Exposure(r)])
      BY <2>6 DEF ReadExposure
    <3>2. worker[w].pc # "idle"
      BY <2>6 DEF ReadExposure
    <3>3. <<worker[w].job[1], r>> \in Copies /\ Exposure(r) \in Nat
      BY <3>2, JobType, HandType, ExposureType DEF Copies
    <3>4. [worker[w] EXCEPT !.pc = "start", !.todo = @ \ {r},
                          !.on = <<worker[w].job[1], r>>, !.read = Exposure(r)] \in Hand
      BY <3>3, HandType DEF Hand, PCs
    <3> QED BY <3>1, <3>4, InHand
  <2>7. CASE SkipRelation(w)
    <3>1. \A r : [worker[w] EXCEPT !.todo = @ \ {r}] \in Hand
      BY HandType DEF Hand
    <3> QED BY <2>7, <3>1, InHand DEF SkipRelation
  <2>8. CASE FindCopies(w)
    <3>1. [worker[w] EXCEPT !.pc = "close",
              !.todo = {r \in Relations : worker[w].job[1] \in LinkedOpen(r)}] \in Hand
      BY HandType DEF Hand, PCs
    <3> QED BY <2>8, <3>1, InHand DEF FindCopies
  <2>9. CASE ReadCopy(w)
    <3>1. worker[w].pc # "idle"
      BY <2>9 DEF ReadCopy
    <3>2. PICK r \in worker[w].todo :
            Becomes(w, IF copy[<<worker[w].job[1], r>>] = "OPEN"
                       THEN [worker[w] EXCEPT !.todo = @ \ {r}, !.pc = "commit",
                               !.on = <<worker[w].job[1], r>>]
                       ELSE [worker[w] EXCEPT !.todo = @ \ {r}])
      BY <2>9 DEF ReadCopy
    <3>3. <<worker[w].job[1], r>> \in Copies
      BY <3>1, JobType, HandType DEF Copies
    <3>4. /\ [worker[w] EXCEPT !.todo = @ \ {r}, !.pc = "commit",
                !.on = <<worker[w].job[1], r>>] \in Hand
          /\ [worker[w] EXCEPT !.todo = @ \ {r}] \in Hand
      BY <3>3, HandType DEF Hand, PCs
    <3> QED BY <3>2, <3>4, InHand
  <2>10. CASE ReadStats(w)
    <3>1. [worker[w] EXCEPT !.pc = "write", !.read = Cardinality(Active)] \in Hand
      BY HandType, FewActive DEF Hand, PCs
    <3> QED BY <2>10, <3>1, InHand DEF ReadStats
  <2> QED BY <2>1, <2>3, <2>4, <2>5, <2>6, <2>7, <2>8, <2>9, <2>10 DEF HandStep, WorkerStep
<1>k. worker' \in [Workers -> [pc: PCs, job: Jobs \cup {Nothing}, todo: SUBSET Relations,
                              on: Copies \cup {Nothing}, read: Nat]]
  BY <1>h DEF Hand
<1>1. ASSUME NEW j \in Jobs, TakeJob(w, j) PROVE TypeOK'
  BY <1>1, <1>k DEF TypeOK, TakeJob, JobStates
<1>2. CASE Load(w) \/ ListRelations(w) \/ ReadExposure(w) \/ HearsOfOrder(w)
           \/ FindCopies(w) \/ ReadCopy(w) \/ ReadStats(w)
  BY <1>2, <1>k DEF TypeOK, Load, ListRelations, ReadExposure, HearsOfOrder, FindCopies,
                    ReadCopy, ReadStats
<1>3. CASE SkipRelation(w) \/ LinkFails(w) \/ CloseFails(w)
  BY <1>3, <1>k, BoundsAssumption
     DEF TypeOK, SkipRelation, LinkFails, CloseFails, OneFault
<1>4. CASE CompleteJob(w)
  BY <1>4, <1>k DEF TypeOK, CompleteJob, JobStates
<1>5. CASE FailJob(w)
  <2>1. worker[w].job \in Jobs /\ job[worker[w].job] = "active"
    BY <1>5, JobType DEF FailJob
  <2>2. attempts[worker[w].job] + 1 \in 0 .. MaxAttempts
    BY <2>1, BoundsAssumption DEF TypeOK, MayRun
  <2> QED BY <1>5, <1>k, <2>1, <2>2, BoundsAssumption DEF TypeOK, FailJob, OneFault, JobStates
<1>6. CASE StartOrder(w)
  BY <1>6, <1>k DEF TypeOK, StartOrder, OrderStates
<1>7. CASE Link(w)
  <2>1. worker[w].on \in Copies
    BY <1>7, OnType DEF Link
  <2> QED BY <1>7, <1>k, <2>1 DEF TypeOK, Link
<1>8. CASE CommitClose(w)
  BY <1>8, <1>k DEF TypeOK, CommitClose
<1>9. CASE Settle(w)
  <2>1. worker[w].on \in Copies
    BY <1>9, OnType DEF Settle
  <2>2. settled' \in [Copies -> 0 .. 2]
    BY <1>9, <2>1 DEF TypeOK, Settle, Settled
  <2> QED BY <1>9, <1>k, <2>2 DEF TypeOK, Settle
<1>10. CASE WriteStats(w)
  <2>1. worker[w].read \in 0 .. Cardinality(Relations)
    <3>1. worker[w].pc = "write"
      BY <1>10 DEF WriteStats
    <3>2. worker[w].read <= Cardinality(Relations)
      BY <3>1 DEF AtWork, AtPlace
    <3>3. worker[w].read \in Nat /\ Cardinality(Relations) \in Nat
      BY HandType, FewActive
    <3> QED BY <3>2, <3>3
  <2>2. copiers' \in 0 .. Cardinality(Relations)
    BY <1>10, <2>1 DEF WriteStats
  <2> QED BY <1>10, <1>k, <2>2 DEF TypeOK, WriteStats
<1> QED BY <1>1, <1>2, <1>3, <1>4, <1>5, <1>6, <1>7, <1>8, <1>9, <1>10 DEF HandStep, WorkerStep

LEMMA TypeEnd ==
  ASSUME TypeOK, EndStep
  PROVE  TypeOK'
<1> USE DEF EndStep, shared, queue, mirror, bounds
<1>1. worker' \in [Workers -> Hand] /\ count' \in [Timers -> Nat \cup {NoCount}]
  BY IdleType DEF Crash, RejectionExits, RowExits, Exit, Restart
<1>2. order' \in [Copies -> OrderStates]
  BY DEF TypeOK, Crash, RejectionExits, RowExits, Exit, OrderStates
<1>3. CASE Crash
  BY <1>1, <1>2, <1>3, BoundsAssumption DEF TypeOK, Crash, OneFault, Hand
<1>4. CASE ~Crash
  BY <1>1, <1>2, <1>4 DEF TypeOK, RejectionExits, RowExits, Exit, Hand
<1> QED BY <1>3, <1>4

LEMMA TypeStep == IInv /\ Next => TypeOK'
BY NextSteps, TypeOutside, TypeCount, TypeWorker, TypeEnd DEF IInv

-----------------------------------------------------------------------------
(***************************************************************************)
(* Jobs: announced once, held by one, and with attempts left               *)
(***************************************************************************)
\* How a step changes the jobs: announces one, or moves one that was announced.
JobMoves ==
  \/ UNCHANGED <<job, trade>>
  \/ \E t \in Trades : \/ /\ trade[t] = "none" /\ trade' = [trade EXCEPT ![t] = "OPEN"]
                          /\ job' \in {job, [job EXCEPT ![<<t, "open">>] = "waiting"]}
                       \/ /\ trade[t] = "OPEN" /\ trade' = [trade EXCEPT ![t] = "CLOSED"]
                          /\ job' \in {job, [job EXCEPT ![<<t, "close">>] = "waiting"]}
  \/ /\ UNCHANGED trade
     /\ \E j \in Jobs, s \in JobStates : job[j] # "none" /\ job' = [job EXCEPT ![j] = s]

LEMMA StepMovesJobs == IInv /\ Next => JobMoves
<1> SUFFICES ASSUME IInv, Next PROVE JobMoves
  OBVIOUS
<1> USE DEF shared, queue
<1>1. CASE OutsideStep
  <2>1. CASE \E t \in Trades : OpenTrade(t) \/ CloseTrade(t)
    BY <2>1 DEF OpenTrade, CloseTrade, Announce, AnnounceFails, JobMoves
  <2>2. CASE \E j \in Jobs : Stalled(j)
    BY <2>2 DEF Stalled, JobMoves, JobStates
  <2> QED
    BY <1>1, <2>1, <2>2 DEF OutsideStep, JobMoves, StartCopying, UpdateCopyRelation, StopCopying,
         SetRelation, ToggleCopying, CloseCopy, OrderExecutes, OrderRejected, CountCopiers,
         WriteCopiers
<1>2. ASSUME NEW w \in Workers, HandStep(w) PROVE JobMoves
  <2>1. ASSUME NEW j \in Jobs, TakeJob(w, j) PROVE JobMoves
    BY <2>1 DEF TakeJob, JobMoves, JobStates
  <2>2. CASE CompleteJob(w) \/ FailJob(w)
    <3>1. worker[w].job \in Jobs /\ job[worker[w].job] = "active"
      BY <2>2, JobType DEF IInv, CompleteJob, FailJob
    <3> QED BY <2>2, <3>1 DEF CompleteJob, FailJob, JobMoves, JobStates
  <2> QED
    BY <1>2, <2>1, <2>2 DEF HandStep, WorkerStep, JobMoves, Load, ListRelations, ReadExposure,
         SkipRelation, StartOrder, HearsOfOrder, Link, LinkFails, FindCopies, ReadCopy,
         CommitClose, Settle, CloseFails, ReadStats, WriteStats
<1>3. CASE EndStep
  BY <1>3 DEF EndStep, Crash, RejectionExits, RowExits, Exit, JobMoves
<1> QED BY <1>1, <1>2, <1>3, NextSteps

LEMMA AnnouncedStep == IInv /\ Next => Announced'
<1> SUFFICES ASSUME IInv, JobMoves PROVE Announced'
  BY StepMovesJobs
<1>1. \A t \in Trades : <<t, "open">> \in Jobs /\ <<t, "close">> \in Jobs
  BY DEF Jobs, Kinds
<1>2. TypeOK /\ Announced
  BY DEF IInv
<1>3. CASE UNCHANGED <<job, trade>>
  BY <1>2, <1>3 DEF Announced
<1>4. ASSUME NEW t \in Trades, trade[t] = "none", trade' = [trade EXCEPT ![t] = "OPEN"],
             job' \in {job, [job EXCEPT ![<<t, "open">>] = "waiting"]}
      PROVE  Announced'
  BY <1>1, <1>2, <1>4 DEF Announced, TypeOK
<1>5. ASSUME NEW t \in Trades, trade[t] = "OPEN", trade' = [trade EXCEPT ![t] = "CLOSED"],
             job' \in {job, [job EXCEPT ![<<t, "close">>] = "waiting"]}
      PROVE  Announced'
  <2>1. \A u \in Trades : trade[u] = "none" => u # t
    BY <1>5
  <2>2. \A u \in Trades : job'[<<u, "open">>] = job[<<u, "open">>]
    BY <1>1, <1>2, <1>5 DEF TypeOK
  <2>3. \A u \in Trades : u # t => job'[<<u, "close">>] = job[<<u, "close">>] /\ trade'[u] = trade[u]
    BY <1>1, <1>2, <1>5 DEF TypeOK
  <2>4. trade'[t] = "CLOSED"
    BY <1>2, <1>5 DEF TypeOK
  <2> QED BY <1>2, <2>1, <2>2, <2>3, <2>4 DEF Announced
<1>6. ASSUME UNCHANGED trade, NEW j \in Jobs, NEW x \in JobStates, job[j] # "none",
             job' = [job EXCEPT ![j] = x]
      PROVE  Announced'
  BY <1>1, <1>2, <1>6 DEF Announced, TypeOK
<1> QED BY <1>3, <1>4, <1>5, <1>6 DEF JobMoves

\* What a worker does between taking a job and giving it back leaves the job alone.
LEMMA GoesOn ==
  ASSUME TypeOK, NEW w \in Workers, HandStep(w),
         ~(CompleteJob(w) \/ FailJob(w)), ~\E j \in Jobs : TakeJob(w, j)
  PROVE  UNCHANGED job /\ \E h : Becomes(w, h) /\ h.job = worker[w].job
<1> USE DEF shared, queue, mirror
<1>h. worker[w] \in Hand
  BY HandType
<1>1. ASSUME NEW label, Goto(w, label) \/ Resume(w, label)
      PROVE  \E h : Becomes(w, h) /\ h.job = worker[w].job
  <2>1. [worker[w] EXCEPT !.pc = label].job = worker[w].job
    BY <1>h DEF Hand
  <2>2. [worker[w] EXCEPT !.pc = label, !.on = Nothing, !.read = 0].job = worker[w].job
    BY <1>h DEF Hand
  <2>3. CASE Goto(w, label)
    BY <2>1, <2>3 DEF Goto
  <2>4. CASE Resume(w, label)
    BY <2>2, <2>4 DEF Resume
  <2> QED BY <1>1, <2>3, <2>4
<1>2. CASE Load(w) \/ StartOrder(w) \/ HearsOfOrder(w) \/ Link(w) \/ LinkFails(w)
           \/ CommitClose(w) \/ Settle(w) \/ CloseFails(w) \/ WriteStats(w)
  <2>1. UNCHANGED job /\ \E label : Goto(w, label) \/ Resume(w, label)
    BY <1>2 DEF Load, StartOrder, HearsOfOrder, Link, LinkFails, CommitClose, Settle, CloseFails,
                WriteStats
  <2> QED BY <1>1, <2>1
<1>3. CASE ListRelations(w)
  <2>1. [worker[w] EXCEPT !.pc = "exposure", !.todo = Active].job = worker[w].job
    BY <1>h DEF Hand
  <2> QED BY <1>3, <2>1 DEF ListRelations
<1>4. CASE ReadExposure(w) \/ SkipRelation(w)
  <2>1. \A r : /\ [worker[w] EXCEPT !.pc = "start", !.todo = @ \ {r},
                      !.on = <<worker[w].job[1], r>>, !.read = Exposure(r)].job = worker[w].job
               /\ [worker[w] EXCEPT !.todo = @ \ {r}].job = worker[w].job
    BY <1>h DEF Hand
  <2> QED BY <1>4, <2>1 DEF ReadExposure, SkipRelation
<1>5. CASE FindCopies(w)
  <2>1. [worker[w] EXCEPT !.pc = "close",
           !.todo = {r \in Relations : worker[w].job[1] \in LinkedOpen(r)}].job = worker[w].job
    BY <1>h DEF Hand
  <2> QED BY <1>5, <2>1 DEF FindCopies
<1>6. CASE ReadCopy(w)
  <2>1. \A r, c : [worker[w] EXCEPT !.todo = @ \ {r}, !.pc = "commit", !.on = c].job = worker[w].job
    BY <1>h DEF Hand
  <2>2. \A r : [worker[w] EXCEPT !.todo = @ \ {r}].job = worker[w].job
    BY <1>h DEF Hand
  <2>3. UNCHANGED job
    BY <1>6 DEF ReadCopy
  <2>4. PICK r \in worker[w].todo :
          \/ Becomes(w, [worker[w] EXCEPT !.todo = @ \ {r}, !.pc = "commit",
                                          !.on = <<worker[w].job[1], r>>])
          \/ Becomes(w, [worker[w] EXCEPT !.todo = @ \ {r}])
    BY <1>6 DEF ReadCopy
  <2> QED BY <2>1, <2>2, <2>3, <2>4
<1>7. CASE ReadStats(w)
  <2>1. [worker[w] EXCEPT !.pc = "write", !.read = Cardinality(Active)].job = worker[w].job
    BY <1>h DEF Hand
  <2> QED BY <1>7, <2>1 DEF ReadStats
<1> QED BY <1>2, <1>3, <1>4, <1>5, <1>6, <1>7 DEF HandStep, WorkerStep

\* Whose job is whose: workers keep their jobs, one takes one, or gives it back.
LEMMA HeldStep == IInv /\ Next => HeldByOne'
<1> SUFFICES ASSUME IInv, Next PROVE HeldByOne'
  OBVIOUS
<1> USE DEF shared, queue
<1>1. TypeOK /\ HeldByOne /\ Announced
  BY DEF IInv
<1>t. worker \in [Workers -> Hand] /\ job \in [Jobs -> JobStates]
  BY <1>1 DEF TypeOK, Hand
<1>2. CASE OutsideStep
  <2>1. ASSUME \A j \in Jobs : job[j] = "active" => job'[j] = "active" \/ \A w \in Workers : worker[w].job # j,
               worker' = worker
        PROVE  HeldByOne'
    BY <1>1, <1>t, <2>1 DEF HeldByOne, Hand
  <2>2. worker' = worker
    BY <1>2 DEF OutsideStep, OpenTrade, CloseTrade, Stalled, StartCopying, UpdateCopyRelation,
         StopCopying, SetRelation, ToggleCopying, CloseCopy, OrderExecutes, OrderRejected,
         CountCopiers, WriteCopiers
  <2>3. CASE \E t \in Trades : OpenTrade(t) \/ CloseTrade(t)
    <3>1. PICK t \in Trades : OpenTrade(t) \/ CloseTrade(t)
      BY <2>3
    <3>2. <<t, "open">> \in Jobs /\ <<t, "close">> \in Jobs
      BY DEF Jobs, Kinds
    <3>3. \A j \in Jobs : job[j] = "active" => job'[j] = "active"
      BY <1>1, <1>t, <3>1, <3>2 DEF Announced, OpenTrade, CloseTrade, Announce, AnnounceFails
    <3> QED BY <2>1, <2>2, <3>3
  <2>4. CASE \E j \in Jobs : Stalled(j)
    BY <1>t, <2>1, <2>2, <2>4 DEF Stalled
  <2> QED
    BY <1>2, <2>1, <2>2, <2>3, <2>4 DEF OutsideStep, StartCopying, UpdateCopyRelation,
         StopCopying, SetRelation, ToggleCopying, CloseCopy, OrderExecutes, OrderRejected,
         CountCopiers, WriteCopiers
<1>3. ASSUME NEW w \in Workers, HandStep(w) PROVE HeldByOne'
  <2>1. ASSUME NEW j \in Jobs, TakeJob(w, j) PROVE HeldByOne'
    <3>1. \A v \in Workers : worker[v].job # j
      BY <1>1, <2>1 DEF HeldByOne, TakeJob, Jobs, Nothing
    <3>2. worker'[w].job = j /\ \A v \in Workers \ {w} : worker'[v] = worker[v]
      BY <1>t, <2>1 DEF TakeJob, Becomes, Idle
    <3>3. job'[j] = "active" /\ \A i \in Jobs \ {j} : job'[i] = job[i]
      BY <1>t, <2>1 DEF TakeJob
    <3> QED BY <1>1, <1>t, <3>1, <3>2, <3>3 DEF HeldByOne, Hand
  <2>2. CASE CompleteJob(w) \/ FailJob(w)
    <3>1. worker[w].job \in Jobs
      BY <2>2, JobType DEF IInv, CompleteJob, FailJob
    <3>2. worker'[w].job = Nothing /\ \A v \in Workers \ {w} : worker'[v] = worker[v]
      BY <1>t, <2>2 DEF CompleteJob, FailJob, Becomes, Idle
    <3>3. \A i \in Jobs \ {worker[w].job} : job'[i] = job[i]
      BY <1>t, <2>2 DEF CompleteJob, FailJob
    <3>4. \A v \in Workers \ {w} : worker[v].job # worker[w].job
      BY <1>1, <3>1 DEF HeldByOne, Jobs, Nothing
    <3> QED BY <1>1, <1>t, <3>1, <3>2, <3>3, <3>4 DEF HeldByOne, Hand
  <2>3. CASE ~(CompleteJob(w) \/ FailJob(w)) /\ ~\E j \in Jobs : TakeJob(w, j)
    <3>1. job' = job /\ \E h : Becomes(w, h) /\ h.job = worker[w].job
      BY <1>1, <1>3, <2>3, GoesOn DEF HandStep
    <3>2. \A v \in Workers : worker'[v].job = worker[v].job
      BY <1>t, <3>1 DEF Becomes
    <3> QED BY <1>1, <3>1, <3>2 DEF HeldByOne
  <2> QED BY <2>1, <2>2, <2>3
<1>4. CASE EndStep
  <2>1. \A v \in Workers : worker'[v].job = Nothing
    BY <1>4 DEF EndStep, Crash, RejectionExits, RowExits, Exit, Restart, Idle
  <2> QED BY <2>1 DEF HeldByOne
<1> QED BY <1>2, <1>3, <1>4, NextSteps

LEMMA MayRunStep == IInv /\ Next => MayRun'
<1> SUFFICES ASSUME IInv, Next PROVE MayRun'
  OBVIOUS
<1>1. TypeOK /\ MayRun /\ Announced
  BY DEF IInv
<1>t. /\ job \in [Jobs -> JobStates] /\ attempts \in [Jobs -> 0 .. MaxAttempts]
      /\ stalls \in [Jobs -> 0 .. MaxStalls + 1] /\ MaxAttempts \in Nat /\ MaxStalls \in Nat
  BY <1>1, BoundsAssumption DEF TypeOK
<1>2. CASE UNCHANGED <<attempts, stalls>>
  <2>1. \A j \in Jobs : job'[j] \in {"none", "waiting", "active"} => job[j] \in {"none", "waiting", "active"}
    <3>1. CASE OutsideStep
      <4>1. CASE \E t \in Trades : OpenTrade(t) \/ CloseTrade(t)
        <5>1. PICK t \in Trades : OpenTrade(t) \/ CloseTrade(t)
          BY <4>1
        <5>2. <<t, "open">> \in Jobs /\ <<t, "close">> \in Jobs
          BY DEF Jobs, Kinds
        <5>3. CASE OpenTrade(t)
          BY <1>1, <1>t, <5>2, <5>3 DEF Announced, OpenTrade, Announce, AnnounceFails
        <5>4. CASE CloseTrade(t)
          BY <1>1, <1>t, <5>2, <5>4 DEF Announced, CloseTrade, Announce, AnnounceFails
        <5> QED BY <5>1, <5>3, <5>4
      <4>2. CASE \E j \in Jobs : Stalled(j)
        BY <1>t, <4>2 DEF Stalled
      <4> QED
        BY <3>1, <4>1, <4>2 DEF OutsideStep, StartCopying, UpdateCopyRelation, StopCopying,
             SetRelation, ToggleCopying, CloseCopy, OrderExecutes, OrderRejected, CountCopiers,
             WriteCopiers, queue
    <3>2. ASSUME NEW w \in Workers, HandStep(w)
          PROVE  \A j \in Jobs : job'[j] \in {"none", "waiting", "active"}
                                   => job[j] \in {"none", "waiting", "active"}
      <4>1. CASE CompleteJob(w) \/ FailJob(w)
        <5>1. worker[w].job \in Jobs /\ job[worker[w].job] = "active"
          BY <4>1, JobType DEF IInv, CompleteJob, FailJob
        <5> QED BY <1>t, <4>1, <5>1 DEF CompleteJob, FailJob
      <4>2. CASE \E j \in Jobs : TakeJob(w, j)
        BY <1>t, <4>2 DEF TakeJob
      <4> QED BY <1>1, <3>2, <4>1, <4>2, GoesOn
    <3>3. CASE EndStep
      BY <3>3 DEF EndStep, Crash, RejectionExits, RowExits, Exit, queue
    <3> QED BY <3>1, <3>2, <3>3, NextSteps
  <2> QED BY <1>1, <1>2, <2>1 DEF MayRun
<1>3. ASSUME NEW j \in Jobs, Stalled(j) PROVE MayRun'
  BY <1>1, <1>t, <1>3 DEF Stalled, MayRun
<1>4. ASSUME NEW w \in Workers, FailJob(w) PROVE MayRun'
  <2>1. worker[w].job \in Jobs /\ job[worker[w].job] = "active"
    BY <1>4, JobType DEF IInv, FailJob
  <2>2. PICK j \in Jobs : j = worker[w].job
    BY <2>1
  <2>3. /\ attempts' = [attempts EXCEPT ![j] = @ + 1] /\ stalls' = stalls
        /\ job' = [job EXCEPT ![j] = IF attempts[j] + 1 >= MaxAttempts THEN "failed" ELSE "waiting"]
    BY <1>4, <2>2 DEF FailJob
  <2> QED BY <1>1, <1>t, <2>1, <2>2, <2>3 DEF MayRun
<1>5. UNCHANGED <<attempts, stalls>> \/ (\E j \in Jobs : Stalled(j)) \/ \E w \in Workers : FailJob(w)
  <2>1. CASE OutsideStep
    BY <2>1 DEF OutsideStep, OpenTrade, CloseTrade, StartCopying, UpdateCopyRelation, StopCopying,
         SetRelation, ToggleCopying, CloseCopy, OrderExecutes, OrderRejected, CountCopiers,
         WriteCopiers, queue
  <2>2. ASSUME NEW w \in Workers, HandStep(w)
        PROVE  UNCHANGED <<attempts, stalls>> \/ FailJob(w)
    BY <2>2 DEF HandStep, WorkerStep, TakeJob, CompleteJob, Load, ListRelations, ReadExposure,
         SkipRelation, StartOrder, HearsOfOrder, Link, LinkFails, FindCopies, ReadCopy,
         CommitClose, Settle, CloseFails, ReadStats, WriteStats, queue
  <2>3. CASE EndStep
    BY <2>3 DEF EndStep, Crash, RejectionExits, RowExits, Exit, queue
  <2> QED BY <2>1, <2>2, <2>3, NextSteps
<1> QED BY <1>2, <1>3, <1>4, <1>5

LEMMA CountedStep == IInv /\ Next => CountedAreRelations'
<1> SUFFICES ASSUME IInv, Next PROVE CountedAreRelations'
  OBVIOUS
<1>1. TypeOK /\ CountedAreRelations
  BY DEF IInv
<1>t. count \in [Timers -> Nat \cup {NoCount}] /\ NoCount = -1
  BY <1>1 DEF TypeOK, NoCount
<1>c. Cardinality(Active) <= Cardinality(Relations) /\ Cardinality(Relations) \in Nat
  BY <1>1, FewActive
<1>2. ASSUME NEW f \in Timers, CountCopiers(f) PROVE CountedAreRelations'
  BY <1>1, <1>t, <1>c, <1>2 DEF CountCopiers, CountedAreRelations
<1>3. ASSUME NEW f \in Timers, WriteCopiers(f) PROVE CountedAreRelations'
  BY <1>1, <1>t, <1>c, <1>3 DEF WriteCopiers, CountedAreRelations
<1>4. CASE EndStep
  BY <1>c, <1>t, <1>4
     DEF EndStep, Crash, RejectionExits, RowExits, Exit, Restart, CountedAreRelations
<1>5. (\E f \in Timers : CountCopiers(f) \/ WriteCopiers(f)) \/ EndStep \/ UNCHANGED count
  <2>1. CASE OutsideStep
    BY <2>1 DEF OutsideStep, OpenTrade, CloseTrade, Stalled, StartCopying, UpdateCopyRelation,
         StopCopying, SetRelation, ToggleCopying, CloseCopy, OrderExecutes, OrderRejected
  <2>2. ASSUME NEW w \in Workers, HandStep(w) PROVE UNCHANGED count
    BY <2>2 DEF HandStep, WorkerStep, TakeJob, CompleteJob, FailJob, Load, ListRelations,
         ReadExposure, SkipRelation, StartOrder, HearsOfOrder, Link, LinkFails, FindCopies,
         ReadCopy, CommitClose, Settle, CloseFails, ReadStats, WriteStats
  <2> QED BY <2>1, <2>2, NextSteps
<1>6. CASE UNCHANGED count
  BY <1>1, <1>6 DEF CountedAreRelations
<1> QED BY <1>2, <1>3, <1>4, <1>5, <1>6

-----------------------------------------------------------------------------
(***************************************************************************)
(* Copies: what every step keeps of orders and of closed copies            *)
(***************************************************************************)
Kept ==
  /\ \A c \in Copies : order[c] = "EXECUTED" => order'[c] = "EXECUTED"
  /\ \A c \in Copies : copy[c] = "CLOSED" => copy'[c] = "CLOSED"

LEMMA StepKeeps == IInv /\ Next => Kept /\ ExistsIfExecuted'
<1> SUFFICES ASSUME IInv, Next PROVE Kept /\ ExistsIfExecuted'
  OBVIOUS
<1> USE DEF shared, queue, mirror
<1>1. TypeOK /\ ExistsIfExecuted
  BY DEF IInv
<1>t. order \in [Copies -> OrderStates] /\ copy \in [Copies -> {"none", "OPEN", "CLOSED"}]
  BY <1>1 DEF TypeOK
<1>2. ASSUME UNCHANGED <<order, copy, linked>> PROVE Kept /\ ExistsIfExecuted'
  BY <1>1, <1>2 DEF Kept, ExistsIfExecuted
<1>3. CASE OutsideStep
  <2>1. ASSUME NEW c \in Copies, CloseCopy(c) PROVE Kept /\ ExistsIfExecuted'
    BY <1>1, <1>t, <2>1 DEF CloseCopy, Kept, ExistsIfExecuted
  <2>2. ASSUME NEW c \in Copies, OrderExecutes(c) PROVE Kept /\ ExistsIfExecuted'
    BY <1>1, <1>t, <2>2 DEF OrderExecutes, Kept, ExistsIfExecuted
  <2>3. ASSUME NEW c \in Copies, OrderRejected(c) PROVE Kept /\ ExistsIfExecuted'
    BY <1>1, <1>t, <2>3 DEF OrderRejected, Kept, ExistsIfExecuted
  <2> QED
    BY <1>2, <1>3, <2>1, <2>2, <2>3 DEF OutsideStep, OpenTrade, CloseTrade, Stalled, StartCopying,
         UpdateCopyRelation, StopCopying, SetRelation, ToggleCopying, CountCopiers, WriteCopiers
<1>4. ASSUME NEW w \in Workers, HandStep(w) PROVE Kept /\ ExistsIfExecuted'
  <2>1. CASE StartOrder(w)
    BY <1>1, <1>t, <2>1 DEF StartOrder, Kept, ExistsIfExecuted
  <2>2. CASE Link(w)
    <3>1. order[worker[w].on] = "EXECUTED"
      BY <2>2 DEF IInv, AtWork, AtPlace, Link
    <3> QED BY <1>1, <1>t, <2>2, <3>1 DEF Link, Kept, ExistsIfExecuted
  <2>3. CASE CommitClose(w)
    <3>1. order[worker[w].on] = "EXECUTED"
      BY <2>3 DEF IInv, AtWork, AtPlace, CommitClose
    <3> QED BY <1>1, <1>t, <2>3, <3>1 DEF CommitClose, Kept, ExistsIfExecuted
  <2> QED
    BY <1>2, <1>4, <2>1, <2>2, <2>3 DEF HandStep, WorkerStep, TakeJob, CompleteJob, FailJob, Load,
         ListRelations, ReadExposure, SkipRelation, HearsOfOrder, LinkFails, FindCopies,
         ReadCopy, Settle, CloseFails, ReadStats, WriteStats
<1>5. CASE EndStep
  <2>1. copy' = copy /\ linked' = linked
    BY <1>5 DEF EndStep, Crash, RejectionExits, RowExits, Exit
  <2>2. \A c \in Copies : order[c] = "EXECUTED" => order'[c] = "EXECUTED"
    BY <1>t, <1>5 DEF EndStep, Crash, RejectionExits, RowExits, Exit
  <2> QED BY <1>1, <2>1, <2>2 DEF Kept, ExistsIfExecuted
<1> QED BY <1>3, <1>4, <1>5, NextSteps

\* Only a settlement settles, and only the copy in its worker's hand.
LEMMA OnlySettles ==
  ASSUME IInv, Next
  PROVE  UNCHANGED settled \/ \E w \in Workers : Settle(w)
<1> USE DEF mirror
<1>1. CASE OutsideStep
  BY <1>1 DEF OutsideStep, OpenTrade, CloseTrade, Stalled, StartCopying, UpdateCopyRelation,
       StopCopying, SetRelation, ToggleCopying, CloseCopy, OrderExecutes, OrderRejected,
       CountCopiers, WriteCopiers
<1>2. ASSUME NEW w \in Workers, HandStep(w) PROVE UNCHANGED settled \/ Settle(w)
  BY <1>2 DEF HandStep, WorkerStep, TakeJob, CompleteJob, FailJob, Load, ListRelations,
       ReadExposure, SkipRelation, StartOrder, HearsOfOrder, Link, LinkFails, FindCopies,
       ReadCopy, CommitClose, CloseFails, ReadStats, WriteStats
<1>3. CASE EndStep
  BY <1>3 DEF EndStep, Crash, RejectionExits, RowExits, Exit
<1> QED BY <1>1, <1>2, <1>3, NextSteps

LEMMA FeeStep == IInv /\ Next => FeeOnceAndAfterClose'
<1> SUFFICES ASSUME IInv, Next PROVE FeeOnceAndAfterClose'
  OBVIOUS
<1>1. TypeOK /\ FeeOnceAndAfterClose /\ Kept
  BY StepKeeps DEF IInv
<1>2. CASE UNCHANGED settled
  BY <1>1, <1>2 DEF FeeOnceAndAfterClose, Kept
<1>3. ASSUME NEW w \in Workers, Settle(w) PROVE FeeOnceAndAfterClose'
  <2>1. /\ worker[w].on \in Copies /\ settled[worker[w].on] = 0
        /\ copy[worker[w].on] = "CLOSED"
    BY <1>3, OnType DEF IInv, AtWork, AtPlace, Settle
  <2>2. PICK c \in Copies : c = worker[w].on
    BY <2>1
  <2>3. settled' = [settled EXCEPT ![c] = IF @ = 2 THEN 2 ELSE @ + 1] /\ copy' = copy
    BY <1>3, <2>2 DEF Settle, Settled
  <2> QED BY <1>1, <2>1, <2>2, <2>3 DEF FeeOnceAndAfterClose, TypeOK
<1> QED BY <1>2, <1>3, OnlySettles

-----------------------------------------------------------------------------
(***************************************************************************)
(* Where the workers are                                                   *)
(***************************************************************************)
\* Two workers have different jobs, so the copies they close differ.
LEMMA CloseApart ==
  ASSUME IInv, NEW v \in Workers, NEW w \in Workers,
         worker[v].pc \in {"commit", "settle"}, worker[w].pc \in {"commit", "settle"},
         worker[v].on = worker[w].on
  PROVE  v = w
<1>1. worker[v].job = worker[w].job /\ worker[v].job # Nothing
  <2>1. ASSUME NEW u \in Workers, worker[u].pc \in {"commit", "settle"}
        PROVE  worker[u].job = <<worker[u].on[1], "close">> /\ worker[u].job # Nothing
    BY <2>1, JobType, OnType DEF IInv, AtWork, AtPlace
  <2> QED BY <2>1
<1> QED BY <1>1 DEF IInv, HeldByOne

LEMMA StaysAtPlace ==
  ASSUME IInv, Next, NEW v \in Workers, worker'[v] = worker[v], ~Settle(v)
  PROVE  AtPlace(v)'
<1>1. AtPlace(v) /\ Kept /\ TypeOK
  BY StepKeeps DEF IInv, AtWork
<1>2. worker[v].pc \in {"link", "commit", "settle"} => order'[worker[v].on] = "EXECUTED"
  BY <1>1, OnType DEF IInv, AtPlace, Kept
<1>3. worker[v].pc = "settle" => copy'[worker[v].on] = "CLOSED"
  BY <1>1, OnType DEF IInv, AtPlace, Kept
<1>4. worker[v].pc \in {"commit", "settle"} => settled'[worker[v].on] = 0
  <2>1. CASE UNCHANGED settled
    BY <1>1, <2>1 DEF AtPlace
  <2>2. ASSUME NEW w \in Workers, Settle(w), worker[v].pc \in {"commit", "settle"}
        PROVE  settled'[worker[v].on] = 0
    <3>1. v # w /\ worker[w].pc = "settle"
      BY <2>2 DEF Settle
    <3>2. worker[v].on # worker[w].on
      BY <2>2, <3>1, CloseApart
    <3>3. worker[v].on \in Copies /\ settled[worker[v].on] = 0
      BY <1>1, <2>2, OnType DEF IInv, AtPlace
    <3>4. PICK c : c = worker[v].on
      OBVIOUS
    <3>5. PICK d : d = worker[w].on
      OBVIOUS
    <3>6. settled' = [settled EXCEPT ![d] = IF @ = 2 THEN 2 ELSE @ + 1]
      BY <2>2, <3>5 DEF Settle, Settled
    <3>7. settled'[c] = settled[c]
      BY <1>1, <3>2, <3>3, <3>4, <3>5, <3>6 DEF TypeOK
    <3> QED BY <3>3, <3>4, <3>7
  <2> QED BY <2>1, <2>2, OnlySettles
<1> QED BY <1>1, <1>2, <1>3, <1>4 DEF AtPlace

\* The worker that acts is where its place says.
LEMMA ArrivesAtPlace ==
  ASSUME IInv, Next, NEW w \in Workers, HandStep(w)
  PROVE  AtPlace(w)'
<1> USE DEF shared, queue, mirror
<1>1. AtPlace(w) /\ Kept /\ TypeOK /\ AtWork /\ HeldByOne
  BY StepKeeps DEF IInv, AtWork
<1>h. worker[w] \in Hand /\ worker \in [Workers -> Hand]
  BY <1>1, HandType DEF TypeOK, Hand
<1>a. \A h : Becomes(w, h) => worker'[w] = h
  BY <1>h DEF Becomes
<1>2. ASSUME NEW j \in Jobs, TakeJob(w, j) PROVE AtPlace(w)'
  <2>1. worker'[w] = [pc |-> "load", job |-> j, todo |-> {}, on |-> Nothing, read |-> 0]
    BY <1>2, <1>a DEF TakeJob, Idle
  <2>2. j # Nothing
    BY SomethingIsPair
  <2> QED BY <2>1, <2>2 DEF AtPlace
<1>3. CASE CompleteJob(w) \/ FailJob(w)
  <2>1. worker'[w] = Idle
    BY <1>3, <1>a DEF CompleteJob, FailJob
  <2> QED BY <2>1 DEF AtPlace, Idle
\* What going on leaves of the hand
<1>b. ASSUME NEW label, Goto(w, label)
      PROVE  /\ worker'[w].pc = label /\ worker'[w].job = worker[w].job
             /\ worker'[w].on = worker[w].on /\ worker'[w].read = worker[w].read
  <2>1. worker'[w] = [worker[w] EXCEPT !.pc = label]
    BY <1>a, <1>b DEF Goto
  <2> QED BY <1>h, <2>1 DEF Hand
<1>c. ASSUME NEW label, Resume(w, label)
      PROVE  worker'[w].pc = label /\ worker'[w].job = worker[w].job
  <2>1. worker'[w] = [worker[w] EXCEPT !.pc = label, !.on = Nothing, !.read = 0]
    BY <1>a, <1>c DEF Resume
  <2> QED BY <1>h, <2>1 DEF Hand
<1>4. CASE Load(w)
  <2>1. worker[w].job # Nothing /\ worker[w].job[2] \in {"open", "close"}
    BY <1>1, <1>4, JobType DEF Load, AtPlace, Kinds
  <2>2. \/ Goto(w, "list") /\ worker[w].job[2] = "open"
        \/ Goto(w, "find") /\ worker[w].job[2] = "close"
        \/ Goto(w, "done")
    BY <1>4, <2>1 DEF Load
  <2> QED BY <1>b, <2>1, <2>2 DEF AtPlace
<1>5. CASE ListRelations(w)
  <2>1. worker'[w] = [worker[w] EXCEPT !.pc = "exposure", !.todo = Active]
    BY <1>5, <1>a DEF ListRelations
  <2>2. worker'[w].pc = "exposure" /\ worker'[w].job = worker[w].job
    BY <1>h, <2>1 DEF Hand
  <2> QED BY <1>1, <1>5, <2>2 DEF AtPlace, ListRelations
<1>6. CASE ReadExposure(w)
  <2>1. PICK r : worker'[w] = [worker[w] EXCEPT !.pc = "start", !.todo = @ \ {r},
                                 !.on = <<worker[w].job[1], r>>, !.read = Exposure(r)]
    BY <1>6, <1>a DEF ReadExposure
  <2>2. /\ worker'[w].pc = "start" /\ worker'[w].job = worker[w].job
        /\ worker'[w].on = <<worker[w].job[1], r>>
    BY <1>h, <2>1 DEF Hand
  <2> QED BY <1>1, <1>6, <2>2 DEF AtPlace, ReadExposure, Nothing
<1>7. CASE SkipRelation(w)
  <2>1. PICK r : worker'[w] = [worker[w] EXCEPT !.todo = @ \ {r}]
    BY <1>7, <1>a DEF SkipRelation
  <2>2. worker'[w].pc = "exposure" /\ worker'[w].job = worker[w].job
    BY <1>7, <1>h, <2>1 DEF Hand, SkipRelation
  <2> QED BY <1>1, <1>7, <2>2 DEF AtPlace, SkipRelation
<1>8. CASE StartOrder(w)
  BY <1>1, <1>8, <1>b, <1>c DEF StartOrder, AtPlace
<1>9. CASE HearsOfOrder(w)
  <2>1. order' = order
    BY <1>9 DEF HearsOfOrder
  <2> QED BY <1>1, <1>9, <2>1, <1>b, <1>c DEF HearsOfOrder, AtPlace
<1>10. CASE Link(w) \/ LinkFails(w) \/ Settle(w) \/ CloseFails(w) \/ WriteStats(w)
  BY <1>1, <1>10, <1>c DEF Link, LinkFails, Settle, CloseFails, WriteStats, AtPlace
<1>11. CASE FindCopies(w)
  <2>1. worker'[w] = [worker[w] EXCEPT !.pc = "close",
                       !.todo = {r \in Relations : worker[w].job[1] \in LinkedOpen(r)}]
    BY <1>11, <1>a DEF FindCopies
  <2>2. worker'[w].pc = "close" /\ worker'[w].job = worker[w].job
    BY <1>h, <2>1 DEF Hand
  <2> QED BY <1>1, <1>11, <2>2 DEF AtPlace, FindCopies
<1>12. CASE ReadCopy(w)
  <2>1. PICK r \in worker[w].todo :
          worker'[w] = IF copy[<<worker[w].job[1], r>>] = "OPEN"
                       THEN [worker[w] EXCEPT !.todo = @ \ {r}, !.pc = "commit",
                               !.on = <<worker[w].job[1], r>>]
                       ELSE [worker[w] EXCEPT !.todo = @ \ {r}]
    BY <1>12, <1>a DEF ReadCopy
  <2>2. /\ UNCHANGED <<order, copy, settled>> /\ worker[w].pc = "close"
        /\ worker[w].job # Nothing /\ worker[w].job[2] = "close"
    BY <1>1, <1>12 DEF ReadCopy, AtPlace
  <2>3. CASE copy[<<worker[w].job[1], r>>] = "OPEN"
    <3>1. <<worker[w].job[1], r>> \in Copies
      BY <1>1, <2>2, HandType, JobType DEF Copies
    <3>2. PICK c \in Copies : c = <<worker[w].job[1], r>> /\ copy[c] = "OPEN"
      BY <2>3, <3>1
    <3>3. c # Nothing /\ c[1] = worker[w].job[1]
      BY <3>2, SomethingIsPair
    <3>4. order[c] = "EXECUTED"
      BY <3>2 DEF IInv, ExistsIfExecuted
    <3>5. settled[c] \in 0 .. 2 /\ ~(settled[c] > 0)
      BY <3>2 DEF IInv, FeeOnceAndAfterClose, TypeOK
    <3>6. settled[c] = 0
      BY <3>5
    <3>7. worker'[w] = [worker[w] EXCEPT !.todo = @ \ {r}, !.pc = "commit", !.on = c]
      BY <2>1, <3>2
    <3>8. worker'[w].pc = "commit" /\ worker'[w].job = worker[w].job /\ worker'[w].on = c
      BY <1>h, <3>7 DEF Hand
    <3> QED BY <2>2, <3>3, <3>4, <3>6, <3>8 DEF AtPlace
  <2>4. CASE ~(copy[<<worker[w].job[1], r>>] = "OPEN")
    <3>1. worker'[w] = [worker[w] EXCEPT !.todo = @ \ {r}]
      BY <2>1, <2>4
    <3>2. worker'[w].pc = "close" /\ worker'[w].job = worker[w].job
      BY <1>h, <2>2, <3>1 DEF Hand
    <3> QED BY <2>2, <3>2 DEF AtPlace
  <2> QED BY <2>3, <2>4
<1>13. CASE CommitClose(w)
  <2>1. worker[w].on \in Copies /\ worker[w].pc = "commit"
    BY <1>1, <1>13, OnType DEF CommitClose
  <2>2. copy'[worker[w].on] = "CLOSED" /\ UNCHANGED <<order, settled>> /\ Goto(w, "settle")
    BY <1>1, <1>13, <2>1 DEF CommitClose, TypeOK
  <2> QED BY <1>1, <1>b, <2>1, <2>2 DEF AtPlace
<1>14. CASE ReadStats(w)
  <2>1. worker'[w] = [worker[w] EXCEPT !.pc = "write", !.read = Cardinality(Active)]
    BY <1>14, <1>a DEF ReadStats
  <2>2. /\ worker'[w].pc = "write" /\ worker'[w].job = worker[w].job
        /\ worker'[w].read = Cardinality(Active)
    BY <1>h, <2>1 DEF Hand
  <2>3. Cardinality(Active) <= Cardinality(Relations)
    BY <1>1, FewActive
  <2> QED BY <1>1, <1>14, <2>2, <2>3 DEF AtPlace, ReadStats
<1> QED BY <1>2, <1>3, <1>4, <1>5, <1>6, <1>7, <1>8, <1>9, <1>10, <1>11, <1>12, <1>13, <1>14
       DEF HandStep, WorkerStep

\* Who moves: nobody, one worker, or all of them home.
LEMMA WhoMoves ==
  ASSUME IInv, Next
  PROVE  \/ UNCHANGED worker
         \/ \E w \in Workers : HandStep(w) /\ \A v \in Workers \ {w} : worker'[v] = worker[v]
         \/ EndStep /\ \A w \in Workers : worker'[w] = Idle
<1>1. CASE OutsideStep
  BY <1>1 DEF OutsideStep, OpenTrade, CloseTrade, Stalled, StartCopying, UpdateCopyRelation,
       StopCopying, SetRelation, ToggleCopying, CloseCopy, OrderExecutes, OrderRejected,
       CountCopiers, WriteCopiers
<1>2. ASSUME NEW w \in Workers, HandStep(w)
      PROVE  \A v \in Workers \ {w} : worker'[v] = worker[v]
  <2>1. \E h : Becomes(w, h)
    <3>1. CASE CompleteJob(w) \/ FailJob(w) \/ \E j \in Jobs : TakeJob(w, j)
      BY <3>1 DEF CompleteJob, FailJob, TakeJob
    <3> QED BY <1>2, <3>1, GoesOn DEF IInv
  <2> QED BY <2>1 DEF Becomes, IInv, TypeOK
<1>3. CASE EndStep
  BY <1>3 DEF EndStep, Crash, RejectionExits, RowExits, Exit, Restart
<1> QED BY <1>1, <1>2, <1>3, NextSteps

LEMMA PlaceStep == IInv /\ Next => AtWork'
<1> SUFFICES ASSUME IInv, Next, NEW v \in Workers PROVE AtPlace(v)'
  BY DEF AtWork
<1>1. CASE worker'[v] = worker[v] /\ ~Settle(v)
  BY <1>1, StaysAtPlace
<1>2. CASE Settle(v)
  BY <1>2, ArrivesAtPlace DEF HandStep, WorkerStep, Settle, RowExits
<1>3. CASE HandStep(v)
  BY <1>3, ArrivesAtPlace
<1>4. CASE worker'[v] = Idle
  BY <1>4 DEF AtPlace, Idle
<1> QED BY <1>1, <1>2, <1>3, <1>4, WhoMoves

-----------------------------------------------------------------------------
(***************************************************************************)
(* The overshoot of an allocation                                          *)
(***************************************************************************)
LEMMA Products ==
  ASSUME NEW k \in Nat, NEW n \in Nat, NEW h \in Nat, k <= n
  PROVE  k * h \in Nat /\ k * h <= n * h /\ (k + 1) * h = k * h + h /\ (n - 1) * h = n * h - h
<1>1. PICK d \in Nat : n = k + d
  <2>1. n - k \in Nat /\ n = k + (n - k)
    OBVIOUS
  <2> QED BY <2>1
<1>2. k * h \in Nat /\ d * h \in Nat
  OBVIOUS
<1>3. n * h = k * h + d * h
  BY <1>1
<1> QED BY <1>2, <1>3

LEMMA HeaviestIsMost ==
  Heaviest \in Nat /\ \A t \in Trades : Margin[t] \in Nat /\ Margin[t] <= Heaviest
<1>1. IsFiniteSet(Trades) /\ Trades # {} /\ \A t \in Trades : Margin[t] \in Nat
  BY MarginAssumption, WorkersAssumption
<1> QED BY <1>1, Largest DEF Heaviest

LEMMA PendingType ==
  ASSUME TypeOK, AtWork, HeldByOne, NEW r \in Relations
  PROVE  /\ Pending(r) \subseteq Workers /\ IsFiniteSet(Pending(r))
         /\ Cardinality(Pending(r)) \in Nat /\ Cardinality(Workers) \in Nat
         /\ Cardinality(Pending(r)) <= Cardinality(Workers)
         /\ \A w \in Pending(r) : Needs(w) \in Nat /\ Needs(w) <= Heaviest
<1>1. Pending(r) \subseteq Workers
  BY DEF Pending
<1>2. \A w \in Pending(r) : worker[w].on[1] \in Trades
  BY OnType DEF Pending, PendingOn
<1>3. \A w \in Pending(r) : Needs(w) \in Nat /\ Needs(w) <= Heaviest
  BY <1>2, HeaviestIsMost DEF Needs
<1> QED BY <1>1, <1>3, FS_Subset, FS_CardinalityType, WorkersAssumption

LEMMA LimitType == ASSUME NEW r \in Relations PROVE Limit(r) \in Int /\ Allocated[r] \in Nat
BY HeaviestIsMost, FS_CardinalityType, MarginAssumption, WorkersAssumption DEF Limit

PendingTyped(r) ==
  /\ Pending(r) \subseteq Workers /\ IsFiniteSet(Pending(r))
  /\ Cardinality(Pending(r)) <= Cardinality(Workers)
  /\ \A w \in Pending(r) : Needs(w) \in Nat /\ Needs(w) <= Heaviest

AllPendingTyped == \A r \in Relations : PendingTyped(r)

LEMMA PendingIsTyped == TypeOK /\ AtWork /\ HeldByOne => AllPendingTyped
BY PendingType DEF AllPendingTyped, PendingTyped

\* What a step makes of the copies that count
LEMMA OpenMoves ==
  ASSUME IInv, Next, NEW r \in Relations
  PROVE  \/ LinkedOpen(r)' \subseteq LinkedOpen(r)
         \/ \E w \in Workers : /\ Link(w) /\ worker[w].on[2] = r
                               /\ LinkedOpen(r)' \subseteq LinkedOpen(r) \cup {worker[w].on[1]}
<1> USE DEF shared, queue, mirror
<1>1. TypeOK /\ ExistsIfExecuted
  BY DEF IInv
<1>2. ASSUME UNCHANGED linked,
             \A c \in Copies : c \in linked /\ copy'[c] = "OPEN" => copy[c] = "OPEN"
      PROVE  LinkedOpen(r)' \subseteq LinkedOpen(r)
  <2>1. \A t \in Trades : <<t, r>> \in Copies
    BY DEF Copies
  <2> QED BY <1>2, <2>1 DEF LinkedOpen
<1>3. CASE OutsideStep
  <2>1. ASSUME NEW c \in Copies, CloseCopy(c) PROVE LinkedOpen(r)' \subseteq LinkedOpen(r)
    BY <1>1, <1>2, <2>1 DEF CloseCopy, TypeOK
  <2>2. ASSUME NEW c \in Copies, OrderExecutes(c) PROVE LinkedOpen(r)' \subseteq LinkedOpen(r)
    BY <1>1, <1>2, <2>2 DEF OrderExecutes, TypeOK, ExistsIfExecuted
  <2> QED
    BY <1>2, <1>3, <2>1, <2>2 DEF OutsideStep, OpenTrade, CloseTrade, Stalled, StartCopying,
         UpdateCopyRelation, StopCopying, SetRelation, ToggleCopying, OrderRejected, CountCopiers,
         WriteCopiers
<1>4. ASSUME NEW w \in Workers, Link(w)
      PROVE  \/ LinkedOpen(r)' \subseteq LinkedOpen(r)
             \/ /\ worker[w].on[2] = r
                /\ LinkedOpen(r)' \subseteq LinkedOpen(r) \cup {worker[w].on[1]}
  <2>1. worker[w].on \in Copies /\ linked' = linked \cup {worker[w].on} /\ copy' = copy
    BY <1>1, <1>4, OnType DEF IInv, Link
  <2>2. PICK t \in Trades, s \in Relations : worker[w].on = <<t, s>>
    BY <2>1 DEF Copies
  <2> QED BY <2>1, <2>2 DEF LinkedOpen
<1>5. ASSUME NEW w \in Workers, HandStep(w), ~Link(w)
      PROVE  LinkedOpen(r)' \subseteq LinkedOpen(r)
  <2>1. CASE CommitClose(w)
    BY <1>1, <1>2, <2>1 DEF CommitClose, TypeOK
  <2> QED
    BY <1>2, <1>5, <2>1 DEF HandStep, WorkerStep, TakeJob, CompleteJob, FailJob, Load,
         ListRelations, ReadExposure, SkipRelation, StartOrder, HearsOfOrder, LinkFails,
         FindCopies, ReadCopy, Settle, CloseFails, ReadStats, WriteStats
<1>6. CASE EndStep
  BY <1>2, <1>6 DEF EndStep, Crash, RejectionExits, RowExits, Exit
<1> QED BY <1>3, <1>4, <1>5, <1>6, NextSteps

SumsAgree == \A r : Exposure(r) = SumOver(Margin, LinkedOpen(r)) /\ Exposure(r) \in Nat

LEMMA SumsDoAgree == SumsAgree
BY ExposureIsSum, ExposureType DEF SumsAgree

LEMMA StillExposed ==
  ASSUME UNCHANGED <<linked, copy>>, NEW r \in Relations
  PROVE  Exposure(r)' = Exposure(r)
<1>1. SumsAgree /\ SumsAgree'
  BY SumsDoAgree, PTL
<1>2. PICK A : A = LinkedOpen(r) /\ A = LinkedOpen(r)'
  BY DEF LinkedOpen
<1> QED BY <1>1, <1>2 DEF SumsAgree

\* What a step makes of the exposure
LEMMA ExposureMoves ==
  ASSUME IInv, Next, NEW r \in Relations
  PROVE  /\ Exposure(r) \in Nat /\ Exposure(r)' \in Nat
         /\ \/ Exposure(r)' <= Exposure(r)
            \/ \E w \in Workers : /\ Link(w) /\ worker[w].on[2] = r
                                  /\ Exposure(r)' <= Exposure(r) + Needs(w)
<1>1. SumsAgree /\ SumsAgree'
  BY SumsDoAgree, PTL
<1>2. /\ Exposure(r) = SumOver(Margin, LinkedOpen(r)) /\ Exposure(r) \in Nat
      /\ Exposure(r)' = SumOver(Margin, LinkedOpen(r)') /\ Exposure(r)' \in Nat
  BY <1>1 DEF SumsAgree
<1>3. PICK A \in SUBSET Trades : A = LinkedOpen(r)
  BY DEF LinkedOpen
<1>4. PICK B \in SUBSET Trades : B = LinkedOpen(r)'
  BY DEF LinkedOpen
<1>5. PICK a \in Nat : a = Exposure(r) /\ a = SumOver(Margin, A)
  BY <1>2, <1>3
<1>6. PICK b \in Nat : b = Exposure(r)' /\ b = SumOver(Margin, B)
  BY <1>2, <1>4
<1>7. \A t \in Trades : Margin[t] \in Nat
  BY MarginAssumption
<1>8. IsFiniteSet(A) /\ IsFiniteSet(B)
  BY FS_Subset, MarginAssumption
<1>9. B \subseteq A => b <= a
  BY <1>5, <1>6, <1>7, <1>8, SumOfPart
<1>10. ASSUME NEW t \in Trades, B \subseteq A \cup {t} PROVE b <= a + Margin[t]
  <2>1. CASE B \subseteq A
    BY <1>7, <1>9, <2>1
  <2>2. CASE ~(B \subseteq A)
    <3>1. t \notin A
      BY <1>10, <2>2
    <3>2. A \cup {t} \subseteq Trades /\ IsFiniteSet(A \cup {t})
      BY <1>8, FS_AddElement
    <3>3. \A x \in A \cup {t} : Margin[x] \in Nat /\ Margin[x] \in Int
      BY <1>7, <3>2
    <3>4. SumOver(Margin, A \cup {t}) = SumOver(Margin, A) + Margin[t]
      BY <1>8, <3>1, <3>3, SumAdd
    <3>5. SumOver(Margin, B) <= SumOver(Margin, A \cup {t})
      BY <1>10, <3>2, <3>3, SumOfPart
    <3> QED BY <1>5, <1>6, <3>4, <3>5
  <2> QED BY <2>1, <2>2
<1>11. CASE B \subseteq A
  BY <1>2, <1>5, <1>6, <1>9, <1>11
<1>12. ASSUME NEW w \in Workers, Link(w), worker[w].on[2] = r, B \subseteq A \cup {worker[w].on[1]}
       PROVE  Exposure(r)' <= Exposure(r) + Needs(w)
  <2>1. worker[w].on[1] \in Trades
    BY <1>12, OnType DEF IInv, Link
  <2> QED BY <1>5, <1>6, <1>10, <1>12, <2>1 DEF Needs
<1>13. B \subseteq A \/ \E w \in Workers : /\ Link(w) /\ worker[w].on[2] = r
                                          /\ B \subseteq A \cup {worker[w].on[1]}
  BY <1>3, <1>4, OpenMoves
<1> QED BY <1>2, <1>11, <1>12, <1>13

\* A worker that is pending after its step was so before it, or has just compared.
LEMMA StaysPending ==
  ASSUME IInv, Next, NEW w \in Workers, HandStep(w),
         worker'[w].pc \in {"start", "await", "link"}
  PROVE  \/ ReadExposure(w)
         \/ /\ worker[w].pc \in {"start", "await", "link"} /\ ~Link(w)
            /\ worker'[w].on = worker[w].on /\ worker'[w].read = worker[w].read
            /\ worker'[w].pc \in {"await", "link"} => Fits(w)
<1> USE DEF shared, queue, mirror
<1>1. TypeOK /\ AwaitedFits
  BY DEF IInv
<1>h. worker[w] \in Hand /\ worker \in [Workers -> Hand]
  BY <1>1, HandType DEF TypeOK, Hand
<1>a. \A h : Becomes(w, h) => worker'[w] = h
  BY <1>h DEF Becomes
<1>2. ASSUME NEW label, Goto(w, label)
      PROVE  /\ worker'[w].pc = label /\ worker'[w].on = worker[w].on
             /\ worker'[w].read = worker[w].read
  <2>1. worker'[w] = [worker[w] EXCEPT !.pc = label]
    BY <1>a, <1>2 DEF Goto
  <2> QED BY <1>h, <2>1 DEF Hand
<1>3. ASSUME NEW label, Resume(w, label) PROVE worker'[w].pc = label
  <2>1. worker'[w] = [worker[w] EXCEPT !.pc = label, !.on = Nothing, !.read = 0]
    BY <1>a, <1>3 DEF Resume
  <2> QED BY <1>h, <2>1 DEF Hand
<1>4. ~\E j \in Jobs : TakeJob(w, j)
  <2>1. ASSUME NEW j \in Jobs, TakeJob(w, j) PROVE worker'[w].pc = "load"
    BY <1>a, <2>1 DEF TakeJob, Idle
  <2> QED BY <2>1
<1>5. ~CompleteJob(w) /\ ~FailJob(w)
  BY <1>a DEF CompleteJob, FailJob, Idle
<1>6. ~Load(w)
  BY <1>2 DEF Load
<1>7. ~Link(w) /\ ~LinkFails(w) /\ ~Settle(w) /\ ~CloseFails(w) /\ ~WriteStats(w) /\ ~CommitClose(w)
  BY <1>2, <1>3 DEF Link, LinkFails, Settle, CloseFails, WriteStats, CommitClose
<1>8. ~ListRelations(w) /\ ~FindCopies(w) /\ ~ReadStats(w)
  <2>1. /\ [worker[w] EXCEPT !.pc = "exposure", !.todo = Active].pc = "exposure"
        /\ [worker[w] EXCEPT !.pc = "close",
              !.todo = {s \in Relations : worker[w].job[1] \in LinkedOpen(s)}].pc = "close"
        /\ [worker[w] EXCEPT !.pc = "write", !.read = Cardinality(Active)].pc = "write"
    BY <1>h DEF Hand
  <2> QED BY <1>a, <2>1 DEF ListRelations, FindCopies, ReadStats
<1>9. ~SkipRelation(w) /\ ~ReadCopy(w)
  <2>1. \A s, c : /\ [worker[w] EXCEPT !.todo = @ \ {s}].pc = worker[w].pc
                  /\ [worker[w] EXCEPT !.todo = @ \ {s}, !.pc = "commit", !.on = c].pc = "commit"
    BY <1>h DEF Hand
  <2>2. ASSUME SkipRelation(w) PROVE worker'[w].pc = "exposure"
    <3>1. PICK s : worker'[w] = [worker[w] EXCEPT !.todo = @ \ {s}]
      BY <1>a, <2>2 DEF SkipRelation
    <3> QED BY <2>1, <2>2, <3>1 DEF SkipRelation
  <2>3. ASSUME ReadCopy(w) PROVE worker'[w].pc \in {"close", "commit"}
    <3>1. PICK s \in worker[w].todo :
            worker'[w] = IF copy[<<worker[w].job[1], s>>] = "OPEN"
                         THEN [worker[w] EXCEPT !.todo = @ \ {s}, !.pc = "commit",
                                 !.on = <<worker[w].job[1], s>>]
                         ELSE [worker[w] EXCEPT !.todo = @ \ {s}]
      BY <1>a, <2>3 DEF ReadCopy
    <3>2. worker[w].pc = "close"
      BY <2>3 DEF ReadCopy
    <3>3. CASE copy[<<worker[w].job[1], s>>] = "OPEN"
      <4>1. worker'[w].pc = "commit"
        BY <1>h, <3>1, <3>3 DEF Hand
      <4> QED BY <4>1
    <3>4. CASE ~(copy[<<worker[w].job[1], s>>] = "OPEN")
      <4>1. worker'[w].pc = worker[w].pc
        BY <1>h, <3>1, <3>4 DEF Hand
      <4> QED BY <3>2, <4>1
    <3> QED BY <3>3, <3>4
  <2> QED BY <2>2, <2>3
<1>10. CASE StartOrder(w)
  <2>1. Goto(w, "await") /\ Fits(w) /\ worker[w].pc = "start"
    BY <1>3, <1>10 DEF StartOrder
  <2> QED BY <1>2, <1>7, <2>1
<1>11. CASE HearsOfOrder(w)
  <2>1. Goto(w, "link") /\ worker[w].pc = "await"
    BY <1>3, <1>11 DEF HearsOfOrder
  <2> QED BY <1>1, <1>2, <1>7, <2>1 DEF AwaitedFits
<1> QED BY <1>4, <1>5, <1>6, <1>7, <1>8, <1>9, <1>10, <1>11 DEF HandStep, WorkerStep

\* What a worker that compares reads
LEMMA Compares ==
  ASSUME IInv, Next, NEW w \in Workers, ReadExposure(w)
  PROVE  \E r \in Relations :
           /\ worker'[w].pc = "start" /\ worker'[w].on = <<worker[w].job[1], r>>
           /\ worker'[w].read = Exposure(r) /\ worker[w].job[1] \in Trades
<1>1. TypeOK
  BY DEF IInv
<1>h. worker[w] \in Hand /\ worker \in [Workers -> Hand] /\ worker[w].todo \in SUBSET Relations
  BY <1>1, HandType DEF TypeOK, Hand
<1>2. PICK r \in worker[w].todo :
        worker'[w] = [worker[w] EXCEPT !.pc = "start", !.todo = @ \ {r},
                        !.on = <<worker[w].job[1], r>>, !.read = Exposure(r)]
  BY <1>h DEF ReadExposure, Becomes
<1>3. worker[w].job[1] \in Trades
  BY <1>1, JobType DEF IInv, ReadExposure
<1>4. /\ worker'[w].pc = "start" /\ worker'[w].on = <<worker[w].job[1], r>>
      /\ worker'[w].read = Exposure(r)
  BY <1>h, <1>2 DEF Hand
<1> QED BY <1>h, <1>3, <1>4

LEMMA AwaitedStep == IInv /\ Next => AwaitedFits'
<1> SUFFICES ASSUME IInv, Next, NEW w \in Workers, worker'[w].pc \in {"await", "link"}
             PROVE  Fits(w)'
  BY DEF AwaitedFits
<1>1. CASE worker'[w] = worker[w]
  BY <1>1 DEF IInv, AwaitedFits, Fits
<1>2. CASE HandStep(w)
  <2>1. ~ReadExposure(w)
    BY Compares
  <2> QED BY <1>2, <2>1, StaysPending DEF Fits
<1>3. CASE worker'[w] = Idle
  BY <1>3 DEF Idle
<1> QED BY <1>1, <1>2, <1>3, WhoMoves

\* Who is pending after a step: some that were, less the one that linked, or
\* one more that has just compared.
LEMMA PendingMoves ==
  ASSUME IInv, Next, NEW r \in Relations
  PROVE  \/ /\ Pending(r)' \subseteq Pending(r)
            /\ \A w \in Pending(r)' : Needs(w)' = Needs(w)
            /\ \A w \in Workers : ~ReadExposure(w)
            /\ \A w \in Workers : Link(w) /\ worker[w].on[2] = r =>
                 w \in Pending(r) /\ Pending(r)' = Pending(r) \ {w}
         \/ \E w \in Workers :
              /\ ReadExposure(w)
              /\ w \notin Pending(r)
              /\ \A v \in Workers \ {w} : worker'[v] = worker[v]
<1>1. TypeOK /\ AwaitedFits
  BY DEF IInv
<1>2. ASSUME NEW w \in Workers, worker'[w] = worker[w]
      PROVE  /\ w \in Pending(r)' <=> w \in Pending(r)
             /\ Needs(w)' = Needs(w)
  BY <1>2 DEF Pending, PendingOn, Fits, Needs
<1>3. CASE UNCHANGED worker
  <2>1. \A w \in Workers : ~ReadExposure(w) /\ ~Link(w)
    <3>1. ASSUME NEW w \in Workers, ReadExposure(w) PROVE FALSE
      BY <1>3, <3>1, Compares DEF ReadExposure
    <3>2. ASSUME NEW w \in Workers, Link(w) PROVE FALSE
      <4>1. worker'[w] = [worker[w] EXCEPT !.pc = "exposure", !.on = Nothing, !.read = 0]
        BY <1>1, <3>2 DEF Link, Resume, Becomes, TypeOK
      <4>2. worker'[w].pc = "exposure" /\ worker[w].pc = "link"
        BY <1>1, <3>2, <4>1, HandType DEF Hand, Link
      <4> QED BY <1>3, <4>2
    <3> QED BY <3>1, <3>2
  <2> QED BY <1>2, <1>3, <2>1 DEF Pending
<1>4. ASSUME NEW w \in Workers, HandStep(w), \A v \in Workers \ {w} : worker'[v] = worker[v],
             ~ReadExposure(w)
      PROVE  /\ Pending(r)' \subseteq Pending(r)
             /\ \A v \in Pending(r)' : Needs(v)' = Needs(v)
             /\ \A v \in Workers : ~ReadExposure(v)
             /\ \A v \in Workers : Link(v) /\ worker[v].on[2] = r =>
                  v \in Pending(r) /\ Pending(r)' = Pending(r) \ {v}
  <2>1. w \in Pending(r)' => w \in Pending(r) /\ Needs(w)' = Needs(w) /\ ~Link(w)
    <3>1. ASSUME w \in Pending(r)' PROVE worker'[w].pc \in {"start", "await", "link"}
      BY <3>1 DEF Pending, PendingOn
    <3> QED BY <1>4, <3>1, StaysPending DEF Pending, PendingOn, Fits, Needs
  <2>2. \A v \in Workers : v # w => (v \in Pending(r)' <=> v \in Pending(r)) /\ Needs(v)' = Needs(v)
    BY <1>2, <1>4
  <2>3. \A v \in Workers : v # w => ~ReadExposure(v) /\ ~Link(v)
    <3>1. ASSUME NEW v \in Workers, v # w, ReadExposure(v) PROVE FALSE
      BY <1>4, <3>1, Compares DEF ReadExposure
    <3>2. ASSUME NEW v \in Workers, v # w, Link(v) PROVE FALSE
      <4>1. worker'[v] = [worker[v] EXCEPT !.pc = "exposure", !.on = Nothing, !.read = 0]
        BY <1>1, <3>2 DEF Link, Resume, Becomes, TypeOK
      <4>2. worker'[v].pc = "exposure" /\ worker[v].pc = "link"
        BY <1>1, <3>2, <4>1, HandType DEF Hand, Link
      <4> QED BY <1>4, <3>2, <4>2
    <3> QED BY <3>1, <3>2
  <2>4. ASSUME Link(w), worker[w].on[2] = r PROVE w \in Pending(r)
    BY <1>1, <2>4 DEF Pending, PendingOn, Link, AwaitedFits
  <2>5. Pending(r)' \subseteq Workers /\ Pending(r) \subseteq Workers
    BY DEF Pending
  <2> HIDE DEF Pending
  <2>6. Pending(r)' \subseteq Pending(r) /\ \A v \in Pending(r)' : Needs(v)' = Needs(v)
    BY <2>1, <2>2, <2>5
  <2>7. ASSUME Link(w), worker[w].on[2] = r
        PROVE  w \in Pending(r) /\ Pending(r)' = Pending(r) \ {w}
    BY <2>1, <2>2, <2>4, <2>5, <2>7
  <2>8. \A v \in Workers : Link(v) /\ worker[v].on[2] = r =>
          v \in Pending(r) /\ Pending(r)' = Pending(r) \ {v}
    BY <2>3, <2>7
  <2> QED BY <1>4, <2>3, <2>6, <2>8
<1>5. CASE EndStep /\ \A w \in Workers : worker'[w] = Idle
  <2>1. Pending(r)' = {}
    BY <1>5 DEF Pending, PendingOn, Idle
  <2>2. ASSUME NEW w \in Workers, ReadExposure(w) PROVE FALSE
    BY <1>5, <2>2, Compares DEF Idle
  <2>3. ASSUME NEW w \in Workers, Link(w) PROVE FALSE
    <3>1. worker'[w].pc = "exposure"
      <4>1. worker'[w] = [worker[w] EXCEPT !.pc = "exposure", !.on = Nothing, !.read = 0]
        BY <1>1, <2>3 DEF Link, Resume, Becomes, TypeOK
      <4> QED BY <1>1, <4>1, HandType DEF Hand
    <3> QED BY <1>5, <3>1 DEF Idle
  <2> QED BY <2>1, <2>2, <2>3
<1>6. ASSUME NEW w \in Workers, ReadExposure(w) PROVE w \notin Pending(r)
  BY <1>6 DEF ReadExposure, Pending, PendingOn
<1> QED BY <1>3, <1>4, <1>5, <1>6, WhoMoves

-----------------------------------------------------------------------------
(***************************************************************************)
(* The room a relation has left, as numbers: e of exposure, p pending      *)
(* workers, and a limit                                                    *)
(***************************************************************************)
LEMMA RoomStep == IInv /\ Next => RoomIsLeft'
<1> SUFFICES ASSUME IInv, Next, NEW r \in Relations PROVE RoomLeft(r)'
  BY DEF RoomIsLeft
<1>1. TypeOK /\ AtWork /\ HeldByOne /\ RoomLeft(r)
  BY DEF IInv, RoomIsLeft
<1>2. TypeOK' /\ AtWork' /\ HeldByOne'
  BY TypeStep, PlaceStep, HeldStep
<1>3. PICK h \in Nat : h = Heaviest
  BY HeaviestIsMost
<1>4. PICK lim \in Int : lim = Limit(r)
  BY LimitType
<1>5. PICK e \in Nat : e = Exposure(r)
  BY ExposureMoves
<1>6. PICK f \in Nat : f = Exposure(r)'
  BY ExposureMoves
<1>7. /\ Pending(r) \subseteq Workers /\ IsFiniteSet(Pending(r))
      /\ \A w \in Pending(r) : Needs(w) \in Nat /\ Needs(w) <= h
  BY <1>1, <1>3, PendingType
<1>8. /\ Pending(r)' \subseteq Workers /\ IsFiniteSet(Pending(r)')
      /\ Cardinality(Pending(r)') <= Cardinality(Workers)
      /\ \A w \in Pending(r)' : Needs(w)' \in Nat /\ Needs(w)' <= h
  <2>1. AllPendingTyped'
    BY <1>2, PendingIsTyped, PTL
  <2> QED BY <1>3, <2>1 DEF AllPendingTyped, PendingTyped
<1>9. PICK p \in Nat : p = Cardinality(Pending(r))
  BY <1>7, FS_CardinalityType
<1>10. PICK q \in Nat : q = Cardinality(Pending(r)')
  BY <1>8, FS_CardinalityType
<1>11. PICK ph \in Nat : ph = p * h
  BY Products
<1>12. PICK qh \in Nat : qh = q * h
  BY Products
\* More room is needed after the step by none or by one of the pending.
<1>13. (f + qh <= lim) => RoomLeft(r)'
  BY <1>3, <1>4, <1>6, <1>10, <1>12 DEF RoomLeft, RoomFor, Limit, Heaviest
<1>14. ASSUME NEW w \in Pending(r)', f + qh <= lim + (h - Needs(w)') PROVE RoomLeft(r)'
  BY <1>3, <1>4, <1>6, <1>10, <1>12, <1>14 DEF RoomLeft, RoomFor, Limit, Heaviest
<1>15. e + ph <= lim \/ \E w \in Pending(r) : e + ph <= lim + (h - Needs(w))
  <2>1. \A s : RoomFor(r, s) <=> e + ph <= lim + s
    BY <1>3, <1>4, <1>5, <1>9, <1>11 DEF RoomFor
  <2>2. RoomFor(r, 0) <=> e + ph <= lim
    BY <2>1
  <2> QED BY <1>1, <1>3, <2>1, <2>2 DEF RoomLeft
<1>16. e + ph <= lim + h
  BY <1>7, <1>15
<1>17. q + 1 <= p => qh + h <= ph
  <2>1. q \in Nat /\ q + 1 \in Nat
    OBVIOUS
  <2>2. q + 1 <= p => (q + 1) * h <= p * h
    BY <2>1, Products
  <2>3. (q + 1) * h = q * h + h
    BY <2>1, Products
  <2> QED BY <1>11, <1>12, <2>2, <2>3
\* Nothing more is exposed, and nobody is pending that was not.
<1>18. ASSUME f <= e, Pending(r)' \subseteq Pending(r), \A w \in Pending(r)' : Needs(w)' = Needs(w)
       PROVE  RoomLeft(r)'
  <2>1. CASE Pending(r)' = Pending(r)
    <3>1. qh = ph
      BY <1>9, <1>10, <1>11, <1>12, <2>1
    <3>2. CASE e + ph <= lim
      BY <1>13, <1>18, <3>1, <3>2
    <3>3. ASSUME NEW w \in Pending(r), e + ph <= lim + (h - Needs(w)) PROVE RoomLeft(r)'
      <4>1. w \in Pending(r)' /\ Needs(w)' = Needs(w) /\ Needs(w) \in Nat
        BY <1>7, <1>18, <2>1
      <4>2. f + qh <= lim + (h - Needs(w)')
        BY <1>18, <3>1, <3>3, <4>1
      <4> QED BY <1>14, <4>1, <4>2
    <3> QED BY <1>15, <3>2, <3>3
  <2>2. CASE Pending(r)' # Pending(r)
    <3>1. q <= p /\ q # p
      BY <1>7, <1>9, <1>10, <1>18, <2>2, FS_Subset
    <3>2. qh + h <= ph
      BY <1>17, <3>1
    <3>3. f + qh <= lim
      BY <1>16, <1>18, <3>2
    <3> QED BY <1>13, <3>3
  <2> QED BY <2>1, <2>2
\* A worker links what it compared.
<1>19. ASSUME NEW w \in Pending(r), Pending(r)' = Pending(r) \ {w}, f <= e + Needs(w),
              \A v \in Pending(r)' : Needs(v)' = Needs(v)
       PROVE  RoomLeft(r)'
  <2>1. q = p - 1
    BY <1>7, <1>9, <1>10, <1>19, FS_RemoveElement
  <2>2. qh + h <= ph
    BY <1>17, <2>1
  <2>3. PICK n \in Nat : n = Needs(w) /\ n <= h
    BY <1>7
  <2>4. CASE e + ph <= lim
    <3>1. f + qh <= lim
      BY <1>19, <2>2, <2>3, <2>4
    <3> QED BY <1>13, <3>1
  <2>5. ASSUME NEW v \in Pending(r), e + ph <= lim + (h - Needs(v)) PROVE RoomLeft(r)'
    <3>1. PICK m \in Nat : m = Needs(v) /\ m <= h
      BY <1>7
    <3>2. CASE v = w
      <4>1. f + qh <= lim
        BY <1>19, <2>2, <2>3, <2>5, <3>1, <3>2
      <4> QED BY <1>13, <4>1
    <3>3. CASE v # w
      <4>1. v \in Pending(r)' /\ Needs(v)' = m
        BY <1>19, <3>1, <3>3
      <4>2. f + qh <= lim + (h - m)
        BY <1>19, <2>2, <2>3, <2>5, <3>1
      <4> QED BY <1>14, <4>1, <4>2
    <3> QED BY <3>2, <3>3
  <2> QED BY <1>15, <2>4, <2>5
\* A worker compares.
<1>20. ASSUME NEW w \in Workers, ReadExposure(w), w \notin Pending(r),
              \A v \in Workers \ {w} : worker'[v] = worker[v]
       PROVE  RoomLeft(r)'
  <2>1. f = e
    BY <1>5, <1>6, <1>20, StillExposed DEF ReadExposure, mirror
  <2>2. \A v \in Workers \ {w} : (v \in Pending(r)' <=> v \in Pending(r)) /\ Needs(v)' = Needs(v)
    BY <1>20 DEF Pending, PendingOn, Fits, Needs
  <2>3. CASE w \notin Pending(r)'
    <3>1. Pending(r)' \subseteq Pending(r) /\ \A v \in Pending(r)' : Needs(v)' = Needs(v)
      BY <1>8, <2>2, <2>3
    <3> QED BY <1>18, <2>1, <3>1
  <2>4. CASE w \in Pending(r)'
    <3>1. PICK u \in Relations :
            /\ worker'[w].on = <<worker[w].job[1], u>> /\ worker'[w].read = Exposure(u)
            /\ worker[w].job[1] \in Trades
      BY <1>20, Compares
    <3>2. worker'[w].on[2] = r /\ Fits(w)'
      BY <2>4 DEF Pending, PendingOn
    <3>3. u = r
      BY <3>1, <3>2
    <3>4. e + Needs(w)' <= Allocated[r]
      BY <1>5, <3>1, <3>2, <3>3 DEF Fits, Needs
    <3>5. PICK n \in Nat : n = Needs(w)' /\ n <= h
      BY <1>8, <2>4
    <3>6. PICK c \in Nat : c = Cardinality(Workers) /\ q <= c
      BY <1>8, <1>10, FS_CardinalityType, WorkersAssumption
    <3>7. PICK ch \in Nat : ch = c * h /\ qh <= ch /\ (c - 1) * h = ch - h
      BY <1>12, <3>6, Products
    <3>8. PICK a \in Nat : a = Allocated[r] /\ lim = a + (ch - h)
      BY <1>3, <1>4, <3>6, <3>7, LimitType DEF Limit
    <3>9. f + qh <= lim + (h - n)
      BY <2>1, <3>4, <3>5, <3>7, <3>8
    <3> QED BY <1>14, <2>4, <3>5, <3>9
  <2> QED BY <2>3, <2>4
<1>21. CASE \E w \in Workers :
              /\ ReadExposure(w)
              /\ w \notin Pending(r)
              /\ \A v \in Workers \ {w} : worker'[v] = worker[v]
  BY <1>20, <1>21
<1>22. CASE /\ Pending(r)' \subseteq Pending(r)
            /\ \A w \in Pending(r)' : Needs(w)' = Needs(w)
            /\ \A w \in Workers : Link(w) /\ worker[w].on[2] = r =>
                 w \in Pending(r) /\ Pending(r)' = Pending(r) \ {w}
  <2>1. CASE f <= e
    BY <1>18, <1>22, <2>1
  <2>2. ASSUME NEW w \in Workers, Link(w), worker[w].on[2] = r, f <= e + Needs(w)
        PROVE  RoomLeft(r)'
    BY <1>19, <1>22, <2>2
  <2>3. f <= e \/ \E w \in Workers : Link(w) /\ worker[w].on[2] = r /\ f <= e + Needs(w)
    BY <1>5, <1>6, ExposureMoves
  <2> QED BY <2>1, <2>2, <2>3
<1> QED BY <1>21, <1>22, PendingMoves

-----------------------------------------------------------------------------
(***************************************************************************)
(* The invariant, and what it says                                         *)
(***************************************************************************)
LEMMA InitHolds == Init => IInv
<1> SUFFICES ASSUME Init PROVE IInv
  OBVIOUS
<1>1. TypeOK
  BY InitTyped
<1>2. Announced /\ HeldByOne /\ AtWork /\ AwaitedFits
  <2>1. \A t \in Trades : <<t, "open">> \in Jobs /\ <<t, "close">> \in Jobs
    BY DEF Jobs, Kinds
  <2> QED BY <2>1 DEF Init, Announced, HeldByOne, AtWork, AtPlace, AwaitedFits, Idle
<1>3. ExistsIfExecuted /\ FeeOnceAndAfterClose
  BY DEF Init, ExistsIfExecuted, FeeOnceAndAfterClose
<1>4. MayRun
  BY BoundsAssumption DEF Init, MayRun
<1>5. CountedAreRelations
  BY FewActive, <1>1 DEF Init, CountedAreRelations, NoCount
<1>6. RoomIsLeft
  <2> SUFFICES ASSUME NEW r \in Relations PROVE RoomFor(r, 0)
    BY DEF RoomIsLeft, RoomLeft
  <2>1. LinkedOpen(r) = {} /\ Pending(r) = {}
    BY DEF Init, LinkedOpen, Pending, PendingOn, Idle
  <2>2. Exposure(r) = 0
    BY <2>1, ExposureIsSum, SumEmpty
  <2>3. Cardinality(Pending(r)) = 0
    BY <2>1, FS_EmptySet
  <2>4. PICK c \in Nat : c = Cardinality(Workers) /\ 1 <= c
    BY FS_CardinalityType, FS_EmptySet, WorkersAssumption
  <2>5. PICK h \in Nat : h = Heaviest
    BY HeaviestIsMost
  <2>6. 0 * h = 0 /\ (c - 1) * h \in Nat
    <3>1. c - 1 \in Nat /\ 0 \in Nat
      BY <2>4
    <3>2. \A k \in Nat : k * h \in Nat
      BY Products
    <3> QED BY <3>1, <3>2
  <2>7. Limit(r) = Allocated[r] + (c - 1) * h /\ Allocated[r] \in Nat
    BY <2>4, <2>5, LimitType DEF Limit
  <2>8. 0 + 0 * h <= Limit(r) + 0
    BY <2>6, <2>7
  <2> QED BY <2>2, <2>3, <2>5, <2>8 DEF RoomFor
<1> QED BY <1>1, <1>2, <1>3, <1>4, <1>5, <1>6 DEF IInv

LEMMA Stutter == IInv /\ UNCHANGED vars => IInv'
<1> SUFFICES ASSUME IInv, UNCHANGED vars PROVE IInv'
  OBVIOUS
<1> USE DEF vars, shared, queue, mirror, bounds
<1>1. TypeOK'
  BY DEF IInv, TypeOK
<1>2. Announced' /\ HeldByOne' /\ AtWork'
  BY DEF IInv, Announced, HeldByOne, AtWork, AtPlace
<1>3. ExistsIfExecuted' /\ MayRun' /\ CountedAreRelations' /\ FeeOnceAndAfterClose' /\ AwaitedFits'
  BY DEF IInv, ExistsIfExecuted, MayRun, CountedAreRelations, FeeOnceAndAfterClose, AwaitedFits,
         Fits
<1>4. RoomIsLeft'
  <2> SUFFICES ASSUME NEW r \in Relations PROVE RoomLeft(r)'
    BY DEF RoomIsLeft
  <2>1. Exposure(r)' = Exposure(r)
    BY StillExposed
  <2>2. Pending(r)' = Pending(r) /\ \A w \in Pending(r) : Needs(w)' = Needs(w)
    BY DEF Pending, PendingOn, Fits, Needs
  <2>3. RoomLeft(r)
    BY DEF IInv, RoomIsLeft
  <2> QED BY <2>1, <2>2, <2>3 DEF RoomLeft, RoomFor, Limit
<1> QED BY <1>1, <1>2, <1>3, <1>4 DEF IInv

\* The inductive invariant holds of every reachable state: whatever jobs are
\* tried again or stall, whoever closes copies as well, and wherever the process
\* ends, a job has one worker, and what is pending has room.
THEOREM Invariance == Spec => []IInv
<1>1. Init => IInv
  BY InitHolds
<1>2. IInv /\ [Next]_vars => IInv'
  <2>1. IInv /\ Next => IInv'
    <3> SUFFICES ASSUME IInv, Next PROVE IInv'
      OBVIOUS
    <3> QED BY TypeStep, AnnouncedStep, HeldStep, PlaceStep, StepKeeps, MayRunStep, CountedStep,
               FeeStep, AwaitedStep, RoomStep DEF IInv
  <2> QED BY <2>1, Stutter
<1> QED BY <1>1, <1>2, PTL DEF Spec

LEMMA RoomBounds == IInv => OvershootIsBounded
<1> SUFFICES ASSUME IInv, NEW r \in Relations PROVE Exposure(r) <= Limit(r)
  BY DEF OvershootIsBounded, Limit, Heaviest
<1>1. TypeOK /\ AtWork /\ HeldByOne /\ RoomLeft(r)
  BY DEF IInv, RoomIsLeft
<1>2. PICK e \in Nat : e = Exposure(r)
  BY ExposureType
<1>3. PICK lim \in Int : lim = Limit(r)
  BY LimitType
<1>4. PICK h \in Nat : h = Heaviest
  BY HeaviestIsMost
<1>5. PICK p \in Nat : p = Cardinality(Pending(r))
  BY <1>1, PendingType
<1>6. PICK ph \in Nat : ph = p * h
  BY Products
<1>7. \A s : RoomFor(r, s) <=> e + ph <= lim + s
  BY <1>2, <1>3, <1>4, <1>5, <1>6 DEF RoomFor
<1>8. CASE RoomFor(r, 0)
  BY <1>2, <1>3, <1>7, <1>8
<1>9. ASSUME NEW w \in Pending(r), RoomFor(r, Heaviest - Needs(w)) PROVE e <= lim
  <2>1. PICK n \in Nat : n = Needs(w)
    BY <1>1, PendingType
  <2>2. e + ph <= lim + (h - n)
    BY <1>4, <1>7, <1>9, <2>1
  <2>3. 1 <= p
    BY <1>1, <1>5, PendingType, FS_EmptySet
  <2>4. h <= ph
    <3>1. 1 * h <= p * h /\ 1 * h = h
      BY <2>3, Products
    <3> QED BY <1>6, <3>1
  <2> QED BY <2>2, <2>4
<1> QED BY <1>1, <1>2, <1>3, <1>8, <1>9 DEF RoomLeft

\* What jobs, retries and restarts keep of the copies and of what they cost:
\* the fee of a copy is settled at most once and after it was closed
\* (settleCopyClose), and linked copies exceed what a relation allocated by no
\* more than one copy for each other worker (openMirroredTrade).
THEOREM CopiesKept == Spec => []CopiesAreKept
<1>1. IInv => CopiesAreKept
  BY RoomBounds DEF IInv, CopiesAreKept
<1> QED BY <1>1, Invariance, PTL

-----------------------------------------------------------------------------
(***************************************************************************)
(* Affiliates: the hierarchy, the commissions and their payout. The        *)
(* inductive invariant, by parts.                                          *)
(***************************************************************************)
Reviews     == [pc : {"approve", "pay"}, row : Rows]
Assignments == [pc : {"walk", "assign"}, affiliate : Users, above : Users, at : Users]
Uplines     == [pc : {"none", "climb", "create", "done"}, at : Users \cup {None},
                found : Seq(Users)]

Typed ==
  /\ registered \in SUBSET Users /\ members \in SUBSET registered
  /\ referral \in [Users -> Users \cup {None}]
  /\ parent \in [Users -> Users \cup {None}]
  /\ upline \in [Orders -> Uplines]
  /\ status \in [Rows -> Statuses]
  /\ credits \in [Rows -> 0 .. 2]
  /\ request \in [Admins -> {NoRequest} \cup Reviews \cup Assignments]
  /\ serial \in BOOLEAN

\* An order climbs while it has found fewer affiliates than share in it.
Climbing ==
  \A o \in Orders :
    /\ Len(upline[o].found) <= MaxLevel
    /\ upline[o].pc = "climb" => upline[o].at \in Users /\ Len(upline[o].found) < MaxLevel

\* Only affiliates refer, are parents and are arranged; whoever is none yet
\* has no parent.
Arranged ==
  /\ \A u \in Users : referral[u] \in (members \ {u}) \cup {None}
  /\ \A u \in Users : parent[u] \in members \cup {None}
  /\ \A u \in Users \ members : parent[u] = None
  /\ \A x \in Admins : request[x] \in Assignments =>
       {request[x].affiliate, request[x].above, request[x].at} \subseteq members

Alone ==
  serial => \A x, y \in Admins : request[x] # NoRequest /\ request[y] # NoRequest => x = y

\* The affiliates from the candidate up to where a walk is, which stay there
\* while administrators act one at a time.
WalkedOver(x, W) ==
  /\ request[x].affiliate \notin W
  /\ request[x].pc = "walk" =>
       /\ request[x].above \in W \cup {request[x].at}
       /\ \A w \in W : parent[w] \in W \cup {request[x].at}
  /\ request[x].pc = "assign" =>
       /\ request[x].above \in W
       /\ \A w \in W : parent[w] \in W \cup {None}

Walked ==
  serial => \A x \in Admins : request[x] \in Assignments =>
              \E W \in SUBSET members : WalkedOver(x, W)

\* What an administrator read of a commission before it writes.
Reviewed ==
  \A x \in Admins : request[x] \in Reviews =>
    LET s == status[request[x].row]
    IN  /\ s # "none"
        /\ request[x].pc = "pay" => s \in {"APPROVED", "PAID"}
        /\ serial => s = (IF request[x].pc = "pay" THEN "APPROVED" ELSE "PENDING")

\* The commissions of an order are created at the end of its climb.
NotYetEarned ==
  \A o \in Orders : upline[o].pc # "done" =>
    \A r \in Rows : r[2] = o => status[r] = "none"

AffiliatesIInv ==
  /\ Typed /\ Climbing /\ Arranged /\ Alone /\ Walked /\ HierarchyIsForest
  /\ Reviewed /\ NotYetEarned /\ OneCommissionPerAffiliate /\ CreditedIfPaid
-----------------------------------------------------------------------------
\* The kinds of requests are told apart by their pc.
LEMMA RequestKinds ==
  ASSUME Typed, NEW x \in Admins
  PROVE  /\ request[x].pc \in {"walk", "assign"} <=> request[x] \in Assignments
         /\ request[x].pc \in {"approve", "pay"} <=> request[x] \in Reviews
         /\ request[x] \in Assignments \cup Reviews => request[x] # NoRequest
         /\ request[x] # NoRequest => request[x] \in Assignments \cup Reviews
<1>1. request[x] \in {NoRequest} \cup Reviews \cup Assignments
  BY DEF Typed
<1>2. NoRequest.pc = "idle"
  BY DEF NoRequest
<1>3. request[x] \in Assignments => request[x].pc \in {"walk", "assign"}
  BY DEF Assignments
<1>4. request[x] \in Reviews => request[x].pc \in {"approve", "pay"}
  BY DEF Reviews
<1> QED BY <1>1, <1>2, <1>3, <1>4

LEMMA InitIInv == AffiliatesInit => AffiliatesIInv
<1> SUFFICES ASSUME AffiliatesInit PROVE AffiliatesIInv
  OBVIOUS
<1> USE DEF AffiliatesInit
<1>1. Typed
  <2>1. Fresh \in Uplines
    BY DEF Fresh, Uplines
  <2> QED BY <2>1 DEF Typed, Statuses
<1>2. Climbing
  BY AffiliateAssumption DEF Climbing, Fresh
<1>3. \A x \in Admins :
        request[x] \notin Assignments /\ request[x] \notin Reviews /\ request[x] = NoRequest
  BY DEF NoRequest, Assignments, Reviews
<1>4. Arranged /\ Alone /\ Walked /\ Reviewed
  BY <1>3 DEF Arranged, Alone, Walked, Reviewed
<1>5. HierarchyIsForest
  BY AffiliateAssumption DEF HierarchyIsForest
<1>6. NotYetEarned /\ OneCommissionPerAffiliate /\ CreditedIfPaid
  BY DEF NotYetEarned, OneCommissionPerAffiliate, CreditedIfPaid
<1> QED BY <1>1, <1>2, <1>4, <1>5, <1>6 DEF AffiliatesIInv

-----------------------------------------------------------------------------
(***************************************************************************)
(* Users register and apply. A new affiliate is nobody's parent yet, so    *)
(* whatever ring it closed would have to lead through its own referral.    *)
(***************************************************************************)
LEMMA RegisterKeeps ==
  ASSUME AffiliatesIInv, NEW u \in Users, Register(u)
  PROVE  AffiliatesIInv'
<1> USE DEF AffiliatesIInv
<1>1. PICK a \in members \cup {None} : referral' = [referral EXCEPT ![u] = a]
  BY DEF Register
<1>2. /\ u \notin registered /\ registered' = registered \cup {u}
      /\ UNCHANGED <<members, parent, upline, status, credits, request, serial>>
  BY DEF Register
<1>3. Typed'
  BY <1>1, <1>2 DEF Typed
<1>4. Arranged'
  <2>1. a \in (members \ {u}) \cup {None}
    BY <1>1, <1>2 DEF Typed
  <2>2. \A v \in Users : referral'[v] = IF v = u THEN a ELSE referral[v]
    BY <1>1 DEF Typed
  <2> QED BY <1>2, <2>1, <2>2 DEF Arranged
<1>5. Climbing' /\ Alone' /\ HierarchyIsForest' /\ Reviewed' /\ NotYetEarned'
      /\ OneCommissionPerAffiliate' /\ CreditedIfPaid'
  BY <1>2 DEF Climbing, Alone, HierarchyIsForest, Reviewed, NotYetEarned,
     OneCommissionPerAffiliate, CreditedIfPaid
<1>6. Walked'
  BY <1>2 DEF Walked, WalkedOver
<1> QED BY <1>3, <1>4, <1>5, <1>6

LEMMA ApplyKeeps ==
  ASSUME AffiliatesIInv, NEW u \in Users, Apply(u)
  PROVE  AffiliatesIInv'
<1> USE DEF AffiliatesIInv
<1>1. /\ u \in registered \ members /\ members' = members \cup {u}
      /\ parent' = [parent EXCEPT ![u] = referral[u]]
      /\ UNCHANGED <<registered, referral, upline, status, credits, request, serial>>
  BY DEF Apply
<1>2. Typed'
  BY <1>1 DEF Typed
<1>3. parent'[u] = referral[u] /\ \A v \in Users \ {u} : parent'[v] = parent[v]
  BY <1>1 DEF Typed
<1>4. referral[u] \in (members \ {u}) \cup {None} /\ \A v \in Users : parent[v] # u
  <2>1. u # None
    BY AffiliateAssumption
  <2> QED BY <1>1, <2>1 DEF Arranged
<1>5. Arranged'
  BY <1>1, <1>3, <1>4 DEF Arranged
<1>6. HierarchyIsForest'
  <2> SUFFICES ASSUME serial, NEW S \in SUBSET Users, S # {}
               PROVE  \E a \in S : parent'[a] \notin S
    BY <1>1 DEF HierarchyIsForest
  <2>1. CASE u \notin S
    <3>1. PICK a \in S : parent[a] \notin S
      BY DEF HierarchyIsForest
    <3> QED BY <1>3, <2>1, <3>1
  <2>2. CASE S = {u}
    BY <1>3, <1>4, <2>2, AffiliateAssumption
  <2>3. CASE u \in S /\ S # {u}
    <3>1. S \ {u} \in (SUBSET Users) \ {{}}
      BY <2>3
    <3>2. PICK a \in S \ {u} : parent[a] \notin S \ {u}
      BY <3>1 DEF HierarchyIsForest
    <3>3. parent'[a] \notin S
      BY <1>3, <1>4, <3>2
    <3> QED BY <3>2, <3>3
  <2> QED BY <2>1, <2>2, <2>3
<1>7. Walked'
  <2> SUFFICES ASSUME serial, NEW x \in Admins, request[x] \in Assignments
               PROVE  \E W \in SUBSET members' : WalkedOver(x, W)'
    BY <1>1 DEF Walked
  <2>1. PICK W \in SUBSET members : WalkedOver(x, W)
    BY DEF Walked
  <2>2. \A w \in W : parent'[w] = parent[w]
    BY <1>1, <1>3 DEF Typed
  <2>3. WalkedOver(x, W)'
    BY <1>1, <2>1, <2>2 DEF WalkedOver
  <2> QED BY <1>1, <2>3
<1>8. Climbing' /\ Alone' /\ Reviewed' /\ NotYetEarned' /\ OneCommissionPerAffiliate'
      /\ CreditedIfPaid'
  BY <1>1 DEF Climbing, Alone, Reviewed, NotYetEarned, OneCommissionPerAffiliate, CreditedIfPaid
<1> QED BY <1>2, <1>5, <1>6, <1>7, <1>8

-----------------------------------------------------------------------------
(***************************************************************************)
(* The hierarchy is arranged. What the walk has seen leads from the        *)
(* candidate to a root without the affiliate, and a set of affiliates      *)
(* whose parents are all among them would have to share that way.          *)
(***************************************************************************)
\* Requests move, and nothing else.
LEMMA RequestsMove ==
  ASSUME AffiliatesIInv, NEW x \in Admins, NEW r \in {NoRequest} \cup Reviews \cup Assignments,
         request' = [request EXCEPT ![x] = r],
         UNCHANGED <<registered, referral, members, parent, upline, status, credits, serial>>,
         request[x] = NoRequest => MayStart(x),
         r \in Assignments =>
           /\ {r.affiliate, r.above, r.at} \subseteq members
           /\ serial => \E W \in SUBSET members : WalkedOver(x, W)',
         r \in Reviews =>
           /\ status[r.row] # "none"
           /\ r.pc = "pay" => status[r.row] \in {"APPROVED", "PAID"}
           /\ serial => status[r.row] = (IF r.pc = "pay" THEN "APPROVED" ELSE "PENDING")
  PROVE  AffiliatesIInv'
<1> USE DEF AffiliatesIInv
<1>1. request'[x] = r /\ \A y \in Admins \ {x} : request'[y] = request[y]
  BY DEF Typed
<1>2. Typed'
  BY DEF Typed
<1>3. Arranged'
  BY <1>1 DEF Arranged
<1>4. Alone'
  <2>1. request[x] = NoRequest /\ serial => \A y \in Admins : request[y] = NoRequest
    BY DEF MayStart
  <2> QED BY <1>1, <2>1 DEF Alone
<1>5. Walked'
  <2> SUFFICES ASSUME serial, NEW y \in Admins, request'[y] \in Assignments
               PROVE  \E W \in SUBSET members' : WalkedOver(y, W)'
    BY DEF Walked
  <2>1. CASE y = x
    BY <1>1, <2>1
  <2>2. CASE y # x
    <3>1. PICK W \in SUBSET members : WalkedOver(y, W)
      BY <1>1, <2>2 DEF Walked
    <3>2. WalkedOver(y, W)'
      BY <1>1, <2>2, <3>1 DEF WalkedOver
    <3> QED BY <3>2
  <2> QED BY <2>1, <2>2
<1>6. Reviewed'
  BY <1>1 DEF Reviewed
<1>7. Climbing' /\ HierarchyIsForest' /\ NotYetEarned' /\ OneCommissionPerAffiliate'
      /\ CreditedIfPaid'
  BY DEF Climbing, HierarchyIsForest, NotYetEarned, OneCommissionPerAffiliate, CreditedIfPaid
<1> QED BY <1>2, <1>3, <1>4, <1>5, <1>6, <1>7

LEMMA EndsKeeps ==
  ASSUME AffiliatesIInv, NEW x \in Admins, request[x] # NoRequest, Ends(x),
         UNCHANGED <<registered, referral, members, parent, upline, status, credits, serial>>
  PROVE  AffiliatesIInv'
<1>1. NoRequest \notin Assignments /\ NoRequest \notin Reviews
  BY DEF NoRequest, Assignments, Reviews
<1>2. request' = [request EXCEPT ![x] = NoRequest]
  BY DEF Ends, RequestIs
<1> QED BY <1>1, <1>2, RequestsMove

LEMMA StartAssignKeeps ==
  ASSUME AffiliatesIInv, NEW x \in Admins, NEW a \in Users, NEW p \in Users, StartAssign(x, a, p)
  PROVE  AffiliatesIInv'
<1> DEFINE r == [pc |-> "walk", affiliate |-> a, above |-> p, at |-> p]
<1>1. /\ MayStart(x) /\ {a, p} \subseteq members /\ a # p
      /\ request' = [request EXCEPT ![x] = r]
      /\ UNCHANGED <<registered, referral, members, parent, upline, status, credits, serial>>
  BY DEF StartAssign, RequestIs
<1>2. r \in Assignments /\ r \notin Reviews
  BY DEF Assignments, Reviews
<1>3. request'[x] = r
  BY <1>1 DEF AffiliatesIInv, Typed
<1>4. WalkedOver(x, {})'
  BY <1>3 DEF WalkedOver
<1>5. {r.affiliate, r.above, r.at} \subseteq members
  BY <1>1
<1>6. \E W \in SUBSET members : WalkedOver(x, W)'
  BY <1>4
<1> HIDE DEF r
<1> QED BY <1>1, <1>2, <1>5, <1>6, RequestsMove

LEMMA WalkKeeps ==
  ASSUME AffiliatesIInv, NEW x \in Admins, Walk(x)
  PROVE  AffiliatesIInv'
<1> USE DEF AffiliatesIInv
<1>1. request[x].pc = "walk"
  BY DEF Walk
<1>2. request[x] \in Assignments /\ request[x] # NoRequest
  BY <1>1, RequestKinds
<1>3. CASE Ends(x)
  BY <1>2, <1>3, EndsKeeps DEF Walk
<1>4. CASE ~Ends(x)
  <2> DEFINE up == parent[request[x].at]
             r == IF up = None THEN [request[x] EXCEPT !.pc = "assign"]
                  ELSE [request[x] EXCEPT !.at = up]
  <2>1. /\ request[x].at # request[x].affiliate
        /\ request' = [request EXCEPT ![x] = r]
        /\ UNCHANGED <<registered, referral, members, parent, upline, status, credits, serial>>
    BY <1>4 DEF Walk, RequestIs
  <2>2. request[x].at \in members /\ up \in members \cup {None}
    BY <1>2 DEF Arranged, Assignments
  <2>3. r \in Assignments /\ r \notin Reviews
    <3>1. r \in Assignments
      BY <1>2, <2>2 DEF Assignments, Typed
    <3> QED BY <3>1 DEF Assignments, Reviews
  <2>4. /\ r.affiliate = request[x].affiliate /\ r.above = request[x].above
        /\ up = None => r.pc = "assign" /\ r.at = request[x].at
        /\ up # None => r.pc = "walk" /\ r.at = up
    BY <1>1, <1>2 DEF Assignments
  <2>5. {r.affiliate, r.above, r.at} \subseteq members
    BY <1>2, <2>2, <2>4 DEF Arranged
  <2>6. request'[x] = r
    BY <2>1 DEF Typed
  <2> HIDE DEF r
  <2>7. ASSUME serial
        PROVE  \E W \in SUBSET members : WalkedOver(x, W)'
    <3>1. PICK W \in SUBSET members : WalkedOver(x, W)
      BY <1>2, <2>7 DEF Walked
    <3>2. /\ request[x].affiliate \notin W
          /\ request[x].above \in W \cup {request[x].at}
          /\ \A w \in W : parent[w] \in W \cup {request[x].at}
      BY <1>1, <3>1 DEF WalkedOver
    <3>3. PICK V \in SUBSET members : V = W \cup {request[x].at}
      BY <2>2
    <3>4. \A w \in V : parent[w] \in V \cup {up}
      BY <3>2, <3>3
    <3>5. request[x].affiliate \notin V /\ request[x].above \in V /\ parent' = parent
      BY <2>1, <3>2, <3>3
    <3>6. WalkedOver(x, V)'
      BY <2>4, <2>6, <3>4, <3>5 DEF WalkedOver
    <3> QED BY <3>6
  <2> QED BY <1>2, <2>1, <2>3, <2>5, <2>7, RequestsMove
<1> QED BY <1>3, <1>4

LEMMA AssignKeeps ==
  ASSUME AffiliatesIInv, NEW x \in Admins, Assign(x)
  PROVE  AffiliatesIInv'
<1> USE DEF AffiliatesIInv
<1>1. /\ request[x].pc = "assign"
      /\ parent' = [parent EXCEPT ![request[x].affiliate] = request[x].above]
      /\ request' = [request EXCEPT ![x] = NoRequest]
      /\ UNCHANGED <<registered, referral, members, upline, status, credits, serial>>
  BY DEF Assign, Ends, RequestIs
<1>2. request[x] \in Assignments /\ request[x] # NoRequest
  BY <1>1, RequestKinds
<1>3. PICK a \in members : a = request[x].affiliate
  BY <1>2 DEF Arranged
<1>4. PICK p \in members : p = request[x].above
  BY <1>2 DEF Arranged
<1>5. parent'[a] = p /\ \A v \in Users \ {a} : parent'[v] = parent[v]
  BY <1>1, <1>3, <1>4 DEF Typed
<1>6. request'[x] = NoRequest /\ \A y \in Admins \ {x} : request'[y] = request[y]
  BY <1>1 DEF Typed
<1>7. Typed'
  BY <1>1, <1>3, <1>4 DEF Typed
<1>8. NoRequest \notin Assignments /\ NoRequest \notin Reviews
  BY DEF NoRequest, Assignments, Reviews
<1>9. Arranged'
  BY <1>1, <1>5, <1>6, <1>8 DEF Arranged
<1>10. Alone' /\ Reviewed'
  BY <1>1, <1>6, <1>8 DEF Alone, Reviewed
<1>11. serial => \A y \in Admins : request'[y] = NoRequest
  BY <1>2, <1>6 DEF Alone
<1>12. Walked'
  BY <1>1, <1>8, <1>11 DEF Walked
<1>13. HierarchyIsForest'
  <2> SUFFICES ASSUME serial, NEW S \in SUBSET Users, S # {}
               PROVE  \E s \in S : parent'[s] \notin S
    BY <1>1 DEF HierarchyIsForest
  <2>1. PICK W \in SUBSET members : WalkedOver(x, W)
    BY <1>2 DEF Walked
  <2>2. a \notin W /\ p \in W /\ \A w \in W : parent[w] \in W \cup {None}
    BY <1>1, <1>3, <1>4, <2>1 DEF WalkedOver
  <2>3. CASE a \notin S
    <3>1. PICK s \in S : parent[s] \notin S
      BY DEF HierarchyIsForest
    <3> QED BY <1>5, <2>3, <3>1
  <2>4. CASE a \in S /\ p \notin S
    BY <1>5, <2>4
  <2>5. CASE a \in S /\ p \in S
    <3>1. S \cap W \in (SUBSET Users) \ {{}}
      BY <2>2, <2>5
    <3>2. PICK s \in S \cap W : parent[s] \notin S \cap W
      BY <3>1 DEF HierarchyIsForest
    <3>3. parent'[s] = parent[s]
      BY <1>5, <2>2, <3>2
    <3>4. parent[s] \notin S
      BY <2>2, <3>2, AffiliateAssumption
    <3> QED BY <3>2, <3>3, <3>4
  <2> QED BY <2>3, <2>4, <2>5
<1>14. Climbing' /\ NotYetEarned' /\ OneCommissionPerAffiliate' /\ CreditedIfPaid'
  BY <1>1 DEF Climbing, NotYetEarned, OneCommissionPerAffiliate, CreditedIfPaid
<1> QED BY <1>7, <1>9, <1>10, <1>12, <1>13, <1>14
-----------------------------------------------------------------------------
(***************************************************************************)
(* Commissions are reviewed. A read is fresh when administrators act one   *)
(* at a time; otherwise it still tells that the commission was approved.   *)
(***************************************************************************)
LEMMA StartReviewKeeps ==
  ASSUME AffiliatesIInv, NEW x \in Admins, NEW r \in Rows, ReadToApprove(x, r) \/ ReadToPay(x, r)
  PROVE  AffiliatesIInv'
<1>1. PICK pc \in {"approve", "pay"} :
        StartReview(x, r, pc) /\ status[r] = (IF pc = "pay" THEN "APPROVED" ELSE "PENDING")
  BY DEF ReadToApprove, ReadToPay
<1> DEFINE q == [pc |-> pc, row |-> r]
<1>2. /\ MayStart(x)
      /\ request' = [request EXCEPT ![x] = q]
      /\ UNCHANGED <<registered, referral, members, parent, upline, status, credits, serial>>
  BY <1>1 DEF StartReview, RequestIs
<1>3. q \in Reviews /\ q \notin Assignments
  BY DEF Reviews, Assignments
<1>4. /\ status[q.row] # "none"
      /\ q.pc = "pay" => status[q.row] \in {"APPROVED", "PAID"}
      /\ status[q.row] = (IF q.pc = "pay" THEN "APPROVED" ELSE "PENDING")
  BY <1>1
<1> HIDE DEF q
<1> QED BY <1>2, <1>3, <1>4, RequestsMove

\* A review writes its outcome and ends; r is the row it holds.
LEMMA ReviewEnds ==
  ASSUME AffiliatesIInv, NEW x \in Admins, request[x] \in Reviews,
         NEW r \in Rows, r = request[x].row,
         NEW s \in {"APPROVED", "PAID"},
         request' = [request EXCEPT ![x] = NoRequest],
         status' = [status EXCEPT ![r] = s],
         UNCHANGED <<registered, referral, members, parent, upline, serial>>,
         credits' \in [Rows -> 0 .. 2],
         CreditedIfPaid'
  PROVE  AffiliatesIInv'
<1> USE DEF AffiliatesIInv
<1>1. request'[x] = NoRequest /\ \A y \in Admins \ {x} : request'[y] = request[y]
  BY DEF Typed
<1>2. NoRequest \notin Assignments /\ NoRequest \notin Reviews
  BY DEF NoRequest, Assignments, Reviews
<1>3. request[x] # NoRequest /\ status[r] # "none"
  BY RequestKinds DEF Reviewed
<1>4. \A q \in Rows : /\ status'[q] = "none" <=> status[q] = "none"
                      /\ status[q] \in {"APPROVED", "PAID"} => status'[q] \in {"APPROVED", "PAID"}
  BY <1>3 DEF Typed
<1>5. Typed'
  BY DEF Typed, Statuses
<1>6. Arranged' /\ Alone'
  BY <1>1, <1>2 DEF Arranged, Alone
<1>7. serial => \A y \in Admins : request'[y] = NoRequest
  BY <1>1, <1>3 DEF Alone
<1>8. Walked'
  BY <1>2, <1>7 DEF Walked
<1>9. Reviewed'
  <2> SUFFICES ASSUME NEW y \in Admins, request'[y] \in Reviews
               PROVE  /\ status'[request[y].row] # "none"
                      /\ request[y].pc = "pay" => status'[request[y].row] \in {"APPROVED", "PAID"}
                      /\ ~serial /\ request'[y] = request[y]
    BY DEF Reviewed
  <2>1. y # x /\ request'[y] = request[y] /\ ~serial
    BY <1>1, <1>2, <1>7
  <2>2. PICK q \in Rows : q = request[y].row
    BY <2>1 DEF Reviews
  <2>3. status[q] # "none" /\ (request[y].pc = "pay" => status[q] \in {"APPROVED", "PAID"})
    BY <2>1, <2>2 DEF Reviewed
  <2> QED BY <1>4, <2>1, <2>2, <2>3
<1>10. NotYetEarned' /\ OneCommissionPerAffiliate'
  BY <1>4 DEF NotYetEarned, OneCommissionPerAffiliate
<1>11. Climbing' /\ HierarchyIsForest'
  BY DEF Climbing, HierarchyIsForest
<1> QED BY <1>5, <1>6, <1>8, <1>9, <1>10, <1>11

LEMMA ApproveKeeps ==
  ASSUME AffiliatesIInv, NEW x \in Admins, Approve(x)
  PROVE  AffiliatesIInv'
<1>1. /\ request[x].pc = "approve"
      /\ status' = [status EXCEPT ![request[x].row] = "APPROVED"]
      /\ request' = [request EXCEPT ![x] = NoRequest]
      /\ UNCHANGED <<registered, referral, members, parent, upline, credits, serial>>
  BY DEF Approve, Ends, RequestIs
<1>2. request[x] \in Reviews
  BY <1>1, RequestKinds DEF AffiliatesIInv
<1>3. PICK r \in Rows : r = request[x].row
  BY <1>2 DEF Reviews
<1>4. CreditedIfPaid'
  <2> SUFFICES ASSUME serial, NEW q \in Rows
               PROVE  credits[q] = IF status'[q] = "PAID" THEN 1 ELSE 0
    BY <1>1 DEF CreditedIfPaid
  <2>1. status[r] = "PENDING"
    BY <1>1, <1>2, <1>3 DEF AffiliatesIInv, Reviewed
  <2>2. credits[q] = IF status[q] = "PAID" THEN 1 ELSE 0
    BY DEF AffiliatesIInv, CreditedIfPaid
  <2> QED BY <1>1, <1>3, <2>1, <2>2 DEF AffiliatesIInv, Typed
<1>5. credits' \in [Rows -> 0 .. 2]
  BY <1>1 DEF AffiliatesIInv, Typed
<1> QED BY <1>1, <1>2, <1>3, <1>4, <1>5, ReviewEnds

LEMMA PayKeeps ==
  ASSUME AffiliatesIInv, NEW x \in Admins, Pay(x)
  PROVE  AffiliatesIInv'
<1>1. /\ request[x].pc = "pay"
      /\ status' = [status EXCEPT ![request[x].row] = "PAID"]
      /\ Credited(request[x].row)
      /\ request' = [request EXCEPT ![x] = NoRequest]
      /\ UNCHANGED <<registered, referral, members, parent, upline, serial>>
  BY DEF Pay, Ends, RequestIs
<1>2. request[x] \in Reviews
  BY <1>1, RequestKinds DEF AffiliatesIInv
<1>3. PICK r \in Rows : r = request[x].row
  BY <1>2 DEF Reviews
<1>4. PICK n \in 0 .. 2 : n = credits[r]
  BY DEF AffiliatesIInv, Typed
<1>5. credits' = [credits EXCEPT ![r] = IF n = 2 THEN 2 ELSE n + 1]
  BY <1>1, <1>3, <1>4 DEF Credited
<1>6. credits' \in [Rows -> 0 .. 2]
  <2>1. (IF n = 2 THEN 2 ELSE n + 1) \in 0 .. 2
    OBVIOUS
  <2> QED BY <1>5, <2>1 DEF AffiliatesIInv, Typed
<1>7. CreditedIfPaid'
  <2> SUFFICES ASSUME serial, NEW q \in Rows
               PROVE  credits'[q] = IF status'[q] = "PAID" THEN 1 ELSE 0
    BY <1>1 DEF CreditedIfPaid
  <2>1. status[r] = "APPROVED"
    BY <1>1, <1>2, <1>3 DEF AffiliatesIInv, Reviewed
  <2>2. n = 0
    BY <1>4, <2>1 DEF AffiliatesIInv, CreditedIfPaid
  <2>3. CASE q = r
    BY <1>1, <1>3, <1>5, <2>2, <2>3 DEF AffiliatesIInv, Typed
  <2>4. CASE q # r
    <3>1. credits'[q] = credits[q] /\ status'[q] = status[q]
      BY <1>1, <1>3, <1>5, <2>4 DEF AffiliatesIInv, Typed
    <3> QED BY <3>1 DEF AffiliatesIInv, CreditedIfPaid
  <2> QED BY <2>3, <2>4
<1> QED BY <1>1, <1>2, <1>3, <1>6, <1>7, ReviewEnds

-----------------------------------------------------------------------------
(***************************************************************************)
(* Executed orders. An order's commissions are created once, at the end of *)
(* its climb, and the unique key keeps one row for an affiliate that was   *)
(* found twice.                                                            *)
(***************************************************************************)
\* An order moves on and creates nothing.
LEMMA UplineMoves ==
  ASSUME AffiliatesIInv, NEW o \in Orders, NEW u \in Uplines,
         upline' = [upline EXCEPT ![o] = u],
         UNCHANGED <<registered, referral, members, parent, status, credits, request, serial>>,
         Len(u.found) <= MaxLevel,
         u.pc = "climb" => u.at \in Users /\ Len(u.found) < MaxLevel,
         upline[o].pc # "done"
  PROVE  AffiliatesIInv'
<1> USE DEF AffiliatesIInv
<1>1. upline'[o] = u /\ \A q \in Orders \ {o} : upline'[q] = upline[q]
  BY DEF Typed
<1>2. Typed' /\ Climbing'
  BY <1>1 DEF Typed, Climbing
<1>3. NotYetEarned'
  BY <1>1 DEF NotYetEarned
<1>4. Arranged' /\ Alone' /\ HierarchyIsForest' /\ Reviewed' /\ OneCommissionPerAffiliate'
      /\ CreditedIfPaid'
  BY DEF Arranged, Alone, HierarchyIsForest, Reviewed, OneCommissionPerAffiliate, CreditedIfPaid
<1>5. Walked'
  BY DEF Walked, WalkedOver
<1> QED BY <1>2, <1>3, <1>4, <1>5

LEMMA ExecuteKeeps ==
  ASSUME AffiliatesIInv, NEW o \in Orders, NEW v \in Users, Execute(o, v)
  PROVE  AffiliatesIInv'
<1> DEFINE u == IF referral[v] = None THEN [Fresh EXCEPT !.pc = "done"]
                ELSE [Fresh EXCEPT !.pc = "climb", !.at = referral[v]]
<1>1. /\ upline[o] = Fresh
      /\ upline' = [upline EXCEPT ![o] = u]
      /\ UNCHANGED <<registered, referral, members, parent, status, credits, request, serial>>
  BY DEF Execute
<1>2. referral[v] \in Users \cup {None}
  BY DEF AffiliatesIInv, Typed
<1>3. u = [pc |-> IF referral[v] = None THEN "done" ELSE "climb",
           at |-> IF referral[v] = None THEN None ELSE referral[v], found |-> <<>>]
  BY DEF Fresh
<1> HIDE DEF u
<1>4. u \in Uplines /\ u.found = <<>> /\ (u.pc = "climb" => u.at \in Users)
  BY <1>2, <1>3 DEF Uplines
<1>5. upline[o].pc # "done"
  BY <1>1 DEF Fresh
<1>6. Len(u.found) <= MaxLevel /\ Len(u.found) < MaxLevel
  BY <1>4, AffiliateAssumption
<1> QED BY <1>1, <1>4, <1>5, <1>6, UplineMoves

LEMMA ClimbKeeps ==
  ASSUME AffiliatesIInv, NEW o \in Orders, Climb(o)
  PROVE  AffiliatesIInv'
<1> DEFINE found == Append(upline[o].found, upline[o].at)
           up    == parent[upline[o].at]
           u     == IF up = None \/ Len(found) = MaxLevel
                    THEN [pc |-> "create", at |-> None, found |-> found]
                    ELSE [pc |-> "climb", at |-> up, found |-> found]
<1>1. /\ upline[o].pc = "climb"
      /\ upline' = [upline EXCEPT ![o] = u]
      /\ UNCHANGED <<registered, referral, members, parent, status, credits, request, serial>>
  BY DEF Climb
<1>2. upline[o].at \in Users /\ Len(upline[o].found) < MaxLevel
  BY <1>1 DEF AffiliatesIInv, Climbing
<1>3. upline[o].found \in Seq(Users)
  BY DEF AffiliatesIInv, Typed, Uplines
<1>4. found \in Seq(Users) /\ Len(found) = Len(upline[o].found) + 1
  BY <1>2, <1>3
<1>5. up \in Users \cup {None}
  BY <1>2 DEF AffiliatesIInv, Typed
<1>6. Len(upline[o].found) \in Nat
  BY <1>3
<1>7. Len(found) <= MaxLevel
  BY <1>2, <1>4, <1>6, AffiliateAssumption
<1> HIDE DEF found, up
<1>8. u \in Uplines /\ u.found = found /\
      (u.pc = "climb" => u.at \in Users /\ Len(found) # MaxLevel)
  BY <1>4, <1>5 DEF Uplines
<1>9. Len(found) \in Nat
  BY <1>4, <1>6
<1>10. Len(u.found) <= MaxLevel /\ (u.pc = "climb" => u.at \in Users /\ Len(u.found) < MaxLevel)
  BY <1>7, <1>8, <1>9, AffiliateAssumption
<1>11. upline[o].pc # "done"
  BY <1>1
<1> HIDE DEF u
<1> QED BY <1>1, <1>8, <1>10, <1>11, UplineMoves

LEMMA CreateKeeps ==
  ASSUME AffiliatesIInv, NEW o \in Orders, CreateCommissions(o)
  PROVE  AffiliatesIInv'
<1> DEFINE u == [Fresh EXCEPT !.pc = "done"]
<1>1. /\ upline[o].pc = "create"
      /\ upline' = [upline EXCEPT ![o] = u]
      /\ UNCHANGED <<registered, referral, members, parent, credits, request, serial>>
  BY DEF CreateCommissions
<1>0. u = [pc |-> "done", at |-> None, found |-> <<>>]
  BY DEF Fresh
<1> HIDE DEF u
<1>2. u \in Uplines /\ u.found = <<>> /\ u.pc = "done"
  BY <1>0 DEF Uplines
<1>3. Len(u.found) <= MaxLevel
  BY <1>2, AffiliateAssumption
<1>4. \A r \in Rows : r[2] = o => status[r] = "none"
  BY <1>1 DEF AffiliatesIInv, NotYetEarned
<1>5. CASE UNCHANGED status
  BY <1>1, <1>2, <1>3, <1>5, UplineMoves
<1>6. CASE status' = [r \in Rows |-> IF r \in NewRows(o) THEN "PENDING" ELSE status[r]]
  <2> USE DEF AffiliatesIInv
  <2>1. \A r \in Rows : r \in NewRows(o) => r[2] = o /\ status[r] = "none"
    BY <1>4 DEF NewRows, Found
  <2>2. \A r \in Rows : status'[r] = IF r \in NewRows(o) THEN "PENDING" ELSE status[r]
    BY <1>6
  <2>3. upline'[o] = u /\ \A q \in Orders \ {o} : upline'[q] = upline[q]
    BY <1>1 DEF Typed
  <2>4. Typed'
    <3>1. status' \in [Rows -> Statuses]
      BY <1>6 DEF Typed, Statuses
    <3> QED BY <1>1, <1>2, <3>1 DEF Typed
  <2>5. Climbing'
    BY <1>2, <1>3, <2>3 DEF Climbing
  <2>6. NotYetEarned'
    <3> SUFFICES ASSUME NEW q \in Orders, upline'[q].pc # "done", NEW r \in Rows, r[2] = q
                 PROVE  status'[r] = "none"
      BY DEF NotYetEarned
    <3>1. q # o /\ upline'[q] = upline[q]
      BY <1>2, <2>3
    <3>2. status[r] = "none" /\ r \notin NewRows(o)
      BY <2>1, <3>1 DEF NotYetEarned
    <3> QED BY <2>2, <3>2
  <2>7. OneCommissionPerAffiliate'
    <3> SUFFICES ASSUME NEW r \in Rows, NEW s \in Rows, status'[r] # "none", status'[s] # "none",
                        r[1] = s[1], r[2] = s[2]
                 PROVE  r = s
      BY DEF OneCommissionPerAffiliate
    <3>1. CASE r[2] # o
      <4>1. status[r] # "none" /\ status[s] # "none"
        BY <2>1, <2>2, <3>1
      <4> QED BY <4>1 DEF OneCommissionPerAffiliate
    <3>2. CASE r[2] = o
      <4>1. r \in NewRows(o) /\ s \in NewRows(o)
        BY <1>4, <2>2, <3>2
      <4>2. ~(r[3] < s[3]) /\ ~(s[3] < r[3])
        BY <4>1 DEF NewRows
      <4>3. r[3] \in Int /\ s[3] \in Int
        BY DEF Rows
      <4>4. r[3] = s[3]
        BY <4>2, <4>3
      <4> QED BY <4>4 DEF Rows
    <3> QED BY <3>1, <3>2
  <2>8. CreditedIfPaid'
    <3> SUFFICES ASSUME serial, NEW r \in Rows
                 PROVE  credits[r] = IF status'[r] = "PAID" THEN 1 ELSE 0
      BY <1>1 DEF CreditedIfPaid
    <3>1. credits[r] = IF status[r] = "PAID" THEN 1 ELSE 0
      BY DEF CreditedIfPaid
    <3> QED BY <2>1, <2>2, <3>1
  <2>9. Reviewed'
    <3> SUFFICES ASSUME NEW x \in Admins, request[x] \in Reviews
                 PROVE  status'[request[x].row] = status[request[x].row]
      BY <1>1 DEF Reviewed
    <3>1. PICK q \in Rows : q = request[x].row
      BY DEF Reviews
    <3>2. status[q] # "none"
      BY <3>1 DEF Reviewed
    <3> QED BY <2>1, <2>2, <3>1, <3>2
  <2>10. Arranged' /\ Alone' /\ HierarchyIsForest'
    BY <1>1 DEF Arranged, Alone, HierarchyIsForest
  <2>11. Walked'
    BY <1>1 DEF Walked, WalkedOver
  <2> QED BY <2>4, <2>5, <2>6, <2>7, <2>8, <2>9, <2>10, <2>11
<1> QED BY <1>5, <1>6 DEF CreateCommissions

-----------------------------------------------------------------------------
LEMMA NextIInv == AffiliatesIInv /\ [AffiliatesNext]_affiliateVars => AffiliatesIInv'
<1> SUFFICES ASSUME AffiliatesIInv, [AffiliatesNext]_affiliateVars PROVE AffiliatesIInv'
  OBVIOUS
<1>1. ASSUME NEW x \in Admins, AdminStep(x)
      PROVE  AffiliatesIInv'
  <2>1. CASE Abandon(x)
    BY <2>1, EndsKeeps DEF Abandon
  <2> QED BY <1>1, <2>1, StartAssignKeeps, WalkKeeps, AssignKeeps, StartReviewKeeps, ApproveKeeps,
             PayKeeps DEF AdminStep
<1>2. CASE UNCHANGED affiliateVars
  <2>1. /\ Typed' /\ Climbing' /\ Arranged' /\ Alone' /\ HierarchyIsForest' /\ Reviewed'
        /\ NotYetEarned' /\ OneCommissionPerAffiliate' /\ CreditedIfPaid'
    BY <1>2 DEF AffiliatesIInv, affiliateVars, Typed, Climbing, Arranged, Alone,
           HierarchyIsForest, Reviewed,
       NotYetEarned, OneCommissionPerAffiliate, CreditedIfPaid
  <2>2. Walked'
    BY <1>2 DEF AffiliatesIInv, affiliateVars, Walked, WalkedOver
  <2> QED BY <2>1, <2>2 DEF AffiliatesIInv
<1> QED BY <1>1, <1>2, RegisterKeeps, ApplyKeeps, ExecuteKeeps, ClimbKeeps, CreateKeeps
         DEF AffiliatesNext

\* The inductive invariant holds in every reachable state.
THEOREM AffiliatesInvariance == AffiliatesSpec => []AffiliatesIInv
<1>1. AffiliatesInit => AffiliatesIInv
  BY InitIInv
<1>2. AffiliatesIInv /\ [AffiliatesNext]_affiliateVars => AffiliatesIInv'
  BY NextIInv
<1> QED BY <1>1, <1>2, PTL DEF AffiliatesSpec

LEMMA IInvType == AffiliatesIInv => AffiliateTypes
<1> SUFFICES ASSUME AffiliatesIInv PROVE AffiliateTypes
  OBVIOUS
<1>1. \A x \in Admins : request[x].pc \in {"idle", "walk", "assign", "approve", "pay"}
  <2> SUFFICES ASSUME NEW x \in Admins
               PROVE  request[x].pc \in {"idle", "walk", "assign", "approve", "pay"}
    OBVIOUS
  <2>1. request[x] # NoRequest => request[x].pc \in {"walk", "assign", "approve", "pay"}
    BY RequestKinds DEF AffiliatesIInv
  <2> QED BY <2>1 DEF NoRequest
<1>2. \A o \in Orders :
        /\ upline[o].pc \in {"none", "climb", "create", "done"}
        /\ upline[o].at \in Users \cup {None}
        /\ upline[o].found \in Seq(Users) /\ Len(upline[o].found) <= MaxLevel
  BY DEF AffiliatesIInv, Typed, Climbing, Uplines
<1> QED BY <1>1, <1>2 DEF AffiliatesIInv, Typed, AffiliateTypes

\* Types; no ring of affiliates while administrators act one at a time; one
\* commission per order and affiliate; and a commission is credited as often as
\* it is PAID, while administrators act one at a time.
THEOREM AffiliatesAgreed == AffiliatesSpec => []AffiliatesAgree
<1>1. AffiliatesIInv => AffiliatesAgree
  BY IInvType DEF AffiliatesIInv, AffiliatesAgree
<1> QED BY <1>1, AffiliatesInvariance, PTL

\* No payout, however late, credits a commission that was never approved.
THEOREM CreditsApproved == AffiliatesSpec => CreditNeedsApproval
<1>1. AffiliatesIInv /\ [AffiliatesNext]_affiliateVars =>
        [\A r \in Rows : credits'[r] # credits[r] =>
                          status[r] \in {"APPROVED", "PAID"}]_affiliateVars
  <2> SUFFICES ASSUME AffiliatesIInv, [AffiliatesNext]_affiliateVars,
                      NEW r \in Rows, credits'[r] # credits[r]
               PROVE  status[r] \in {"APPROVED", "PAID"}
    OBVIOUS
  <2>1. PICK x \in Admins : Pay(x)
    BY DEF AffiliatesNext, affiliateVars, Register, Apply, Execute, Climb, CreateCommissions,
           AdminStep, StartAssign,
       Walk, Assign, ReadToApprove, ReadToPay, StartReview, Approve, Abandon
  <2>2. request[x] \in Reviews /\ request[x].pc = "pay"
    BY <2>1, RequestKinds DEF Pay, AffiliatesIInv
  <2>3. r = request[x].row
    BY <2>1 DEF Pay, Credited, AffiliatesIInv, Typed
  <2> QED BY <2>2, <2>3 DEF AffiliatesIInv, Reviewed
<1> QED BY <1>1, AffiliatesInvariance, PTL DEF AffiliatesSpec, CreditNeedsApproval
=============================================================================
