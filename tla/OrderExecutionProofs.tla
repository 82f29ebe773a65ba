------------------------ MODULE OrderExecutionProofs ------------------------
(***************************************************************************)
(* Theorems about OrderExecution, for any number of rows, callers, workers *)
(* and faults.                                                             *)
(*                                                                         *)
(* IInv types every variable, says where each process stands in its row,   *)
(* and gives a row in PROCESSING one executor at most; what is final       *)
(* follows from it. LimitInv adds what an executor's quote is to the limit *)
(* of its order from its check to the commit. CalmInv is about histories   *)
(* without a fault: every row that is not decided is scheduled somewhere.  *)
(***************************************************************************)
EXTENDS OrderExecution, TLAPS

USE DEF Orders, Procs, None

LEMMA NoRequestType == NoRequest \in Requests
<1>1. PICK p \in Payloads, m \in Modes : TRUE
  BY DataAssumption
<1>2. [key |-> NoKey, payload |-> p, direct |-> m] \in Requests
  BY DEF Requests
<1> QED BY <1>2 DEF NoRequest

LEMMA PriceType ==
  ASSUME NEW p \in Payloads, NEW q \in Quotes
  PROVE  ResolveExecutionPrice(p, q) \in Nat
  BY DataAssumption DEF ResolveExecutionPrice

LEMMA TypeInit == Init => TypeOK
  BY NoRequestType, BoundsAssumption DEF Init, TypeOK, Causes, JobStates, PCs, Statuses

\* A process that handles a row has one.
HandlesRow ==
  \A p \in Procs : pc[p] \in Executing \cup {"claim", "placed"} => at[p] \in Orders

LEMMA GotoType ==
  ASSUME TypeOK, NEW p \in Procs, NEW label \in PCs, Goto(p, label)
  PROVE  pc' \in [Procs -> PCs]
  BY DEF TypeOK, Goto

LEMMA LeaveType ==
  ASSUME TypeOK, NEW p \in Procs, NEW x \in {"done", "failed"}, Leave(p, x)
  PROVE  /\ pc' \in [Procs -> PCs] /\ at' \in [Procs -> Orders \cup {None}]
         /\ quoted' \in [Procs -> Nat] /\ cause' \in [Procs -> Causes]
         /\ call' \in [Callers -> Requests]
         /\ todo' = todo /\ holds' = holds
  BY NoRequestType DEF TypeOK, Leave, Goto, PCs, Causes

LEMMA AnswerType ==
  ASSUME TypeOK, NEW c \in Callers, NEW r, NEW o \in Orders, AnswerExisting(c, r, o),
         UNCHANGED <<rows, queue, env>>
  PROVE  TypeOK'
<1>1. CASE Leave(c, "done")
  BY <1>1, LeaveType DEF TypeOK, rows, queue, env
<1>2. CASE ~Leave(c, "done")
  <2>1. /\ Goto(c, "claim")
        /\ at' = [at EXCEPT ![c] = o]
        /\ call' = [call EXCEPT ![c] = NoRequest]
        /\ UNCHANGED <<quoted, cause, todo, holds>>
    BY <1>2 DEF AnswerExisting
  <2> QED BY <2>1, NoRequestType DEF TypeOK, Goto, rows, queue, env, PCs
<1> QED BY <1>1, <1>2

LEMMA ThrowType ==
  ASSUME TypeOK, NEW p \in Procs, NEW why \in Causes, Throw(p, why),
         UNCHANGED <<rows, queue, env>>
  PROVE  TypeOK'
  BY DEF Throw, TypeOK, Goto, rows, queue, env, PCs, Executing

LEMMA FaultEnv ==
  ASSUME TypeOK, OneFault
  PROVE  trading' \in BOOLEAN /\ toggles' \in 0 .. MaxToggles /\ faults' \in 0 .. MaxFaults
  BY BoundsAssumption DEF TypeOK, OneFault

LEMMA CallerType ==
  ASSUME TypeOK, HandlesRow, NEW c \in Callers, CallerStep(c)
  PROVE  TypeOK'
<1>1. CASE Preflight(c)
  BY <1>1 DEF Preflight, TypeOK, Goto, rows, queue, env, PCs
<1>2. CASE PreflightRefuses(c)
  BY <1>2, LeaveType DEF PreflightRefuses, TypeOK, rows, queue, env
<1>3. CASE Create(c)
  <2>1. PICK o \in Orders :
             /\ status' = [status EXCEPT ![o] = "PENDING"]
             /\ request' = [request EXCEPT ![o] = call[c]]
             /\ at' = [at EXCEPT ![c] = o]
    BY <1>3 DEF Create
  <2>2. /\ status' \in [Orders -> Statuses \cup {"ABSENT"}]
        /\ request' \in [Orders -> Requests]
        /\ at' \in [Procs -> Orders \cup {None}]
    BY <2>1 DEF TypeOK, Statuses
  <2>3. pc' \in [Procs -> PCs]
    BY <1>3, GotoType DEF Create, PCs
  <2>4. UNCHANGED <<reason, fill, position, queue, env, quoted, cause, call, todo, holds>>
    BY <1>3 DEF Create
  <2> QED BY <2>2, <2>3, <2>4 DEF TypeOK, queue, env
<1>4. CASE CreateConflicts(c)
  <2>1. PICK o \in Orders : AnswerExisting(c, call[c], o)
    BY <1>4 DEF CreateConflicts, UniqueIndexHits, FindIdempotentOrder, Placed
  <2> QED BY <1>4, <2>1, AnswerType DEF CreateConflicts
<1>5. CASE EnqueueOrderExecution(c)
  BY <1>5, LeaveType DEF EnqueueOrderExecution, TypeOK, rows, env, JobStates
<1>6. CASE ExecuteDirectly(c)
  BY <1>6, NoRequestType DEF ExecuteDirectly, TypeOK, Goto, rows, queue, env, PCs
<1> QED BY <1>1, <1>2, <1>3, <1>4, <1>5, <1>6 DEF CallerStep

LEMMA ExecutionType ==
  ASSUME TypeOK, HandlesRow, NEW p \in Procs, ExecutionStep(p)
  PROVE  TypeOK'
<1>1. CASE Claim(p)
  <2>1. UNCHANGED <<request, reason, fill, position, queue, env>>
    BY <1>1 DEF Claim
  <2>2. CASE Claimable(status[at[p]])
    <3>1. /\ status' = [status EXCEPT ![at[p]] = "PROCESSING"]
          /\ Goto(p, "load")
          /\ UNCHANGED <<at, quoted, cause, call, todo, holds>>
      BY <1>1, <2>2 DEF Claim
    <3>2. status' \in [Orders -> Statuses \cup {"ABSENT"}]
      BY <3>1 DEF TypeOK, Statuses
    <3>3. pc' \in [Procs -> PCs]
      BY <3>1, GotoType DEF PCs, Executing
    <3> QED BY <2>1, <3>1, <3>2, <3>3 DEF TypeOK, queue, env
  <2>3. CASE ~Claimable(status[at[p]])
    BY <1>1, <2>1, <2>3, LeaveType DEF Claim, TypeOK, queue, env
  <2> QED BY <2>2, <2>3
<1>2. CASE Load(p)
  BY <1>2 DEF Load, TypeOK, Goto, rows, queue, env, PCs, Executing, InTry
<1>3. CASE PriceHalted(p)
  BY <1>3, ThrowType DEF PriceHalted, Causes
<1>4. ASSUME NEW q \in Quotes, Price(p, q)
      PROVE  TypeOK'
  <2>1. PayloadOf(p) \in Payloads
    BY <1>4 DEF Price, HandlesRow, PayloadOf, TypeOK, Requests, Executing, InTry
  <2>2. ResolveExecutionPrice(PayloadOf(p), q) \in Nat
    BY <2>1, PriceType
  <2>3. ASSUME NEW label \in {"rest", "risk"}, NEW price \in Nat, Goto(p, label),
               quoted' = quoted \/ quoted' = [quoted EXCEPT ![p] = price],
               UNCHANGED <<rows, queue, env, at, cause, call, todo, holds>>
        PROVE  TypeOK'
    BY <2>3 DEF TypeOK, Goto, rows, queue, env, PCs, Executing, InTry
  <2> QED BY <1>4, <2>2, <2>3, ThrowType DEF Price, Causes
<1>5. CASE Rest(p)
  <2>1. status' = [status EXCEPT ![at[p]] = "OPEN"]
    BY <1>5 DEF Rest, RestStatus
  <2>2. status' \in [Orders -> Statuses \cup {"ABSENT"}]
    BY <2>1 DEF TypeOK, Statuses
  <2>3. /\ Leave(p, "done")
        /\ UNCHANGED <<request, reason, fill, position, queue, env>>
    BY <1>5 DEF Rest
  <2> QED BY <2>2, <2>3, LeaveType DEF TypeOK, queue, env
<1>6. CASE Risk(p)
  <2>1. CASE CanBeOpened(PayloadOf(p))
    <3>1. /\ Goto(p, "commit")
          /\ UNCHANGED <<rows, queue, env, at, quoted, cause, call, todo, holds>>
      BY <1>6, <2>1 DEF Risk
    <3>2. pc' \in [Procs -> PCs]
      BY <3>1, GotoType DEF PCs, Executing, InTry
    <3> QED BY <3>1, <3>2 DEF TypeOK, rows, queue, env
  <2>2. CASE ~CanBeOpened(PayloadOf(p))
    BY <1>6, <2>2, ThrowType DEF Risk, Causes
  <2> QED BY <2>1, <2>2
<1>7. CASE Commit(p)
  <2>1. CASE position[at[p]] = "none"
    <3>0. /\ status' = [status EXCEPT ![at[p]] = "EXECUTED"]
          /\ fill' = [fill EXCEPT ![at[p]] = quoted[p]]
          /\ reason' = [reason EXCEPT ![at[p]] = "none"]
          /\ position' = [position EXCEPT ![at[p]] = "open"]
      BY <1>7, <2>1 DEF Commit
    <3>1. /\ status' \in [Orders -> Statuses \cup {"ABSENT"}]
          /\ reason' \in [Orders -> Causes]
          /\ fill' \in [Orders -> Nat]
          /\ position' \in [Orders -> {"none", "open", "closed"}]
      BY <3>0 DEF TypeOK, Causes, Statuses
    <3>2. /\ pc' \in [Procs -> PCs]
          /\ UNCHANGED <<request, queue, env, at, quoted, cause, call, todo, holds>>
      BY <1>7, <2>1 DEF Commit, TypeOK, Goto, PCs, Executing, InTry
    <3> QED BY <3>1, <3>2 DEF TypeOK, queue, env
  <2>2. CASE position[at[p]] # "none"
    <3>1. Throw(p, "error") /\ UNCHANGED <<rows, queue, env>>
      BY <1>7, <2>2 DEF Commit, rows, queue, env
    <3> QED BY <3>1, ThrowType DEF Causes
  <2> QED BY <2>1, <2>2
<1>8. CASE After(p)
  BY <1>8, LeaveType DEF After, TypeOK, rows, queue, env
<1>9. CASE Reject(p)
  <2>1. /\ status' \in [Orders -> Statuses \cup {"ABSENT"}]
        /\ reason' \in [Orders -> Causes]
    BY <1>9 DEF Reject, TypeOK, Statuses
  <2>2. CASE Leave(p, "done") /\ UNCHANGED env
    BY <1>9, <2>1, <2>2, LeaveType DEF Reject, TypeOK, queue, env
  <2>3. CASE Leave(p, "failed") /\ OneFault
    <3>1. faults' \in 0 .. MaxFaults /\ trading' \in BOOLEAN /\ toggles' \in 0 .. MaxToggles
      BY <2>3, FaultEnv
    <3> QED BY <1>9, <2>1, <2>3, <3>1, LeaveType DEF Reject, TypeOK, queue
  <2> QED BY <1>9, <2>2, <2>3 DEF Reject
<1> QED BY <1>1, <1>2, <1>3, <1>4, <1>5, <1>6, <1>7, <1>8, <1>9 DEF ExecutionStep

LEMMA WorkerType ==
  ASSUME TypeOK, NEW w \in Workers,
         WorkerStep(w) \/ ProcessLimitSweep(w) \/ \E o \in Orders : TakeJob(w, o)
  PROVE  TypeOK'
<1>1. CASE CompleteJob(w)
  BY <1>1 DEF CompleteJob, Release, TypeOK, Goto, rows, env, PCs, JobStates
<1>2. CASE FailJob(w)
  <2>1. holds[w] \in Orders
    BY <1>2 DEF FailJob, TypeOK
  <2>2. attempts' \in [Orders -> Nat]
    BY <1>2, <2>1 DEF FailJob, TypeOK
  <2>3. job' \in [Orders -> JobStates]
    <3>1. PICK s \in JobStates : job' = [job EXCEPT ![holds[w]] = s]
      BY <1>2 DEF FailJob, JobStates
    <3> QED BY <3>1 DEF TypeOK
  <2>4. /\ Release(w)
        /\ UNCHANGED <<rows, env>>
    BY <1>2 DEF FailJob
  <2> QED BY <2>2, <2>3, <2>4 DEF Release, TypeOK, Goto, rows, env, PCs
<1>3. ASSUME NEW batch \in SUBSET Orders, TryNext(w, batch)
      PROVE  TypeOK'
  <2>1. PICK oldest \in Orders :
             /\ at' = [at EXCEPT ![w] = oldest]
             /\ todo' = [todo EXCEPT ![w] = batch \ {oldest}]
    BY <1>3 DEF TryNext
  <2>2. /\ at' \in [Procs -> Orders \cup {None}]
        /\ todo' \in [Workers -> SUBSET Orders]
    BY <1>3, <2>1 DEF TypeOK
  <2>3. pc' \in [Procs -> PCs]
    BY <1>3, GotoType DEF TryNext, PCs
  <2> QED BY <1>3, <2>2, <2>3 DEF TryNext, TypeOK, rows, queue, env
<1>4. CASE SweepNext(w)
  BY <1>3, <1>4 DEF SweepNext, TypeOK
<1>5. CASE SweepEnds(w)
  BY <1>5 DEF SweepEnds, Release, TypeOK, Goto, rows, queue, env, PCs
<1>6. CASE ProcessLimitSweep(w)
  <2>1. SweepBatch \in SUBSET Orders
    BY DEF SweepBatch, Sweepable
  <2> QED BY <1>3, <1>6, <2>1 DEF ProcessLimitSweep
<1>7. ASSUME NEW o \in Orders, TakeJob(w, o)
      PROVE  TypeOK'
  BY <1>7 DEF TakeJob, TypeOK, Goto, rows, env, PCs, JobStates
<1> QED BY <1>1, <1>2, <1>4, <1>5, <1>6, <1>7 DEF WorkerStep

LEMMA FaultType ==
  ASSUME TypeOK, FaultStep
  PROVE  TypeOK'
<1>1. ASSUME NEW c \in Callers, PlacedFails(c)
      PROVE  TypeOK'
  BY <1>1, LeaveType, FaultEnv DEF PlacedFails, TypeOK, rows, queue
<1>2. ASSUME NEW p \in Procs, TryFails(p)
      PROVE  TypeOK'
  BY <1>2, FaultEnv DEF TryFails, Throw, TypeOK, Goto, rows, queue, PCs, Executing, Causes
<1>3. ASSUME NEW p \in Procs, ExecutionFails(p)
      PROVE  TypeOK'
  BY <1>3, LeaveType, FaultEnv DEF ExecutionFails, TypeOK, rows, queue
<1>4. CASE Crash
  BY <1>4, NoRequestType, FaultEnv DEF Crash, TypeOK, rows, queue, PCs, Causes
<1> QED BY <1>1, <1>2, <1>3, <1>4 DEF FaultStep

LEMMA TypeNext == TypeOK /\ HandlesRow /\ [Next]_vars => TypeOK'
<1> SUFFICES ASSUME TypeOK, HandlesRow, [Next]_vars PROVE TypeOK'
  OBVIOUS
<1>1. ASSUME NEW c \in Callers, NEW r \in Requests, ReceiveNew(c, r)
      PROVE  TypeOK'
  BY <1>1 DEF ReceiveNew, TypeOK, Goto, rows, queue, env, PCs
<1>2. ASSUME NEW c \in Callers, NEW r \in Requests, ReceiveDuplicate(c, r)
      PROVE  TypeOK'
  <2>1. PICK o \in Orders : AnswerExisting(c, r, o)
    BY <1>2 DEF ReceiveDuplicate, FindIdempotentOrder, Placed
  <2> QED BY <1>2, <2>1, AnswerType DEF ReceiveDuplicate
<1>3. ASSUME NEW o \in Orders, Stalled(o) \/ ClosePosition(o)
      PROVE  TypeOK'
  BY <1>3 DEF Stalled, ClosePosition, TypeOK, rows, queue, env, local, JobStates
<1>4. CASE RetryAllFailedJobs
  BY <1>4 DEF RetryAllFailedJobs, TypeOK, rows, env, local, JobStates
<1>5. CASE ToggleTrading
  BY <1>5, BoundsAssumption DEF ToggleTrading, TypeOK, rows, queue, local
<1>6. CASE UNCHANGED vars
  BY <1>6 DEF TypeOK, vars, rows, queue, env, local
<1> QED BY <1>1, <1>2, <1>3, <1>4, <1>5, <1>6, CallerType, ExecutionType, WorkerType, FaultType
         DEF Next

-----------------------------------------------------------------------------
(***************************************************************************)
(* The inductive invariant. What a process inside processOrderExecution    *)
(* knows of its row: claimed and without a position until the commit,      *)
(* executed after it; the catch block runs in either situation.            *)
(***************************************************************************)
Claimed(p) ==
  /\ pc[p] \in {"load", "price", "rest", "risk", "commit"} => status[at[p]] = "PROCESSING"
  /\ pc[p] = "after" => status[at[p]] = "EXECUTED"
  /\ pc[p] = "reject" => status[at[p]] \in {"PROCESSING", "EXECUTED"}

ClaimInv == \A p \in Procs : Claimed(p)

IInv == TypeOK /\ HandlesRow /\ ClaimInv /\ OneExecutor /\ PositionMatchesOrder /\ OneOrderPerKey

LEMMA InitIInv == Init => IInv
<1> SUFFICES ASSUME Init PROVE IInv
  OBVIOUS
<1>1. TypeOK
  BY TypeInit
<1>2. HandlesRow /\ ClaimInv /\ OneExecutor
  BY DEF Init, HandlesRow, ClaimInv, Claimed, OneExecutor, Executes, Executing, InTry
<1>3. PositionMatchesOrder /\ OneOrderPerKey
  BY DEF Init, PositionMatchesOrder, OneOrderPerKey, Placed
<1> QED BY <1>1, <1>2, <1>3 DEF IInv

-----------------------------------------------------------------------------
(***************************************************************************)
(* A quiet step leaves the rows alone, and a process it moves does not     *)
(* enter the execution of a row.                                           *)
(***************************************************************************)
Quiet ==
  /\ UNCHANGED <<status, request, position>>
  /\ \A q \in Procs :
       \/ pc'[q] = pc[q] /\ at'[q] = at[q]
       \/ pc'[q] \notin Executing \cup {"claim", "placed"}
       \/ pc'[q] = "claim" /\ at'[q] \in Orders

LEMMA QuietKeeps ==
  ASSUME IInv, TypeOK', Quiet
  PROVE  IInv'
<1> USE DEF IInv
<1>1. HandlesRow'
  BY DEF Quiet, HandlesRow
<1>2. "claim" \notin Executing
  BY DEF Executing, InTry
<1>3. ClaimInv'
  BY DEF Quiet, ClaimInv, Claimed, Executing, InTry
<1>4. OneExecutor'
  BY <1>2 DEF Quiet, OneExecutor, Executes
<1>5. PositionMatchesOrder' /\ OneOrderPerKey'
  BY DEF Quiet, PositionMatchesOrder, OneOrderPerKey, Placed, KeyOf
<1> QED BY <1>1, <1>3, <1>4, <1>5

(***************************************************************************)
(* A write of p changes the status of one existing row that no other       *)
(* process executes.                                                       *)
(***************************************************************************)
LEMMA WriteKeeps ==
  ASSUME IInv, TypeOK', NEW p \in Procs, NEW o \in Orders, NEW s \in Statuses,
         status' = [status EXCEPT ![o] = s],
         status[o] # "ABSENT",
         request' = request,
         \A q \in Procs \ {p} : pc'[q] = pc[q] /\ at'[q] = at[q] /\ ~Executes(q, o),
         pc'[p] \in Executing => at'[p] = o,
         pc'[p] \notin {"claim", "placed"},
         Claimed(p)',
         PositionMatchesOrder'
  PROVE  IInv'
<1> USE DEF IInv
<1>1. HandlesRow'
  BY DEF HandlesRow
<1>2. ClaimInv'
  <2>1. ASSUME NEW q \in Procs \ {p} PROVE Claimed(q)'
    <3>1. pc[q] \in Executing => at[q] \in Orders /\ at[q] # o
      BY DEF HandlesRow, Executes
    <3>2. pc[q] \in Executing => status'[at'[q]] = status[at[q]]
      BY <3>1 DEF TypeOK
    <3> QED BY <3>2 DEF ClaimInv, Claimed, Executing, InTry
  <2> QED BY <2>1 DEF ClaimInv
<1>3. OneExecutor'
  BY DEF OneExecutor, Executes
<1>4. Placed' = Placed
  BY DEF Placed, TypeOK, Statuses
<1>5. OneOrderPerKey'
  BY <1>4 DEF OneOrderPerKey, KeyOf
<1> QED BY <1>1, <1>2, <1>3, <1>5

\* Inside the execution of a row nobody else executes it, and it exists.
LEMMA Exclusive ==
  ASSUME IInv, NEW p \in Procs, pc[p] \in Executing
  PROVE  /\ at[p] \in Orders
         /\ status[at[p]] \in {"PROCESSING", "EXECUTED"}
         /\ \A q \in Procs \ {p} : ~Executes(q, at[p])
<1>1. at[p] \in Orders
  BY DEF IInv, HandlesRow
<1>2. status[at[p]] \in {"PROCESSING", "EXECUTED"}
  BY DEF IInv, ClaimInv, Claimed, Executing, InTry
<1> QED BY <1>1, <1>2 DEF IInv, OneExecutor, Executes

\* A step of p inside the execution that leaves the rows alone.
LEMMA MoveKeeps ==
  ASSUME IInv, TypeOK', NEW p \in Procs, pc[p] \in Executing,
         NEW label \in Executing, Goto(p, label),
         UNCHANGED <<status, request, position, at>>,
         Claimed(p)'
  PROVE  IInv'
<1>1. status' = [status EXCEPT ![at[p]] = status[at[p]]]
  BY DEF IInv, TypeOK
<1>2. \A q \in Procs \ {p} : pc'[q] = pc[q] /\ at'[q] = at[q]
  BY DEF Goto, IInv, TypeOK
<1>3. pc'[p] \in Executing \ {"claim", "placed"} /\ at'[p] = at[p]
  BY DEF Goto, IInv, TypeOK, Executing, InTry
<1>4. PositionMatchesOrder'
  BY DEF IInv, PositionMatchesOrder
<1>5. status[at[p]] \in Statuses /\ status[at[p]] # "ABSENT"
  BY Exclusive DEF Statuses
<1>6. /\ at[p] \in Orders
      /\ request' = request
      /\ \A q \in Procs \ {p} : pc'[q] = pc[q] /\ at'[q] = at[q] /\ ~Executes(q, at[p])
      /\ pc'[p] \in Executing => at'[p] = at[p]
      /\ pc'[p] \notin {"claim", "placed"}
  BY <1>2, <1>3, Exclusive
<1> QED BY <1>1, <1>4, <1>5, <1>6, WriteKeeps

LEMMA ThrowKeeps ==
  ASSUME IInv, TypeOK', NEW p \in Procs, pc[p] \in InTry, NEW why \in Causes, Throw(p, why),
         UNCHANGED rows
  PROVE  IInv'
<1>1. status[at[p]] \in {"PROCESSING", "EXECUTED"}
  BY Exclusive DEF Executing
<1>2. pc'[p] = "reject" /\ Goto(p, "reject") /\ UNCHANGED <<status, request, position, at>>
  BY DEF Throw, Goto, rows, IInv, TypeOK
<1>3. Claimed(p)'
  BY <1>1, <1>2 DEF Claimed
<1> QED BY <1>2, <1>3, MoveKeeps DEF Executing

LEMMA LeaveQuiet ==
  ASSUME IInv, NEW p \in Procs, NEW x \in {"done", "failed"}, Leave(p, x),
         UNCHANGED <<status, request, position>>
  PROVE  Quiet
  BY DEF IInv, TypeOK, Leave, Goto, Quiet, Executing, InTry

LEMMA AnswerQuiet ==
  ASSUME IInv, NEW c \in Callers, NEW r, NEW o \in Orders, AnswerExisting(c, r, o),
         UNCHANGED <<status, request, position>>
  PROVE  Quiet
<1>1. CASE Leave(c, "done")
  BY <1>1, LeaveQuiet
<1>2. CASE ~Leave(c, "done")
  <2>1. Goto(c, "claim") /\ at' = [at EXCEPT ![c] = o]
    BY <1>2 DEF AnswerExisting
  <2> QED BY <2>1 DEF IInv, TypeOK, Goto, Quiet
<1> QED BY <1>1, <1>2

\* p leaves the execution of o, which nobody else executes.
LeftFor(p, o) ==
  /\ pc'[p] \in {"idle", "done", "failed"}
  /\ \A q \in Procs \ {p} : pc'[q] = pc[q] /\ at'[q] = at[q] /\ ~Executes(q, o)

LEMMA LeftKeeps ==
  ASSUME IInv, TypeOK', NEW p \in Procs, NEW o \in Orders, NEW s \in Statuses,
         status' = [status EXCEPT ![o] = s], status[o] # "ABSENT", request' = request,
         LeftFor(p, o), PositionMatchesOrder'
  PROVE  IInv'
<1>1. pc'[p] \notin Executing \cup {"claim", "placed"}
  BY DEF LeftFor, Executing, InTry
<1>2. Claimed(p)'
  BY DEF LeftFor, Claimed
<1> QED BY <1>1, <1>2, WriteKeeps DEF LeftFor

-----------------------------------------------------------------------------
\* The steps of executeManagedOrder.
LEMMA CallerKeeps ==
  ASSUME IInv, TypeOK', NEW c \in Callers, CallerStep(c)
  PROVE  IInv'
<1>1. CASE Preflight(c)
  BY <1>1, QuietKeeps DEF Preflight, Quiet, Goto, rows, IInv, TypeOK, Executing, InTry
<1>2. CASE PreflightRefuses(c)
  BY <1>2, LeaveQuiet, QuietKeeps DEF PreflightRefuses, rows
<1>3. CASE Create(c)
  <2>1. PICK o \in Orders \ Placed :
             /\ status' = [status EXCEPT ![o] = "PENDING"]
             /\ request' = [request EXCEPT ![o] = call[c]]
             /\ at' = [at EXCEPT ![c] = o]
    BY <1>3 DEF Create
  <2>2. /\ position' = position
        /\ pc' = [pc EXCEPT ![c] = "placed"]
        /\ \A x \in Placed : call[c].key # NoKey => KeyOf(x) # call[c].key
    BY <1>3 DEF Create, Goto, UniqueIndexHits, FindIdempotentOrder
  <2>3. status[o] = "ABSENT"
    BY DEF Placed
  <2>4. Placed' = Placed \cup {o}
    BY <2>1 DEF Placed, IInv, TypeOK
  <2>5. HandlesRow'
    BY <2>1, <2>2 DEF HandlesRow, IInv, TypeOK, Executing, InTry
  <2>6. \A p \in Procs : pc'[p] \in Executing =>
           p # c /\ pc'[p] = pc[p] /\ at'[p] = at[p] /\ at[p] # o /\ status'[at[p]] = status[at[p]]
    BY <2>1, <2>2, <2>3, Exclusive DEF IInv, TypeOK, Executing, InTry
  <2>7. ClaimInv' /\ OneExecutor'
    BY <2>6 DEF IInv, ClaimInv, Claimed, OneExecutor, Executes, Executing, InTry
  <2>8. PositionMatchesOrder'
    BY <2>1, <2>2, <2>3 DEF IInv, TypeOK, PositionMatchesOrder
  <2>9. \A x \in Placed : request'[x] = request[x]
    BY <2>1 DEF IInv, TypeOK
  <2>10. request'[o] = call[c]
    BY <2>1 DEF IInv, TypeOK
  <2>11. OneOrderPerKey'
    BY <2>2, <2>4, <2>9, <2>10 DEF IInv, OneOrderPerKey, KeyOf
  <2> QED BY <2>5, <2>7, <2>8, <2>11 DEF IInv
<1>4. CASE CreateConflicts(c)
  <2>1. PICK o \in Orders : AnswerExisting(c, call[c], o)
    BY <1>4 DEF CreateConflicts, UniqueIndexHits, FindIdempotentOrder, Placed
  <2> QED BY <1>4, <2>1, AnswerQuiet, QuietKeeps DEF CreateConflicts, rows
<1>5. CASE EnqueueOrderExecution(c)
  BY <1>5, LeaveQuiet, QuietKeeps DEF EnqueueOrderExecution, rows
<1>6. CASE ExecuteDirectly(c)
  BY <1>6, QuietKeeps DEF ExecuteDirectly, Quiet, Goto, rows, IInv, TypeOK, HandlesRow
<1> QED BY <1>1, <1>2, <1>3, <1>4, <1>5, <1>6 DEF CallerStep

\* The steps of processOrderExecution.
LEMMA ExecutionKeeps ==
  ASSUME IInv, TypeOK', NEW p \in Procs, ExecutionStep(p)
  PROVE  IInv'
<1>1. CASE Claim(p)
  <2>1. CASE Claimable(status[at[p]])
    <3>1. at[p] \in Orders /\ status[at[p]] \in Resting
      BY <1>1, <2>1 DEF Claim, Claimable, IInv, HandlesRow
    <3>2. \A q \in Procs : ~Executes(q, at[p])
      BY <3>1, Exclusive DEF Executes, Resting
    <3>3. /\ status' = [status EXCEPT ![at[p]] = "PROCESSING"]
          /\ pc' = [pc EXCEPT ![p] = "load"]
          /\ UNCHANGED <<request, position, at>>
      BY <1>1, <2>1 DEF Claim, Goto
    <3>4. /\ \A q \in Procs \ {p} : pc'[q] = pc[q] /\ at'[q] = at[q] /\ ~Executes(q, at[p])
          /\ pc'[p] = "load" /\ at'[p] = at[p] /\ status'[at[p]] = "PROCESSING"
      BY <3>1, <3>2, <3>3 DEF IInv, TypeOK
    <3>5. Claimed(p)'
      BY <3>4 DEF Claimed
    <3>6. PositionMatchesOrder'
      BY <3>1, <3>3 DEF IInv, TypeOK, PositionMatchesOrder, Resting
    <3>7. "PROCESSING" \in Statuses /\ status[at[p]] # "ABSENT" /\ request' = request
      BY <3>1, <3>3 DEF Statuses, Resting
    <3> QED BY <3>1, <3>3, <3>4, <3>5, <3>6, <3>7, WriteKeeps
  <2>2. CASE ~Claimable(status[at[p]])
    BY <1>1, <2>2, LeaveQuiet, QuietKeeps DEF Claim
  <2> QED BY <2>1, <2>2
<1>2. CASE Load(p)
  <2>1. Claimed(p)'
    BY <1>2 DEF Load, Goto, rows, IInv, TypeOK, ClaimInv, Claimed
  <2> QED BY <1>2, <2>1, MoveKeeps DEF Load, rows, Executing, InTry
<1>3. CASE PriceHalted(p)
  BY <1>3, ThrowKeeps DEF PriceHalted, InTry, Causes
<1>4. ASSUME NEW q \in Quotes, Price(p, q)
      PROVE  IInv'
  <2>1. ASSUME NEW label \in {"rest", "risk"}, Goto(p, label),
               UNCHANGED <<status, request, position, at>>
        PROVE  IInv'
    <3>1. Claimed(p)'
      BY <1>4, <2>1 DEF Price, Goto, IInv, TypeOK, ClaimInv, Claimed
    <3> QED BY <1>4, <2>1, <3>1, MoveKeeps DEF Price, Executing, InTry
  <2> QED BY <1>4, <2>1, ThrowKeeps DEF Price, rows, InTry, Causes
<1>5. CASE Rest(p)
  <2>1. /\ status' = [status EXCEPT ![at[p]] = "OPEN"]
        /\ UNCHANGED <<request, position>>
        /\ pc' = [pc EXCEPT ![p] = IF p \in Callers THEN "idle" ELSE "done"]
        /\ \A q \in Procs \ {p} : at'[q] = at[q]
    BY <1>5 DEF Rest, RestStatus, Leave, Goto, IInv, TypeOK
  <2>2. at[p] \in Orders /\ status[at[p]] = "PROCESSING" /\ pc[p] \in Executing
    BY <1>5, Exclusive DEF Rest, IInv, ClaimInv, Claimed, Executing, InTry
  <2>3. PositionMatchesOrder'
    <3>1. position[at[p]] = "none"
      BY <2>2 DEF IInv, PositionMatchesOrder
    <3> QED BY <2>1, <2>2, <3>1 DEF IInv, TypeOK, PositionMatchesOrder
  <2>4. LeftFor(p, at[p])
    BY <2>1, <2>2, Exclusive DEF LeftFor, IInv, TypeOK
  <2> QED BY <2>1, <2>2, <2>3, <2>4, LeftKeeps DEF Statuses
<1>6. CASE Risk(p)
  <2>1. CASE CanBeOpened(PayloadOf(p))
    <3>1. Claimed(p)' /\ Goto(p, "commit")
      BY <1>6, <2>1 DEF Risk, Goto, rows, IInv, TypeOK, ClaimInv, Claimed
    <3> QED BY <1>6, <2>1, <3>1, MoveKeeps DEF Risk, rows, Executing, InTry
  <2>2. CASE ~CanBeOpened(PayloadOf(p))
    BY <1>6, <2>2, ThrowKeeps DEF Risk, InTry, Causes, rows
  <2> QED BY <2>1, <2>2
<1>7. CASE Commit(p)
  <2>1. CASE position[at[p]] = "none"
    <3>1. /\ status' = [status EXCEPT ![at[p]] = "EXECUTED"]
          /\ position' = [position EXCEPT ![at[p]] = "open"]
          /\ pc' = [pc EXCEPT ![p] = "after"]
          /\ UNCHANGED <<request, at>>
      BY <1>7, <2>1 DEF Commit, Goto
    <3>2. pc[p] \in Executing /\ at[p] \in Orders /\ status[at[p]] # "ABSENT"
      BY <1>7, Exclusive DEF Commit, Executing, InTry
    <3>3. /\ \A q \in Procs \ {p} : pc'[q] = pc[q] /\ at'[q] = at[q] /\ ~Executes(q, at[p])
      BY <3>1, <3>2, Exclusive DEF IInv, TypeOK
    <3>6. pc'[p] = "after" /\ at'[p] = at[p] /\ status'[at[p]] = "EXECUTED"
      BY <3>1, <3>2 DEF IInv, TypeOK
    <3>4. Claimed(p)'
      BY <3>6 DEF Claimed
    <3>5. PositionMatchesOrder'
      BY <3>1, <3>2 DEF IInv, TypeOK, PositionMatchesOrder
    <3>7. pc'[p] \in Executing /\ pc'[p] \notin {"claim", "placed"}
      BY <3>6 DEF Executing, InTry
    <3> QED BY <3>1, <3>2, <3>3, <3>4, <3>5, <3>6, <3>7, WriteKeeps DEF Statuses
  <2>2. CASE position[at[p]] # "none"
    BY <1>7, <2>2, ThrowKeeps DEF Commit, rows, InTry, Causes
  <2> QED BY <2>1, <2>2
<1>8. CASE After(p)
  BY <1>8, LeaveQuiet, QuietKeeps DEF After, rows
<1>9. CASE Reject(p)
  <2>1. PICK x \in {"done", "failed"} : Leave(p, x)
    BY <1>9 DEF Reject
  <2>2. /\ status' = [status EXCEPT ![at[p]] = "REJECTED"]
        /\ UNCHANGED <<request, position>>
    BY <1>9 DEF Reject
  <2>3. pc[p] \in Executing /\ at[p] \in Orders /\ status[at[p]] # "ABSENT"
    BY <1>9, Exclusive DEF Reject, Executing
  <2>4. PositionMatchesOrder'
    BY <2>2, <2>3 DEF IInv, TypeOK, PositionMatchesOrder
  <2>5. LeftFor(p, at[p])
    BY <2>1, <2>3, Exclusive DEF LeftFor, Leave, Goto, IInv, TypeOK
  <2> QED BY <2>2, <2>3, <2>4, <2>5, LeftKeeps DEF Statuses
<1> QED BY <1>1, <1>2, <1>3, <1>4, <1>5, <1>6, <1>7, <1>8, <1>9 DEF ExecutionStep

\* The worker's steps, the queue's and the faults.
LEMMA WorkerKeeps ==
  ASSUME IInv, TypeOK', NEW w \in Workers,
         WorkerStep(w) \/ ProcessLimitSweep(w) \/ \E o \in Orders : TakeJob(w, o)
  PROVE  IInv'
<1>1. ASSUME NEW batch \in SUBSET Orders, TryNext(w, batch)
      PROVE  Quiet
  BY <1>1 DEF TryNext, Quiet, Goto, rows, IInv, TypeOK
<1>2. ASSUME Release(w), UNCHANGED rows
      PROVE  Quiet
  BY <1>2 DEF Release, Quiet, Goto, rows, IInv, TypeOK, Executing, InTry
<1>3. CASE WorkerStep(w)
  <2>1. CASE SweepNext(w)
    <3>1. todo[w] \in SUBSET Orders /\ TryNext(w, todo[w])
      BY <2>1 DEF SweepNext, IInv, TypeOK
    <3>2. Quiet
      BY <1>1, <3>1
    <3> QED BY <3>2, QuietKeeps
  <2>2. CASE CompleteJob(w) \/ FailJob(w) \/ SweepEnds(w)
    <3>1. Release(w) /\ UNCHANGED rows
      BY <2>2 DEF CompleteJob, FailJob, SweepEnds, rows
    <3>2. Quiet
      BY <1>2, <3>1
    <3> QED BY <3>2, QuietKeeps
  <2> QED BY <1>3, <2>1, <2>2 DEF WorkerStep
<1>4. CASE ProcessLimitSweep(w)
  <2>1. SweepBatch \in SUBSET Orders
    BY DEF SweepBatch, Sweepable
  <2> QED BY <1>1, <1>4, <2>1, QuietKeeps DEF ProcessLimitSweep
<1>5. ASSUME NEW o \in Orders, TakeJob(w, o)
      PROVE  IInv'
  <2>1. Quiet
    BY <1>5 DEF TakeJob, Quiet, Goto, rows, IInv, TypeOK
  <2> QED BY <2>1, QuietKeeps
<1> QED BY <1>3, <1>4, <1>5

LEMMA FaultKeeps ==
  ASSUME IInv, TypeOK', FaultStep
  PROVE  IInv'
<1>1. ASSUME NEW c \in Callers, PlacedFails(c)
      PROVE  IInv'
  BY <1>1, LeaveQuiet, QuietKeeps DEF PlacedFails, rows
<1>2. ASSUME NEW p \in Procs, TryFails(p)
      PROVE  IInv'
  BY <1>2, ThrowKeeps DEF TryFails, Causes
<1>3. ASSUME NEW p \in Procs, ExecutionFails(p)
      PROVE  IInv'
  BY <1>3, LeaveQuiet, QuietKeeps DEF ExecutionFails, rows
<1>4. CASE Crash
  <2>1. Quiet
    BY <1>4 DEF Crash, Quiet, rows, Executing, InTry
  <2> QED BY <2>1, QuietKeeps
<1> QED BY <1>1, <1>2, <1>3, <1>4 DEF FaultStep

LEMMA NextIInv == IInv /\ [Next]_vars => IInv'
<1> SUFFICES ASSUME IInv, [Next]_vars PROVE IInv'
  OBVIOUS
<1>1. TypeOK'
  BY TypeNext DEF IInv
<1>2. ASSUME NEW c \in Callers, NEW r \in Requests, ReceiveNew(c, r)
      PROVE  IInv'
  <2>1. Quiet
    BY <1>2 DEF ReceiveNew, Quiet, Goto, rows, IInv, TypeOK, Executing, InTry
  <2> QED BY <1>1, <2>1, QuietKeeps
<1>3. ASSUME NEW c \in Callers, NEW r \in Requests, ReceiveDuplicate(c, r)
      PROVE  IInv'
  <2>1. PICK o \in Orders : AnswerExisting(c, r, o)
    BY <1>3 DEF ReceiveDuplicate, FindIdempotentOrder, Placed
  <2> QED BY <1>1, <1>3, <2>1, AnswerQuiet, QuietKeeps DEF ReceiveDuplicate, rows
<1>4. ASSUME NEW o \in Orders, ClosePosition(o)
      PROVE  IInv'
  <2>1. UNCHANGED <<status, request, pc, at>> /\ position' = [position EXCEPT ![o] = "closed"]
        /\ position[o] = "open"
    BY <1>4 DEF ClosePosition, local
  <2>2. (HandlesRow /\ ClaimInv /\ OneExecutor /\ OneOrderPerKey)'
    BY <2>1 DEF IInv, HandlesRow, ClaimInv, Claimed, OneExecutor, Executes, OneOrderPerKey,
       Placed, KeyOf
  <2>3. PositionMatchesOrder'
    BY <2>1 DEF IInv, TypeOK, PositionMatchesOrder
  <2> QED BY <1>1, <2>2, <2>3 DEF IInv
<1>5. ASSUME UNCHANGED <<rows, local>>
      PROVE  IInv'
  <2>1. Quiet
    BY <1>5 DEF Quiet, rows, local
  <2> QED BY <1>1, <2>1, QuietKeeps
<1>6. ASSUME NEW o \in Orders, Stalled(o)
      PROVE  IInv'
  BY <1>5, <1>6 DEF Stalled
<1>7. CASE RetryAllFailedJobs \/ ToggleTrading \/ UNCHANGED vars
  BY <1>5, <1>7 DEF RetryAllFailedJobs, ToggleTrading, vars
<1> QED BY <1>1, <1>2, <1>3, <1>4, <1>6, <1>7, CallerKeeps, ExecutionKeeps, WorkerKeeps,
         FaultKeeps DEF Next

-----------------------------------------------------------------------------
\* The inductive invariant holds in every reachable state.
THEOREM Invariance == Spec => []IInv
<1>1. Init => IInv
  BY InitIInv
<1>2. IInv /\ [Next]_vars => IInv'
  BY NextIInv
<1> QED BY <1>1, <1>2, PTL DEF Spec

\* Type correctness.
THEOREM TypeCorrect == Spec => []TypeOK
<1>1. IInv => TypeOK
  BY DEF IInv
<1> QED BY <1>1, Invariance, PTL

\* An order is never run by two executions at once, whatever job retries,
\* sweeps, direct calls, crashes and failing calls do.
THEOREM ExecutorUnique == Spec => []OneExecutor
<1>1. IInv => OneExecutor
  BY DEF IInv
<1> QED BY <1>1, Invariance, PTL

\* Executed orders and positions go together.
THEOREM PositionsMatch == Spec => []PositionMatchesOrder
<1>1. IInv => PositionMatchesOrder
  BY DEF IInv
<1> QED BY <1>1, Invariance, PTL

\* One row per clientRequestId.
THEOREM KeysIdempotent == Spec => []OneOrderPerKey
<1>1. IInv => OneOrderPerKey
  BY DEF IInv
<1> QED BY <1>1, Invariance, PTL

-----------------------------------------------------------------------------
(***************************************************************************)
(* The action properties. Only a process that executes a row, or that      *)
(* claims it while it rests, changes its status; only its commit gives it  *)
(* a position.                                                             *)
(***************************************************************************)
LEMMA StatusMoves ==
  ASSUME IInv, [Next]_vars, NEW o \in Orders, status[o] \in {"PROCESSING", "REJECTED"},
         \A p \in Procs : ~Executes(p, o)
  PROVE  status'[o] = status[o] /\ (position[o] = "none" => position'[o] = "none")
<1> USE DEF IInv, TypeOK
<1>1. CASE UNCHANGED <<status, position>>
  BY <1>1
<1>2. ASSUME NEW c \in Callers, Create(c)
      PROVE  status'[o] = status[o] /\ position' = position
  BY <1>2 DEF Create, Placed
<1>3. ASSUME NEW p \in Procs, Claim(p)
      PROVE  status'[o] = status[o] /\ position' = position
  BY <1>3 DEF Claim, Claimable, Resting
<1>4. ASSUME NEW p \in Procs, Rest(p) \/ Commit(p) \/ Reject(p)
      PROVE  status'[o] = status[o] /\ position'[o] = position[o]
  <2>1. at[p] # o
    BY <1>4 DEF Rest, Commit, Reject, Executes, Executing, InTry
  <2>2. at[p] \in Orders \cup {None}
    OBVIOUS
  <2>3. CASE Rest(p) \/ Reject(p)
    BY <2>1, <2>2, <2>3 DEF Rest, Reject
  <2>4. CASE Commit(p)
    <3>1. \/ UNCHANGED <<status, position>>
          \/ /\ status' = [status EXCEPT ![at[p]] = "EXECUTED"]
             /\ position' = [position EXCEPT ![at[p]] = "open"]
      BY <2>4 DEF Commit
    <3> QED BY <2>1, <2>2, <3>1
  <2> QED BY <1>4, <2>3, <2>4
<1>5. ASSUME NEW x \in Orders, ClosePosition(x)
      PROVE  status' = status /\ (position[o] = "none" => position'[o] = "none")
  BY <1>5 DEF ClosePosition
<1>6. ASSUME NEW p \in Procs, ExecutionStep(p)
      PROVE  \/ UNCHANGED <<status, position>>
             \/ Claim(p) \/ Rest(p) \/ Commit(p) \/ Reject(p)
  BY <1>6 DEF ExecutionStep, Load, PriceHalted, Price, Risk, After, rows
<1>7. ASSUME NEW c \in Callers, CallerStep(c)
      PROVE  UNCHANGED <<status, position>> \/ Create(c)
  BY <1>7 DEF CallerStep, Preflight, PreflightRefuses, CreateConflicts, EnqueueOrderExecution,
     ExecuteDirectly, rows
<1>8. ASSUME NEW w \in Workers,
             WorkerStep(w) \/ ProcessLimitSweep(w) \/ \E x \in Orders : TakeJob(w, x)
      PROVE  UNCHANGED <<status, position>>
  BY <1>8 DEF WorkerStep, ProcessLimitSweep, TakeJob, TryNext, CompleteJob, FailJob, SweepNext,
     SweepEnds, rows
<1>9. CASE FaultStep
  BY <1>1, <1>9 DEF FaultStep, PlacedFails, TryFails, ExecutionFails, Crash, rows
<1>10. CASE \/ \E c \in Callers, r \in Requests : ReceiveNew(c, r) \/ ReceiveDuplicate(c, r)
            \/ \E x \in Orders : Stalled(x)
            \/ RetryAllFailedJobs \/ ToggleTrading \/ UNCHANGED vars
  BY <1>1, <1>10 DEF ReceiveNew, ReceiveDuplicate, Stalled, RetryAllFailedJobs, ToggleTrading,
     vars, rows
<1> QED BY <1>1, <1>2, <1>3, <1>4, <1>5, <1>6, <1>7, <1>8, <1>9, <1>10 DEF Next

\* Nothing executes a rejected order again.
THEOREM RejectionFinal == Spec => RejectedIsFinal
<1>1. IInv /\ [Next]_vars =>
        [\A o \in Orders : status[o] = "REJECTED" =>
           /\ status'[o] = "REJECTED"
           /\ position[o] = "none" => position'[o] = "none"]_vars
  <2> SUFFICES ASSUME IInv, [Next]_vars, NEW o \in Orders, status[o] = "REJECTED"
               PROVE  /\ status'[o] = "REJECTED"
                      /\ position[o] = "none" => position'[o] = "none"
    OBVIOUS
  <2>1. \A p \in Procs : ~Executes(p, o)
    BY Exclusive DEF Executes
  <2> QED BY <2>1, StatusMoves
<1> QED BY <1>1, Invariance, PTL DEF Spec, RejectedIsFinal

\* Nothing resumes an execution that was abandoned after its claim.
THEOREM AbandonedForGood == Spec => AbandonedStaysProcessing
<1>1. IInv /\ [Next]_vars =>
        [\A o \in Orders :
           status[o] = "PROCESSING" /\ (\A p \in Procs : ~Executes(p, o)) =>
             /\ status'[o] = "PROCESSING"
             /\ position'[o] = "none"]_vars
  <2> SUFFICES ASSUME IInv, [Next]_vars, NEW o \in Orders, status[o] = "PROCESSING",
                      \A p \in Procs : ~Executes(p, o)
               PROVE  status'[o] = "PROCESSING" /\ position'[o] = "none"
    OBVIOUS
  <2>1. position[o] = "none"
    BY DEF IInv, PositionMatchesOrder
  <2> QED BY <2>1, StatusMoves
<1> QED BY <1>1, Invariance, PTL DEF Spec, AbandonedStaysProcessing

\* What ended, by a rejection or by a crash, is not taken up again.
THEOREM OutcomesFinal == Spec => OutcomesAreFinal
BY RejectionFinal, AbandonedForGood DEF OutcomesAreFinal
-----------------------------------------------------------------------------
(***************************************************************************)
(* Limit prices. The price a process computed respects the limit of the    *)
(* order it executes from the check of the quote to the commit, whoever    *)
(* else moves in between, and the commit writes that price.                *)
(***************************************************************************)
Respects(payload, price) ==
  payload.type = "LIMIT" =>
    IF payload.side = "BUY" THEN price <= payload.price ELSE price >= payload.price

QuoteRespectsLimit ==
  \A p \in Procs : pc[p] \in {"risk", "commit"} => Respects(PayloadOf(p), quoted[p])

LimitInv == QuoteRespectsLimit /\ LimitPriceRespected

\* A step that prices and fills nothing.
FillsNothing ==
  /\ \A p \in Procs : pc'[p] \in {"risk", "commit"} =>
       pc[p] \in {"risk", "commit"} /\ at'[p] = at[p] /\ quoted'[p] = quoted[p]
  /\ \A o \in Orders : status[o] # "ABSENT" => request'[o] = request[o]
  /\ \A o \in Orders : status'[o] = "EXECUTED" => status[o] = "EXECUTED" /\ fill'[o] = fill[o]

LEMMA LimitKept ==
  ASSUME IInv, LimitInv, FillsNothing
  PROVE  LimitInv'
<1>1. ASSUME NEW p \in Procs, pc'[p] \in {"risk", "commit"}
      PROVE  Respects(PayloadOf(p), quoted[p])'
  <2>1. pc[p] \in {"risk", "commit"} /\ at'[p] = at[p] /\ quoted'[p] = quoted[p]
    BY <1>1 DEF FillsNothing
  <2>2. at[p] \in Orders /\ status[at[p]] # "ABSENT"
    BY <2>1, Exclusive DEF Executing, InTry
  <2>3. request'[at'[p]] = request[at[p]]
    BY <2>1, <2>2 DEF FillsNothing
  <2>4. Respects(PayloadOf(p), quoted[p])
    BY <2>1 DEF LimitInv, QuoteRespectsLimit
  <2> QED BY <2>1, <2>3, <2>4 DEF Respects, PayloadOf
<1>2. ASSUME NEW o \in Orders, status'[o] = "EXECUTED"
      PROVE  status[o] = "EXECUTED" /\ fill'[o] = fill[o] /\ request'[o] = request[o]
  BY <1>2 DEF FillsNothing
<1>3. LimitPriceRespected'
  BY <1>2 DEF LimitInv, LimitPriceRespected
<1> QED BY <1>1, <1>3 DEF LimitInv, QuoteRespectsLimit

LEMMA LeaveFills ==
  ASSUME IInv, NEW p \in Procs, NEW x \in {"done", "failed"}, Leave(p, x),
         UNCHANGED <<request, fill>>,
         \A o \in Orders : status'[o] = "EXECUTED" => status[o] = "EXECUTED"
  PROVE  FillsNothing
  BY DEF IInv, TypeOK, Leave, Goto, FillsNothing

LEMMA AnswerFills ==
  ASSUME IInv, NEW c \in Callers, NEW r, NEW o \in Orders, AnswerExisting(c, r, o),
         UNCHANGED rows
  PROVE  FillsNothing
<1>1. CASE Leave(c, "done")
  BY <1>1, LeaveFills DEF rows
<1>2. CASE ~Leave(c, "done")
  BY <1>2 DEF AnswerExisting, IInv, TypeOK, Goto, FillsNothing, rows
<1> QED BY <1>1, <1>2

LEMMA ThrowFills ==
  ASSUME IInv, NEW p \in Procs, NEW why, Throw(p, why), UNCHANGED rows
  PROVE  FillsNothing
  BY DEF IInv, TypeOK, Throw, Goto, FillsNothing, rows

LEMMA OthersFillNothing ==
  ASSUME IInv, [Next]_vars,
         \A p \in Procs : ~Commit(p) /\ \A q \in Quotes : ~Price(p, q)
  PROVE  FillsNothing
<1> USE DEF IInv, TypeOK
<1>1. ASSUME NEW c \in Callers, NEW r \in Requests, ReceiveNew(c, r) \/ ReceiveDuplicate(c, r)
      PROVE  FillsNothing
  <2>1. CASE ReceiveNew(c, r)
    BY <2>1 DEF ReceiveNew, Goto, FillsNothing, rows
  <2>2. CASE ReceiveDuplicate(c, r)
    <3>1. PICK o \in Orders : AnswerExisting(c, r, o)
      BY <2>2 DEF ReceiveDuplicate, FindIdempotentOrder, Placed
    <3> QED BY <2>2, <3>1, AnswerFills DEF ReceiveDuplicate
  <2> QED BY <1>1, <2>1, <2>2
<1>2. ASSUME NEW c \in Callers, CallerStep(c)
      PROVE  FillsNothing
  <2>1. CASE Preflight(c) \/ ExecuteDirectly(c)
    BY <2>1 DEF Preflight, ExecuteDirectly, Goto, FillsNothing, rows
  <2>2. CASE PreflightRefuses(c) \/ EnqueueOrderExecution(c)
    BY <2>2, LeaveFills DEF PreflightRefuses, EnqueueOrderExecution, rows
  <2>3. CASE Create(c)
    <3>1. PICK o \in Orders \ Placed :
               /\ status' = [status EXCEPT ![o] = "PENDING"]
               /\ request' = [request EXCEPT ![o] = call[c]]
      BY <2>3 DEF Create
    <3>2. status[o] = "ABSENT" /\ o \in Orders
      BY DEF Placed
    <3>3. \A x \in Orders : status[x] # "ABSENT" => x # o /\ request'[x] = request[x]
      BY <3>1, <3>2
    <3>4. \A x \in Orders : status'[x] = "EXECUTED" => status[x] = "EXECUTED"
      BY <3>1, <3>2
    <3>5. /\ UNCHANGED <<fill, quoted>>
          /\ pc' = [pc EXCEPT ![c] = "placed"]
          /\ \A q \in Procs \ {c} : at'[q] = at[q]
      BY <2>3 DEF Create, Goto
    <3> QED BY <3>3, <3>4, <3>5 DEF FillsNothing
  <2>4. CASE CreateConflicts(c)
    <3>1. PICK o \in Orders : AnswerExisting(c, call[c], o)
      BY <2>4 DEF CreateConflicts, UniqueIndexHits, FindIdempotentOrder, Placed
    <3> QED BY <2>4, <3>1, AnswerFills DEF CreateConflicts
  <2> QED BY <1>2, <2>1, <2>2, <2>3, <2>4 DEF CallerStep
<1>3. ASSUME NEW p \in Procs, ExecutionStep(p)
      PROVE  FillsNothing
  <2>1. CASE Claim(p)
    <3>1. CASE Claimable(status[at[p]])
      BY <2>1, <3>1 DEF Claim, Goto, FillsNothing
    <3>2. CASE ~Claimable(status[at[p]])
      BY <2>1, <3>2, LeaveFills DEF Claim
    <3> QED BY <3>1, <3>2
  <2>2. CASE Load(p)
    BY <2>2 DEF Load, Goto, FillsNothing, rows
  <2>3. CASE PriceHalted(p)
    BY <2>3, ThrowFills DEF PriceHalted
  <2>4. CASE Rest(p)
    <3>1. \A o \in Orders : status'[o] = "EXECUTED" => status[o] = "EXECUTED"
      BY <2>4 DEF Rest, RestStatus
    <3> QED BY <2>4, <3>1, LeaveFills DEF Rest
  <2>5. CASE Risk(p)
    <3>1. CASE CanBeOpened(PayloadOf(p))
      BY <2>5, <3>1 DEF Risk, Goto, FillsNothing, rows
    <3>2. CASE ~CanBeOpened(PayloadOf(p))
      BY <2>5, <3>2, ThrowFills DEF Risk
    <3> QED BY <3>1, <3>2
  <2>6. CASE After(p)
    BY <2>6, LeaveFills DEF After, rows
  <2>7. CASE Reject(p)
    <3>1. \A o \in Orders : status'[o] = "EXECUTED" => status[o] = "EXECUTED"
      BY <2>7 DEF Reject
    <3> QED BY <2>7, <3>1, LeaveFills DEF Reject
  <2> QED BY <1>3, <2>1, <2>2, <2>3, <2>4, <2>5, <2>6, <2>7 DEF ExecutionStep
<1>4. ASSUME NEW w \in Workers,
             WorkerStep(w) \/ ProcessLimitSweep(w) \/ \E o \in Orders : TakeJob(w, o)
      PROVE  FillsNothing
  <2>1. ASSUME NEW label \in {"idle", "claim"}, Goto(w, label), UNCHANGED <<rows, quoted>>,
               \A q \in Procs \ {w} : at'[q] = at[q]
        PROVE  FillsNothing
    BY <2>1 DEF Goto, FillsNothing, rows
  <2>2. ASSUME Release(w), UNCHANGED rows
        PROVE  FillsNothing
    BY <2>1, <2>2 DEF Release
  <2>3. ASSUME NEW batch, TryNext(w, batch)
        PROVE  FillsNothing
    <3>1. \A q \in Procs \ {w} : at'[q] = at[q]
      BY <2>3 DEF TryNext
    <3> QED BY <2>1, <2>3, <3>1 DEF TryNext
  <2>4. ASSUME NEW o \in Orders, TakeJob(w, o)
        PROVE  FillsNothing
    <3>1. \A q \in Procs \ {w} : at'[q] = at[q]
      BY <2>4 DEF TakeJob
    <3> QED BY <2>1, <2>4, <3>1 DEF TakeJob
  <2> QED BY <1>4, <2>2, <2>3, <2>4
          DEF WorkerStep, ProcessLimitSweep, CompleteJob, FailJob, SweepNext, SweepEnds, rows
<1>5. CASE FaultStep
  <2>1. ASSUME NEW c \in Callers, PlacedFails(c)
        PROVE  FillsNothing
    BY <2>1, LeaveFills DEF PlacedFails, rows
  <2>2. ASSUME NEW p \in Procs, TryFails(p)
        PROVE  FillsNothing
    BY <2>2, ThrowFills DEF TryFails
  <2>3. ASSUME NEW p \in Procs, ExecutionFails(p)
        PROVE  FillsNothing
    BY <2>3, LeaveFills DEF ExecutionFails, rows
  <2>4. CASE Crash
    BY <2>4 DEF Crash, FillsNothing, rows
  <2> QED BY <1>5, <2>1, <2>2, <2>3, <2>4 DEF FaultStep
<1>6. CASE \/ \E o \in Orders : Stalled(o) \/ ClosePosition(o)
           \/ RetryAllFailedJobs \/ ToggleTrading \/ UNCHANGED vars
  <2>1. UNCHANGED <<status, request, fill, local>>
    BY <1>6 DEF Stalled, ClosePosition, RetryAllFailedJobs, ToggleTrading, vars, rows
  <2> QED BY <2>1 DEF FillsNothing, local
<1> QED BY <1>1, <1>2, <1>3, <1>4, <1>5, <1>6 DEF Next

LEMMA PriceRespects ==
  ASSUME NEW r \in Payloads, NEW q \in Quotes, ResolveExecutionPrice(r, q) # None
  PROVE  Respects(r, ResolveExecutionPrice(r, q))
  BY DataAssumption DEF ResolveExecutionPrice, Respects

LEMMA LimitNext == IInv /\ LimitInv /\ [Next]_vars => LimitInv'
<1> SUFFICES ASSUME IInv, LimitInv, [Next]_vars PROVE LimitInv'
  OBVIOUS
<1> USE DEF IInv, TypeOK
<1>1. ASSUME NEW p \in Procs, NEW q \in Quotes, Price(p, q)
      PROVE  LimitInv'
  <2>1. PayloadOf(p) \in Payloads /\ at[p] \in Orders
    BY <1>1, Exclusive DEF Price, PayloadOf, Requests, Executing, InTry
  <2>2. UNCHANGED <<rows, at>> /\ \A x \in Procs \ {p} : pc'[x] = pc[x] /\ quoted'[x] = quoted[x]
    BY <1>1 DEF Price, Throw, Goto
  <2>3. pc'[p] \in {"risk", "commit"} =>
          /\ ResolveExecutionPrice(PayloadOf(p), q) # None
          /\ quoted'[p] = ResolveExecutionPrice(PayloadOf(p), q)
    BY <1>1 DEF Price, Throw, Goto
  <2>4. pc'[p] \in {"risk", "commit"} => Respects(PayloadOf(p), quoted'[p])
    BY <2>1, <2>3, PriceRespects
  <2>5. \A x \in Procs : PayloadOf(x)' = PayloadOf(x)
    BY <2>2 DEF PayloadOf, rows
  <2>6. \A x \in Procs : pc'[x] \in {"risk", "commit"} => Respects(PayloadOf(x), quoted'[x])
    BY <2>2, <2>4 DEF LimitInv, QuoteRespectsLimit
  <2>7. QuoteRespectsLimit'
    <3>1. ASSUME NEW x \in Procs, pc'[x] \in {"risk", "commit"}
          PROVE  Respects(PayloadOf(x)', quoted'[x])
      BY <2>5, <2>6, <3>1
    <3> QED BY <3>1 DEF QuoteRespectsLimit, Respects
  <2>8. LimitPriceRespected'
    BY <2>2 DEF LimitInv, LimitPriceRespected, rows
  <2> QED BY <2>7, <2>8 DEF LimitInv
<1>2. ASSUME NEW p \in Procs, Commit(p)
      PROVE  LimitInv'
  <2>1. CASE position[at[p]] = "none"
    <3>1. /\ status' = [status EXCEPT ![at[p]] = "EXECUTED"]
          /\ fill' = [fill EXCEPT ![at[p]] = quoted[p]]
          /\ pc' = [pc EXCEPT ![p] = "after"]
          /\ UNCHANGED <<request, at, quoted>>
      BY <1>2, <2>1 DEF Commit, Goto
    <3>2. at[p] \in Orders /\ Respects(PayloadOf(p), quoted[p])
      BY <1>2, Exclusive DEF Commit, LimitInv, QuoteRespectsLimit, Executing, InTry
    <3>3. \A o \in Orders : status'[o] = "EXECUTED" =>
             \/ o = at[p] /\ fill'[o] = quoted[p]
             \/ status[o] = "EXECUTED" /\ fill'[o] = fill[o]
      BY <3>1, <3>2
    <3>4. \A o \in Orders : status[o] = "EXECUTED" => Respects(request[o].payload, fill[o])
      BY DEF LimitInv, LimitPriceRespected, Respects
    <3>5. \A o \in Orders : status'[o] = "EXECUTED" => Respects(request[o].payload, fill'[o])
      BY <3>2, <3>3, <3>4 DEF PayloadOf
    <3>6. LimitPriceRespected'
      BY <3>1, <3>5 DEF LimitPriceRespected, Respects
    <3>7. QuoteRespectsLimit'
      BY <3>1 DEF LimitInv, QuoteRespectsLimit, PayloadOf, Respects
    <3> QED BY <3>6, <3>7 DEF LimitInv
  <2>2. CASE position[at[p]] # "none"
    <3>1. FillsNothing
      BY <1>2, <2>2, ThrowFills DEF Commit, rows
    <3> QED BY <3>1, LimitKept
  <2> QED BY <2>1, <2>2
<1> QED BY <1>1, <1>2, OthersFillNothing, LimitKept

\* A limit order is never filled at a price worse than its client asked for,
\* however old the quote its execution read (resolveExecutionPrice).
THEOREM LimitsRespected == Spec => []LimitPriceRespected
<1>1. Init => LimitInv
  BY DEF Init, LimitInv, QuoteRespectsLimit, LimitPriceRespected
<1>2. IInv /\ LimitInv /\ [Next]_vars => LimitInv'
  BY LimitNext
<1>3. LimitInv => LimitPriceRespected
  BY DEF LimitInv
<1> QED BY <1>1, <1>2, <1>3, Invariance, PTL DEF Spec
-----------------------------------------------------------------------------
(***************************************************************************)
(* Accounting, as long as nothing fails. Whoever claims a row sees it      *)
(* through to a status of its own; a job is active exactly while one       *)
(* worker holds it, so that it never stalls and never fails; and a caller  *)
(* that has stored a row is the only one to queue it.                      *)
(***************************************************************************)
SeenThrough ==
  /\ \A o \in Orders : status[o] = "PROCESSING" => \E p \in Procs : Executes(p, o)
  /\ \A p \in Procs : pc[p] = "reject" => status[at[p]] = "PROCESSING"
  /\ \A o \in Orders : status[o] = "REJECTED" => position[o] = "none"

JobsHeld ==
  /\ \A w \in Workers : pc[w] # "failed"
  /\ \A w \in Workers : holds[w] # None =>
       holds[w] = at[w] /\ job[holds[w]] = "active" /\ pc[w] # "idle"
  /\ \A w, x \in Workers : holds[w] = holds[x] /\ holds[w] # None => w = x
  /\ \A o \in Orders : job[o] # "failed" /\ (job[o] = "active" => \E w \in Workers : holds[w] = o)

QueuedOnce ==
  /\ \A o \in Orders : status[o] = "ABSENT" => job[o] = "none"
  /\ \A c \in Callers : pc[c] = "placed" => status[at[c]] # "ABSENT" /\ job[at[c]] = "none"
  /\ \A c, d \in Callers : pc[c] = "placed" /\ pc[d] = "placed" /\ at[c] = at[d] => c = d

\* What PendingIsScheduled says of a market order.
Scheduled(o) ==
  \/ job[o] = "waiting"
  \/ \E w \in Workers : at[w] = o /\ pc[w] = "claim" /\ holds[w] = o
  \/ \E c \in Callers : at[c] = o /\ pc[c] \in {"placed", "claim"}

PendingScheduled ==
  \A o \in Orders :
    status[o] = "PENDING" /\ request[o].payload.type = "MARKET" => Scheduled(o)

Calm == SeenThrough /\ JobsHeld /\ QueuedOnce /\ PendingScheduled

-----------------------------------------------------------------------------
(***************************************************************************)
(* A faultless step that writes no status: who executes a row goes on      *)
(* executing it, unless the row is settled.                                *)
(***************************************************************************)
NoStatusWritten ==
  /\ UNCHANGED status
  /\ \A o \in Orders : position[o] = "none" => position'[o] = "none"
  /\ \A p \in Procs :
       \/ pc[p] \in Executing /\ pc'[p] \in Executing /\ at'[p] = at[p]
       \/ pc[p] \notin Executing
       \/ status[at[p]] # "PROCESSING"
  /\ \A p \in Procs : pc'[p] = "reject" =>
       at'[p] = at[p] /\ (pc[p] = "reject" \/ status[at[p]] = "PROCESSING")

LEMMA SeenThroughKept ==
  ASSUME IInv, SeenThrough, NoStatusWritten
  PROVE  SeenThrough'
<1>1. ASSUME NEW o \in Orders, status[o] = "PROCESSING"
      PROVE  \E p \in Procs : Executes(p, o)'
  <2>1. PICK p \in Procs : Executes(p, o)
    BY <1>1 DEF SeenThrough
  <2>2. Executes(p, o)'
    BY <1>1, <2>1 DEF NoStatusWritten, Executes
  <2> QED BY <2>2
<1>2. \A p \in Procs : pc'[p] = "reject" => status'[at'[p]] = "PROCESSING"
  BY DEF NoStatusWritten, SeenThrough
<1>3. \A o \in Orders : status'[o] = "REJECTED" => position'[o] = "none"
  BY DEF NoStatusWritten, SeenThrough
<1> QED BY <1>1, <1>2, <1>3 DEF NoStatusWritten, SeenThrough, Executes

\* p writes s to the row o, whose execution it holds or takes over.
LEMMA SeenThroughWritten ==
  ASSUME IInv, SeenThrough, NEW p \in Procs, NEW o \in Orders, NEW s \in Statuses,
         status' = [status EXCEPT ![o] = s],
         s = "PROCESSING" => Executes(p, o)',
         \A q \in Procs \ {p} : pc'[q] = pc[q] /\ at'[q] = at[q] /\ ~Executes(q, o),
         pc[p] \in Executing => at[p] = o,
         pc'[p] # "reject",
         \A x \in Orders \ {o} : position'[x] = position[x],
         s = "REJECTED" => position'[o] = "none"
  PROVE  SeenThrough'
<1> USE DEF IInv, TypeOK
<1>1. ASSUME NEW x \in Orders, status'[x] = "PROCESSING"
      PROVE  \E q \in Procs : Executes(q, x)'
  <2>1. CASE x = o
    BY <1>1, <2>1
  <2>2. CASE x # o
    <3>1. PICK q \in Procs : Executes(q, x)
      BY <1>1, <2>2 DEF SeenThrough
    <3>2. q # p
      BY <2>2, <3>1 DEF Executes
    <3>3. Executes(q, x)'
      BY <3>1, <3>2 DEF Executes
    <3> QED BY <3>3
  <2> QED BY <2>1, <2>2
<1>2. ASSUME NEW q \in Procs, pc'[q] = "reject"
      PROVE  status'[at'[q]] = "PROCESSING"
  <2>1. q # p /\ pc[q] = "reject" /\ at'[q] = at[q] /\ ~Executes(q, o)
    BY <1>2
  <2>2. at[q] \in Orders /\ at[q] # o /\ status[at[q]] = "PROCESSING"
    BY <2>1, Exclusive DEF Executes, SeenThrough, Executing
  <2> QED BY <2>1, <2>2
<1>3. \A x \in Orders : status'[x] = "REJECTED" => position'[x] = "none"
  BY DEF SeenThrough
<1> QED BY <1>1, <1>2, <1>3 DEF SeenThrough

\* Inside the try block, before the commit, the row is in PROCESSING.
LEMMA ThrowSeen ==
  ASSUME IInv, NEW p \in Procs, pc[p] \in {"price", "risk", "commit"}, NEW why,
         Throw(p, why), UNCHANGED rows
  PROVE  NoStatusWritten
<1>1. status[at[p]] = "PROCESSING"
  BY DEF IInv, ClaimInv, Claimed
<1>2. \A q \in Procs \ {p} : pc'[q] = pc[q]
  BY DEF Throw, Goto, IInv, TypeOK
<1>3. pc'[p] = "reject" /\ at' = at /\ pc[p] \in Executing /\ pc'[p] \in Executing
  BY DEF Throw, Goto, IInv, TypeOK, Executing, InTry
<1> QED BY <1>1, <1>2, <1>3 DEF NoStatusWritten, rows

\* p moves outside the executions, and does not enter a catch block.
LEMMA OutsideSeen ==
  ASSUME IInv, NEW p \in Procs, pc[p] \notin Executing, pc'[p] # "reject",
         \A q \in Procs \ {p} : pc'[q] = pc[q] /\ at'[q] = at[q],
         UNCHANGED <<status, position>>
  PROVE  NoStatusWritten
  BY DEF NoStatusWritten

LEMMA LeaveOutside ==
  ASSUME IInv, NEW p \in Procs, NEW x \in {"done", "failed"}, Leave(p, x)
  PROVE  /\ pc'[p] \in {"idle", x}
         /\ p \in Callers => pc'[p] = "idle" /\ at'[p] = None
         /\ p \notin Callers => pc'[p] = x /\ at'[p] = at[p]
         /\ \A q \in Procs \ {p} : pc'[q] = pc[q] /\ at'[q] = at[q]
         /\ UNCHANGED <<todo, holds>>
  BY DEF Leave, Goto, IInv, TypeOK

\* What a caller does when its request has a row already.
LEMMA AnswerOutside ==
  ASSUME IInv, NEW c \in Callers, NEW r, NEW o \in Orders, AnswerExisting(c, r, o)
  PROVE  /\ pc'[c] \in {"idle", "claim"}
         /\ \A q \in Procs \ {c} : pc'[q] = pc[q] /\ at'[q] = at[q]
         /\ UNCHANGED <<todo, holds>>
<1>1. CASE Leave(c, "done")
  BY <1>1, LeaveOutside
<1>2. CASE ~Leave(c, "done")
  BY <1>2 DEF AnswerExisting, Goto, IInv, TypeOK
<1> QED BY <1>1, <1>2

\* The parts of the steps that store, or claim, or settle a row.
LEMMA CreateParts ==
  ASSUME IInv, NEW c \in Callers, Create(c)
  PROVE  \E o \in Orders :
           /\ status[o] = "ABSENT"
           /\ status' = [status EXCEPT ![o] = "PENDING"]
           /\ \A x \in Orders \ {o} : request'[x] = request[x]
           /\ pc[c] = "create" /\ pc'[c] = "placed" /\ at'[c] = o
           /\ \A q \in Procs \ {c} : pc'[q] = pc[q] /\ at'[q] = at[q] /\ ~Executes(q, o)
           /\ UNCHANGED <<position, job, holds>>
<1>1. PICK o \in Orders \ Placed :
           /\ status' = [status EXCEPT ![o] = "PENDING"]
           /\ request' = [request EXCEPT ![o] = call[c]]
           /\ at' = [at EXCEPT ![c] = o]
  BY DEF Create
<1>2. status[o] = "ABSENT" /\ o \in Orders
  BY DEF Placed
<1>3. /\ pc[c] = "create" /\ pc' = [pc EXCEPT ![c] = "placed"]
      /\ UNCHANGED <<position, job, holds>>
  BY DEF Create, Goto, queue
<1>4. \A q \in Procs : ~Executes(q, o)
  BY <1>2, Exclusive DEF Executes
<1> QED BY <1>1, <1>2, <1>3, <1>4 DEF IInv, TypeOK

LEMMA SeenThroughExecution ==
  ASSUME IInv, SeenThrough, NEW p \in Procs, ExecutionStep(p)
  PROVE  SeenThrough'
<1> USE DEF IInv, TypeOK
<1>1. CASE Claim(p)
  <2>1. CASE Claimable(status[at[p]])
    <3>1. at[p] \in Orders /\ status[at[p]] \in Resting /\ pc[p] \notin Executing
      BY <1>1, <2>1 DEF Claim, Claimable, HandlesRow, Executing, InTry
    <3>2. \A q \in Procs : ~Executes(q, at[p])
      BY <3>1, Exclusive DEF Executes, Resting
    <3>3. /\ status' = [status EXCEPT ![at[p]] = "PROCESSING"]
          /\ pc' = [pc EXCEPT ![p] = "load"]
          /\ UNCHANGED <<position, at>>
      BY <1>1, <2>1 DEF Claim, Goto
    <3>4. /\ pc'[p] = "load" /\ Executes(p, at[p])'
          /\ \A q \in Procs \ {p} : pc'[q] = pc[q] /\ at'[q] = at[q] /\ ~Executes(q, at[p])
      BY <3>2, <3>3 DEF Executes, Executing
    <3> QED BY <3>1, <3>3, <3>4, SeenThroughWritten DEF Statuses
  <2>2. CASE ~Claimable(status[at[p]])
    <3>1. Leave(p, "done") /\ UNCHANGED <<status, position>> /\ pc[p] \notin Executing
      BY <1>1, <2>2 DEF Claim, Executing, InTry
    <3> QED BY <3>1, LeaveOutside, OutsideSeen, SeenThroughKept
  <2> QED BY <2>1, <2>2
<1>2. ASSUME pc[p] \in Executing, NEW label \in InTry, Goto(p, label),
             UNCHANGED <<status, position, at>>
      PROVE  SeenThrough'
  <2>1. pc'[p] \in Executing /\ pc'[p] # "reject" /\ \A q \in Procs \ {p} : pc'[q] = pc[q]
    BY <1>2 DEF Goto, Executing, InTry
  <2>2. NoStatusWritten
    BY <1>2, <2>1 DEF NoStatusWritten
  <2> QED BY <2>2, SeenThroughKept
<1>3. CASE Load(p)
  BY <1>2, <1>3 DEF Load, rows, Executing, InTry
<1>4. CASE PriceHalted(p)
  BY <1>4, ThrowSeen, SeenThroughKept DEF PriceHalted
<1>5. ASSUME NEW q \in Quotes, Price(p, q)
      PROVE  SeenThrough'
  <2>1. \/ Throw(p, "quote")
        \/ \E label \in {"rest", "risk"} : Goto(p, label) /\ UNCHANGED at
    BY <1>5 DEF Price
  <2>2. pc[p] = "price" /\ UNCHANGED rows
    BY <1>5 DEF Price
  <2> QED BY <1>2, <2>1, <2>2, ThrowSeen, SeenThroughKept DEF rows, Executing, InTry
<1>6. CASE Rest(p)
  <2>1. /\ status' = [status EXCEPT ![at[p]] = "OPEN"]
        /\ Leave(p, "done") /\ UNCHANGED position /\ pc[p] \in Executing
    BY <1>6 DEF Rest, RestStatus, Executing, InTry
  <2> QED BY <2>1, LeaveOutside, Exclusive, SeenThroughWritten DEF Statuses
<1>7. CASE Risk(p)
  <2>1. CASE CanBeOpened(PayloadOf(p))
    BY <1>2, <1>7, <2>1 DEF Risk, rows, Executing, InTry
  <2>2. CASE ~CanBeOpened(PayloadOf(p))
    BY <1>7, <2>2, ThrowSeen, SeenThroughKept DEF Risk
  <2> QED BY <2>1, <2>2
<1>8. CASE Commit(p)
  <2>1. CASE position[at[p]] = "none"
    <3>1. /\ status' = [status EXCEPT ![at[p]] = "EXECUTED"]
          /\ position' = [position EXCEPT ![at[p]] = "open"]
          /\ pc' = [pc EXCEPT ![p] = "after"]
          /\ UNCHANGED at
          /\ pc[p] \in Executing
      BY <1>8, <2>1 DEF Commit, Goto, Executing, InTry
    <3>2. /\ pc'[p] = "after"
          /\ \A q \in Procs \ {p} : pc'[q] = pc[q] /\ at'[q] = at[q] /\ ~Executes(q, at[p])
          /\ \A x \in Orders \ {at[p]} : position'[x] = position[x]
      BY <3>1, Exclusive
    <3> QED BY <3>1, <3>2, Exclusive, SeenThroughWritten DEF Statuses
  <2>2. CASE position[at[p]] # "none"
    <3>1. pc[p] = "commit" /\ Throw(p, "error") /\ UNCHANGED rows
      BY <1>8, <2>2 DEF Commit, rows
    <3> QED BY <3>1, ThrowSeen, SeenThroughKept
  <2> QED BY <2>1, <2>2
<1>9. CASE After(p)
  <2>1. Leave(p, "done") /\ UNCHANGED <<status, position>> /\ status[at[p]] = "EXECUTED"
    BY <1>9 DEF After, rows, ClaimInv, Claimed
  <2> HIDE DEF IInv, TypeOK
  <2>2. /\ \A q \in Procs \ {p} : pc'[q] = pc[q] /\ at'[q] = at[q]
        /\ pc'[p] \in {"idle", "done"}
    BY <2>1, LeaveOutside
  <2>3. NoStatusWritten
    BY <2>1, <2>2 DEF NoStatusWritten
  <2> QED BY <2>3, SeenThroughKept
<1>10. CASE Reject(p)
  <2>1. PICK x \in {"done", "failed"} : Leave(p, x)
    BY <1>10 DEF Reject
  <2>2. /\ status' = [status EXCEPT ![at[p]] = "REJECTED"]
        /\ UNCHANGED position /\ pc[p] \in Executing /\ status[at[p]] = "PROCESSING"
    BY <1>10 DEF Reject, SeenThrough, Executing
  <2>3. position[at[p]] = "none" /\ at[p] \in Orders
    BY <2>2, Exclusive DEF PositionMatchesOrder
  <2> HIDE DEF IInv, TypeOK
  <2>4. /\ pc'[p] # "reject"
        /\ \A q \in Procs \ {p} : pc'[q] = pc[q] /\ at'[q] = at[q]
    BY <2>1, LeaveOutside
  <2>5. \A q \in Procs \ {p} : ~Executes(q, at[p])
    BY <2>2, Exclusive
  <2> QED BY <2>2, <2>3, <2>4, <2>5, SeenThroughWritten DEF Statuses
<1> QED BY <1>1, <1>3, <1>4, <1>5, <1>6, <1>7, <1>8, <1>9, <1>10 DEF ExecutionStep

LEMMA SeenThroughNext ==
  ASSUME IInv, SeenThrough, [Next]_vars, faults' = 0
  PROVE  SeenThrough'
<1> USE DEF IInv, TypeOK
<1>0. ~FaultStep
  BY DEF FaultStep, PlacedFails, TryFails, ExecutionFails, Crash, OneFault
<1>1. ASSUME NEW c \in Callers, NEW r \in Requests, ReceiveNew(c, r) \/ ReceiveDuplicate(c, r)
      PROVE  SeenThrough'
  <2>1. pc[c] = "idle" /\ UNCHANGED <<status, position>>
    BY <1>1 DEF ReceiveNew, ReceiveDuplicate, rows
  <2>2. CASE ReceiveNew(c, r)
    <3>1. pc' = [pc EXCEPT ![c] = "preflight"] /\ UNCHANGED at
      BY <2>2 DEF ReceiveNew, Goto
    <3> QED BY <2>1, <3>1, OutsideSeen, SeenThroughKept DEF Executing, InTry
  <2>3. CASE ReceiveDuplicate(c, r)
    <3>1. PICK o \in Orders : AnswerExisting(c, r, o)
      BY <2>3 DEF ReceiveDuplicate, FindIdempotentOrder, Placed
    <3> QED BY <2>1, <3>1, AnswerOutside, OutsideSeen, SeenThroughKept DEF Executing, InTry
  <2> QED BY <1>1, <2>2, <2>3
<1>2. ASSUME NEW c \in Callers, CallerStep(c)
      PROVE  SeenThrough'
  <2>1. CASE Create(c)
    <3>1. PICK o \in Orders :
             /\ status[o] = "ABSENT"
             /\ status' = [status EXCEPT ![o] = "PENDING"]
             /\ pc[c] = "create" /\ pc'[c] = "placed" /\ at'[c] = o
             /\ \A q \in Procs \ {c} : pc'[q] = pc[q] /\ at'[q] = at[q] /\ ~Executes(q, o)
             /\ UNCHANGED position
      BY <2>1, CreateParts
    <3>2. pc[c] \notin Executing
      BY <3>1 DEF Executing, InTry
    <3> QED BY <3>1, <3>2, SeenThroughWritten DEF Statuses
  <2>2. CASE ~Create(c)
    <3>1. pc[c] \notin Executing /\ UNCHANGED <<status, position>>
      BY <1>2, <2>2 DEF CallerStep, Preflight, PreflightRefuses, CreateConflicts,
         EnqueueOrderExecution, ExecuteDirectly, rows, Executing, InTry
    <3>2. CASE \E x \in {"done", "failed"} : Leave(c, x)
      BY <3>1, <3>2, LeaveOutside, OutsideSeen, SeenThroughKept
    <3>3. CASE CreateConflicts(c)
      <4>1. PICK o \in Orders : AnswerExisting(c, call[c], o)
        BY <3>3 DEF CreateConflicts, UniqueIndexHits, FindIdempotentOrder, Placed
      <4> QED BY <3>1, <4>1, AnswerOutside, OutsideSeen, SeenThroughKept
    <3>4. CASE Preflight(c) \/ ExecuteDirectly(c)
      <4>1. UNCHANGED at /\ \E label \in {"create", "claim"} : pc' = [pc EXCEPT ![c] = label]
        BY <3>4 DEF Preflight, ExecuteDirectly, Goto
      <4>2. pc'[c] # "reject" /\ \A q \in Procs \ {c} : pc'[q] = pc[q] /\ at'[q] = at[q]
        BY <4>1
      <4> QED BY <3>1, <4>2, OutsideSeen, SeenThroughKept
    <3> QED BY <1>2, <2>2, <3>2, <3>3, <3>4
            DEF CallerStep, PreflightRefuses, EnqueueOrderExecution
  <2> QED BY <2>1, <2>2
<1>3. ASSUME NEW w \in Workers,
             WorkerStep(w) \/ ProcessLimitSweep(w) \/ \E o \in Orders : TakeJob(w, o)
      PROVE  SeenThrough'
  <2>1. pc[w] \in {"idle", "done", "failed"} /\ UNCHANGED <<status, position>>
    BY <1>3 DEF WorkerStep, CompleteJob, FailJob, SweepNext, SweepEnds, ProcessLimitSweep,
       TakeJob, TryNext, rows
  <2>2. \E label \in {"idle", "claim"} : Goto(w, label)
    BY <1>3 DEF WorkerStep, CompleteJob, FailJob, SweepNext, SweepEnds, ProcessLimitSweep,
       TakeJob, TryNext, Release
  <2>3. \A q \in Procs \ {w} : at'[q] = at[q]
    BY <1>3 DEF WorkerStep, CompleteJob, FailJob, SweepNext, SweepEnds, ProcessLimitSweep,
       TakeJob, TryNext, Release
  <2>4. /\ pc[w] \notin Executing /\ pc'[w] # "reject"
        /\ \A q \in Procs \ {w} : pc'[q] = pc[q]
    BY <2>1, <2>2 DEF Goto, Executing, InTry
  <2> QED BY <2>1, <2>3, <2>4, OutsideSeen, SeenThroughKept
<1>4. CASE \/ \E o \in Orders : Stalled(o) \/ ClosePosition(o)
           \/ RetryAllFailedJobs \/ ToggleTrading \/ UNCHANGED vars
  <2>1. UNCHANGED <<status, local>>
    BY <1>4 DEF Stalled, ClosePosition, RetryAllFailedJobs, ToggleTrading, vars, rows
  <2>2. \A o \in Orders : position[o] = "none" => position'[o] = "none"
    BY <1>4 DEF Stalled, ClosePosition, RetryAllFailedJobs, ToggleTrading, vars, rows
  <2>3. NoStatusWritten
    BY <2>1, <2>2 DEF NoStatusWritten, local
  <2> QED BY <2>3, SeenThroughKept
<1> QED BY <1>0, <1>1, <1>2, <1>3, <1>4, SeenThroughExecution DEF Next
-----------------------------------------------------------------------------
(***************************************************************************)
(* A step that leaves jobs alone, and takes a row from being pending only  *)
(* out of the hands of whoever was to claim it.                            *)
(***************************************************************************)
JobsAlone ==
  /\ UNCHANGED <<job, holds>>
  /\ \A o \in Orders : status[o] # "ABSENT" => status'[o] # "ABSENT" /\ request'[o] = request[o]
  /\ \A o \in Orders : status'[o] = "PENDING" => status[o] = "PENDING"
  /\ \A o \in Orders : status'[o] = "ABSENT" => status[o] = "ABSENT"
  /\ \A w \in Workers : pc'[w] # "failed"
  /\ \A w \in Workers : holds[w] # None => at'[w] = at[w] /\ pc'[w] # "idle"
  /\ \A c \in Callers : pc'[c] = "placed" => pc[c] = "placed" /\ at'[c] = at[c]
  /\ \A w \in Workers : pc[w] = "claim" /\ holds[w] # None =>
       pc'[w] = "claim" \/ status'[at[w]] # "PENDING"
  /\ \A c \in Callers : pc[c] \in {"placed", "claim"} =>
       \/ pc'[c] \in {"placed", "claim"} /\ at'[c] = at[c]
       \/ status'[at[c]] # "PENDING"

LEMMA JobsAloneKept ==
  ASSUME IInv, JobsHeld, QueuedOnce, PendingScheduled, JobsAlone
  PROVE  (JobsHeld /\ QueuedOnce /\ PendingScheduled)'
<1>1. JobsHeld'
  BY DEF JobsHeld, JobsAlone
<1>2. QueuedOnce'
  <2>1. \A o \in Orders : status'[o] = "ABSENT" => job'[o] = "none"
    BY DEF QueuedOnce, JobsAlone
  <2>2. ASSUME NEW c \in Callers, pc'[c] = "placed"
        PROVE  pc[c] = "placed" /\ at'[c] = at[c] /\ status'[at[c]] # "ABSENT" /\ job'[at[c]] = "none"
    <3>1. pc[c] = "placed" /\ at'[c] = at[c]
      BY <2>2 DEF JobsAlone
    <3>2. at[c] \in Orders
      BY <3>1 DEF IInv, HandlesRow
    <3> QED BY <3>1, <3>2 DEF QueuedOnce, JobsAlone
  <2> QED BY <2>1, <2>2 DEF QueuedOnce
<1>3. PendingScheduled'
  <2> SUFFICES ASSUME NEW o \in Orders, status'[o] = "PENDING", request'[o].payload.type = "MARKET"
               PROVE  Scheduled(o)'
    BY DEF PendingScheduled
  <2>1. status[o] = "PENDING" /\ request[o].payload.type = "MARKET"
    BY DEF JobsAlone
  <2>2. Scheduled(o)
    BY <2>1 DEF PendingScheduled
  <2>3. CASE job[o] = "waiting"
    BY <2>3 DEF Scheduled, JobsAlone
  <2>4. ASSUME NEW w \in Workers, at[w] = o, pc[w] = "claim", holds[w] = o
        PROVE  Scheduled(o)'
    BY <2>4 DEF Scheduled, JobsAlone
  <2>5. ASSUME NEW c \in Callers, at[c] = o, pc[c] \in {"placed", "claim"}
        PROVE  Scheduled(o)'
    BY <2>5 DEF Scheduled, JobsAlone
  <2> QED BY <2>2, <2>3, <2>4, <2>5 DEF Scheduled
<1> QED BY <1>1, <1>2, <1>3

\* A process moves and no row changes.
LEMMA MoveAlone ==
  ASSUME IInv, JobsHeld, NEW p \in Procs, UNCHANGED <<status, request, job, holds>>,
         \A q \in Procs \ {p} : pc'[q] = pc[q] /\ at'[q] = at[q],
         p \in Workers => pc'[p] # "failed",
         p \in Workers /\ holds[p] # None => at'[p] = at[p] /\ pc'[p] # "idle",
         p \in Callers => pc'[p] # "placed",
         pc[p] \in {"placed", "claim"} =>
           (pc'[p] = "claim" /\ at'[p] = at[p]) \/ status[at[p]] # "PENDING"
  PROVE  JobsAlone
  BY DEF JobsAlone, JobsHeld

LEMMA AnswerAlone ==
  ASSUME IInv, JobsHeld, NEW c \in Callers, pc[c] \in {"idle", "create"}, NEW r, NEW o \in Orders,
         AnswerExisting(c, r, o), UNCHANGED <<status, request, job>>
  PROVE  JobsAlone
<1>1. c \notin Workers
  BY ProcsAssumption
<1> QED BY <1>1, AnswerOutside, MoveAlone

\* Where an execution goes on, and what its steps do to the rows.
LEMMA ExecutionAlone ==
  ASSUME IInv, IInv', JobsHeld, NEW p \in Procs, ExecutionStep(p), faults' = 0
  PROVE  JobsAlone
<1> USE DEF IInv, TypeOK
<1>1. at[p] \in Orders /\ (status[at[p]] # "ABSENT" \/ pc[p] = "claim")
  BY Exclusive DEF ExecutionStep, Claim, Load, PriceHalted, Price, Rest, Risk, Commit, After,
     Reject, Executing, InTry, HandlesRow
<1>2. /\ UNCHANGED <<request, job, holds>>
      /\ \A q \in Procs \ {p} : pc'[q] = pc[q] /\ at'[q] = at[q]
  <2>1. UNCHANGED <<request, job>>
    BY DEF ExecutionStep, Claim, Load, PriceHalted, Price, Rest, Risk, Commit, After, Reject,
       rows, queue
  <2>2. CASE \E x \in {"done", "failed"} : Leave(p, x)
    BY <2>1, <2>2, LeaveOutside
  <2>3. CASE UNCHANGED <<at, holds>> /\ \E label \in PCs : Goto(p, label)
    BY <2>1, <2>3 DEF Goto
  <2>4. \/ \E x \in {"done", "failed"} : Leave(p, x)
        \/ UNCHANGED <<at, holds>> /\ \E label \in PCs : Goto(p, label)
    BY DEF ExecutionStep, Claim, Load, PriceHalted, Price, Rest, Risk, Commit, After, Reject,
       Throw, PCs, Executing, InTry
  <2> QED BY <2>2, <2>3, <2>4
<1>3. p \in Workers => at'[p] = at[p] /\ pc'[p] # "idle" /\ pc'[p] # "failed"
  <2>1. p \in Workers => p \notin Callers
    BY ProcsAssumption
  <2>2. CASE Leave(p, "done")
    BY <2>1, <2>2, LeaveOutside
  <2>3. CASE Leave(p, "failed") /\ OneFault
    BY <2>3 DEF OneFault
  <2>4. CASE UNCHANGED at /\ \E label \in Executing : Goto(p, label)
    BY <2>4 DEF Goto, Executing, InTry
  <2>5. \/ Leave(p, "done") \/ (Leave(p, "failed") /\ OneFault)
        \/ UNCHANGED at /\ \E label \in Executing : Goto(p, label)
    BY DEF ExecutionStep, Claim, Load, PriceHalted, Price, Rest, Risk, Commit, After, Reject,
       Throw, Executing, InTry
  <2> QED BY <2>2, <2>3, <2>4, <2>5
<1>4. p \in Callers => pc'[p] # "placed"
  <2>1. CASE \E x \in {"done", "failed"} : Leave(p, x)
    BY <2>1, LeaveOutside
  <2>2. CASE \E label \in Executing : Goto(p, label)
    BY <2>2 DEF Goto, Executing, InTry
  <2>3. \/ \E x \in {"done", "failed"} : Leave(p, x)
        \/ \E label \in Executing : Goto(p, label)
    BY DEF ExecutionStep, Claim, Load, PriceHalted, Price, Rest, Risk, Commit, After, Reject,
       Throw, Executing, InTry
  <2> QED BY <2>1, <2>2, <2>3
<1>5. pc[p] \notin {"placed"} /\ (pc[p] = "claim" => Claim(p))
  BY DEF ExecutionStep, Claim, Load, PriceHalted, Price, Rest, Risk, Commit, After, Reject
<1>6. pc[p] = "claim" => status'[at[p]] # "PENDING"
  BY <1>1, <1>5 DEF Claim, Claimable, Resting
<1>7. \/ UNCHANGED status
      \/ \E s \in Statuses \ {"PENDING"} : status' = [status EXCEPT ![at[p]] = s]
  <2>1. CASE Claim(p)
    BY <2>1 DEF Claim, Statuses
  <2>2. CASE Rest(p)
    BY <2>2 DEF Rest, RestStatus, Statuses
  <2>3. CASE Commit(p)
    BY <2>3 DEF Commit, Statuses
  <2>4. CASE Reject(p)
    BY <2>4 DEF Reject, Statuses
  <2>5. CASE ~Claim(p) /\ ~Rest(p) /\ ~Commit(p) /\ ~Reject(p)
    BY <2>5 DEF ExecutionStep, Load, PriceHalted, Price, Risk, After, rows
  <2> QED BY <2>1, <2>2, <2>3, <2>4, <2>5
<1>8. \A o \in Orders : /\ status[o] # "ABSENT" => status'[o] # "ABSENT"
                        /\ status'[o] = "PENDING" => status[o] = "PENDING"
                        /\ status'[o] = "ABSENT" => status[o] = "ABSENT"
  BY <1>7 DEF Statuses
<1>9. \A q \in Procs \ {p} : pc[q] \in {"placed", "claim"} => pc'[q] = pc[q] /\ at'[q] = at[q]
  BY <1>2
<1>10. \A w \in Workers : /\ pc'[w] # "failed"
                          /\ holds[w] # None => at'[w] = at[w] /\ pc'[w] # "idle"
  BY <1>2, <1>3 DEF JobsHeld
<1>11. \A q \in Procs : pc[q] \in {"placed", "claim"} =>
         \/ pc'[q] = pc[q] /\ at'[q] = at[q]
         \/ status'[at[q]] # "PENDING"
  BY <1>5, <1>6, <1>9
<1>12. \A c \in Callers : pc'[c] = "placed" => pc[c] = "placed" /\ at'[c] = at[c]
  BY <1>2, <1>4
<1> QED BY <1>2, <1>8, <1>10, <1>11, <1>12 DEF JobsAlone
\* The steps that do write jobs or store rows: a row is stored without a job,
\* its job starts to wait, is taken, and ends.
LEMMA CreateJobs ==
  ASSUME IInv, JobsHeld, QueuedOnce, PendingScheduled, NEW c \in Callers, Create(c)
  PROVE  (JobsHeld /\ QueuedOnce /\ PendingScheduled)'
<1> USE DEF IInv, TypeOK
<1>0. \A w \in Workers : w # c
  BY ProcsAssumption
<1>1. PICK o \in Orders :
         /\ status[o] = "ABSENT"
         /\ status' = [status EXCEPT ![o] = "PENDING"]
         /\ \A x \in Orders \ {o} : request'[x] = request[x]
         /\ pc[c] = "create" /\ pc'[c] = "placed" /\ at'[c] = o
         /\ \A q \in Procs \ {c} : pc'[q] = pc[q] /\ at'[q] = at[q] /\ ~Executes(q, o)
         /\ UNCHANGED <<position, job, holds>>
  BY CreateParts
<1>2. JobsHeld'
  <2>1. \A w \in Workers : pc'[w] = pc[w] /\ at'[w] = at[w]
    BY <1>0, <1>1
  <2> HIDE DEF IInv, TypeOK
  <2> QED BY <1>1, <2>1 DEF JobsHeld
<1>3. QueuedOnce'
  <2>1. \A x \in Orders : status'[x] = "ABSENT" => status[x] = "ABSENT"
    BY <1>1
  <2>2. ASSUME NEW d \in Callers \ {c}, pc'[d] = "placed"
        PROVE  /\ pc[d] = "placed" /\ at'[d] = at[d] /\ at[d] # o
               /\ status'[at[d]] # "ABSENT" /\ job[at[d]] = "none"
    <3>1. pc[d] = "placed" /\ at'[d] = at[d] /\ at[d] \in Orders
      BY <1>1, <2>2 DEF HandlesRow
    <3>2. status[at[d]] # "ABSENT" /\ job[at[d]] = "none"
      BY <3>1 DEF QueuedOnce
    <3> QED BY <1>1, <3>1, <3>2
  <2>3. status'[o] = "PENDING" /\ job[o] = "none"
    BY <1>1 DEF QueuedOnce
  <2>4. ASSUME NEW d \in Callers, pc'[d] = "placed"
        PROVE  status'[at'[d]] # "ABSENT" /\ job'[at'[d]] = "none"
    BY <1>1, <2>2, <2>3, <2>4
  <2>5. ASSUME NEW d \in Callers, NEW e \in Callers,
               pc'[d] = "placed", pc'[e] = "placed", at'[d] = at'[e]
        PROVE  d = e
    BY <1>1, <2>2, <2>5 DEF QueuedOnce
  <2>6. \A x \in Orders : status'[x] = "ABSENT" => job'[x] = "none"
    BY <1>1, <2>1 DEF QueuedOnce
  <2> QED BY <2>4, <2>5, <2>6 DEF QueuedOnce
<1>4. PendingScheduled'
  <2> SUFFICES ASSUME NEW x \in Orders, status'[x] = "PENDING", request'[x].payload.type = "MARKET"
               PROVE  Scheduled(x)'
    BY DEF PendingScheduled
  <2>1. CASE x = o
    BY <1>1, <2>1 DEF Scheduled
  <2>2. CASE x # o
    <3>1. Scheduled(x)
      BY <1>1, <2>2 DEF PendingScheduled
    <3>2. \A q \in Procs : pc[q] \in {"placed", "claim"} => pc'[q] = pc[q] /\ at'[q] = at[q]
      BY <1>1
    <3> HIDE DEF IInv, TypeOK
    <3> QED BY <1>1, <3>1, <3>2 DEF Scheduled
  <2> QED BY <2>1, <2>2
<1> QED BY <1>2, <1>3, <1>4

LEMMA EnqueueJobs ==
  ASSUME IInv, JobsHeld, QueuedOnce, PendingScheduled, NEW c \in Callers,
         EnqueueOrderExecution(c)
  PROVE  (JobsHeld /\ QueuedOnce /\ PendingScheduled)'
<1> USE DEF IInv, TypeOK
<1>0. \A w \in Workers : w # c
  BY ProcsAssumption
<1>1. /\ pc[c] = "placed" /\ job' = [job EXCEPT ![at[c]] = "waiting"]
      /\ Leave(c, "done") /\ UNCHANGED <<status, request>>
  BY DEF EnqueueOrderExecution, rows
<1>2. PICK o \in Orders : at[c] = o
  BY <1>1 DEF HandlesRow
<1>3. /\ pc'[c] = "idle" /\ UNCHANGED holds
      /\ \A q \in Procs \ {c} : pc'[q] = pc[q] /\ at'[q] = at[q]
  BY <1>1, LeaveOutside
<1>4. job[o] = "none" /\ status[o] # "ABSENT"
  BY <1>1, <1>2 DEF QueuedOnce
<1>5. job'[o] = "waiting" /\ \A x \in Orders \ {o} : job'[x] = job[x]
  BY <1>1, <1>2
<1>6. JobsHeld'
  <2>1. \A w \in Workers : holds[w] # None =>
          /\ holds'[w] = at'[w] /\ job'[holds[w]] = "active" /\ pc'[w] # "idle"
    <3>1. \A w \in Workers : holds[w] # None => holds[w] \in Orders /\ holds[w] # o
      BY <1>4 DEF JobsHeld
    <3> QED BY <1>0, <1>3, <1>5, <3>1 DEF JobsHeld
  <2>2. \A x \in Orders : job'[x] # "failed"
                          /\ (job'[x] = "active" => \E w \in Workers : holds'[w] = x)
    BY <1>3, <1>5 DEF JobsHeld
  <2> HIDE DEF IInv, TypeOK
  <2>3. \A w \in Workers : pc'[w] # "failed"
    BY <1>0, <1>3 DEF JobsHeld
  <2> QED BY <1>3, <2>1, <2>2, <2>3 DEF JobsHeld
<1>7. QueuedOnce'
  <2>1. \A d \in Callers : pc'[d] = "placed" =>
           pc[d] = "placed" /\ at'[d] = at[d] /\ at[d] \in Orders /\ at[d] # o
    <3>1. \A d \in Callers : pc'[d] = "placed" => d # c /\ pc[d] = "placed" /\ at'[d] = at[d]
      BY <1>3
    <3>2. \A d \in Callers : d # c /\ pc[d] = "placed" => at[d] \in Orders /\ at[d] # at[c]
      BY <1>1 DEF QueuedOnce, HandlesRow
    <3> QED BY <1>2, <3>1, <3>2
  <2> QED BY <1>1, <1>4, <1>5, <2>1 DEF QueuedOnce
<1>8. PendingScheduled'
  <2> SUFFICES ASSUME NEW x \in Orders, status'[x] = "PENDING", request'[x].payload.type = "MARKET"
               PROVE  Scheduled(x)'
    BY DEF PendingScheduled
  <2>1. CASE x = o
    BY <1>5, <2>1 DEF Scheduled
  <2>2. CASE x # o
    <3>1. Scheduled(x)
      BY <1>1 DEF PendingScheduled
    <3> QED BY <1>0, <1>2, <1>3, <1>5, <2>2, <3>1 DEF Scheduled
  <2> QED BY <2>1, <2>2
<1> QED BY <1>6, <1>7, <1>8

LEMMA TakeJobs ==
  ASSUME IInv, JobsHeld, QueuedOnce, PendingScheduled, NEW w \in Workers, NEW o \in Orders,
         TakeJob(w, o)
  PROVE  (JobsHeld /\ QueuedOnce /\ PendingScheduled)'
<1> USE DEF IInv, TypeOK
<1>0. \A c \in Callers : c # w
  BY ProcsAssumption
<1>1. /\ pc[w] = "idle" /\ job[o] = "waiting"
      /\ job' = [job EXCEPT ![o] = "active"]
      /\ holds' = [holds EXCEPT ![w] = o]
      /\ at' = [at EXCEPT ![w] = o]
      /\ pc' = [pc EXCEPT ![w] = "claim"]
      /\ UNCHANGED <<status, request>>
  BY DEF TakeJob, Goto, rows
<1>2. holds[w] = None /\ \A x \in Workers : holds[x] # o
  <2>1. o # None
    BY BoundsAssumption
  <2> HIDE DEF IInv, TypeOK
  <2> QED BY <1>1, <2>1 DEF JobsHeld
<1>3. JobsHeld'
  <2>1. \A x \in Workers : holds'[x] # None =>
          holds'[x] = at'[x] /\ job'[holds'[x]] = "active" /\ pc'[x] # "idle"
    BY <1>1, <1>2 DEF JobsHeld
  <2>2. \A x \in Workers : pc'[x] # "failed"
    BY <1>1 DEF JobsHeld
  <2>3. \A x, y \in Workers : holds'[x] = holds'[y] /\ holds'[x] # None => x = y
    BY <1>1, <1>2 DEF JobsHeld
  <2>4. \A x \in Orders : /\ job'[x] # "failed"
                          /\ job'[x] = "active" => \E y \in Workers : holds'[y] = x
    <3>1. holds'[w] = o /\ \A y \in Workers \ {w} : holds'[y] = holds[y]
      BY <1>1
    <3>2. \A x \in Orders \ {o} : job'[x] = job[x]
      BY <1>1
    <3>3. job'[o] = "active"
      BY <1>1
    <3>4. ASSUME NEW x \in Orders, x # o
          PROVE  job'[x] # "failed" /\ (job'[x] = "active" => \E y \in Workers : holds'[y] = x)
      <4>1. job'[x] = job[x] /\ job[x] # "failed"
        BY <3>2, <3>4 DEF JobsHeld
      <4>2. ASSUME job[x] = "active"
            PROVE  \E y \in Workers : holds'[y] = x
        <5>1. PICK y \in Workers : holds[y] = x
          BY <4>2 DEF JobsHeld
        <5>2. y # w /\ holds'[y] = x
          BY <1>2, <3>1, <3>4, <5>1, BoundsAssumption
        <5> QED BY <5>2
      <4> QED BY <4>1, <4>2
    <3> QED BY <3>1, <3>3, <3>4
  <2> QED BY <2>1, <2>2, <2>3, <2>4 DEF JobsHeld
<1>4. QueuedOnce'
  <2>1. \A d \in Callers : pc'[d] = pc[d] /\ at'[d] = at[d]
    BY <1>0, <1>1
  <2>2. \A x \in Orders : job'[x] = "none" <=> job[x] = "none"
    BY <1>1
  <2>3. \A d \in Callers : pc[d] = "placed" => at[d] \in Orders
    BY DEF HandlesRow
  <2> QED BY <1>1, <2>1, <2>2, <2>3 DEF QueuedOnce
<1>5. PendingScheduled'
  <2> SUFFICES ASSUME NEW x \in Orders, status'[x] = "PENDING", request'[x].payload.type = "MARKET"
               PROVE  Scheduled(x)'
    BY DEF PendingScheduled
  <2>1. CASE x = o
    BY <1>1, <2>1 DEF Scheduled
  <2>2. CASE x # o
    <3>1. Scheduled(x)
      BY <1>1 DEF PendingScheduled
    <3>2. job'[x] = job[x]
      BY <1>1, <2>2
    <3>3. \A q \in Procs : q # w => pc'[q] = pc[q] /\ at'[q] = at[q]
      BY <1>1
    <3>4. \A y \in Workers : y # w => holds'[y] = holds[y]
      BY <1>1
    <3> QED BY <1>0, <1>1, <3>1, <3>2, <3>3, <3>4 DEF Scheduled
  <2> QED BY <2>1, <2>2
<1> QED BY <1>3, <1>4, <1>5

LEMMA CompleteJobs ==
  ASSUME IInv, JobsHeld, QueuedOnce, PendingScheduled, NEW w \in Workers, CompleteJob(w)
  PROVE  (JobsHeld /\ QueuedOnce /\ PendingScheduled)'
<1> USE DEF IInv, TypeOK
<1>0. \A c \in Callers : c # w
  BY ProcsAssumption
<1>1. /\ pc[w] = "done" /\ holds[w] # None
      /\ job' = [job EXCEPT ![holds[w]] = "completed"]
      /\ holds' = [holds EXCEPT ![w] = None]
      /\ at' = [at EXCEPT ![w] = None]
      /\ pc' = [pc EXCEPT ![w] = "idle"]
      /\ UNCHANGED <<status, request>>
  BY DEF CompleteJob, Release, Goto, rows
<1>2. PICK o \in Orders : holds[w] = o
  BY <1>1
<1>3. job[o] = "active" /\ \A x \in Workers \ {w} : holds[x] # o
  BY <1>1, <1>2 DEF JobsHeld
<1>4. job'[o] = "completed" /\ \A x \in Orders \ {o} : job'[x] = job[x]
  BY <1>1, <1>2
<1>5. holds'[w] = None /\ \A x \in Workers \ {w} : holds'[x] = holds[x]
  BY <1>1
<1>6. pc'[w] = "idle" /\ \A q \in Procs \ {w} : pc'[q] = pc[q] /\ at'[q] = at[q]
  BY <1>1
<1>7. JobsHeld'
  <2>1. \A x \in Workers : holds'[x] # None =>
          holds'[x] = at'[x] /\ job'[holds'[x]] = "active" /\ pc'[x] # "idle"
    <3>1. ASSUME NEW x \in Workers, holds'[x] # None
          PROVE  holds'[x] = at'[x] /\ job'[holds'[x]] = "active" /\ pc'[x] # "idle"
      <4>1. x # w /\ holds'[x] = holds[x] /\ holds[x] # o /\ holds[x] \in Orders
        BY <1>3, <1>5, <3>1
      <4>2. holds[x] = at[x] /\ job[holds[x]] = "active" /\ pc[x] # "idle"
        BY <3>1, <4>1 DEF JobsHeld
      <4> QED BY <1>4, <1>6, <4>1, <4>2
    <3> QED BY <3>1
  <2>2. \A x \in Orders : /\ job'[x] # "failed"
                          /\ job'[x] = "active" => \E y \in Workers : holds'[y] = x
    <3>1. ASSUME NEW x \in Orders, job'[x] = "active"
          PROVE  \E y \in Workers : holds'[y] = x
      <4>1. x # o /\ job[x] = "active"
        BY <1>4, <3>1
      <4>2. PICK y \in Workers : holds[y] = x
        BY <4>1 DEF JobsHeld
      <4> QED BY <1>2, <1>5, <4>1, <4>2
    <3>2. \A x \in Orders : job'[x] # "failed"
      BY <1>4 DEF JobsHeld
    <3> QED BY <3>1, <3>2
  <2> HIDE DEF IInv, TypeOK
  <2>3. \A x \in Workers : pc'[x] # "failed"
    BY <1>6 DEF JobsHeld
  <2>4. ASSUME NEW x \in Workers, NEW y \in Workers, holds'[x] = holds'[y], holds'[x] # None
        PROVE  x = y
    <3>1. holds[x] = holds[y] /\ holds[x] # None
      BY <1>5, <2>4
    <3> QED BY <3>1 DEF JobsHeld
  <2> QED BY <2>1, <2>2, <2>3, <2>4 DEF JobsHeld
<1>8. QueuedOnce'
  <2>1. \A d \in Callers : pc'[d] = pc[d] /\ at'[d] = at[d]
    BY <1>0, <1>6
  <2>2. \A x \in Orders : job'[x] = "none" <=> job[x] = "none"
    BY <1>3, <1>4
  <2>3. \A d \in Callers : pc[d] = "placed" => at[d] \in Orders
    BY DEF HandlesRow
  <2> QED BY <1>1, <2>1, <2>2, <2>3 DEF QueuedOnce
<1>9. PendingScheduled'
  <2> SUFFICES ASSUME NEW x \in Orders, status'[x] = "PENDING", request'[x].payload.type = "MARKET"
               PROVE  Scheduled(x)'
    BY DEF PendingScheduled
  <2>1. Scheduled(x)
    BY <1>1 DEF PendingScheduled
  <2>2. job[x] = "waiting" => job'[x] = "waiting"
    BY <1>3, <1>4
  <2>3. \A q \in Procs : pc[q] \in {"placed", "claim"} => q # w
    BY <1>1
  <2> QED BY <1>5, <1>6, <2>1, <2>2, <2>3 DEF Scheduled
<1> QED BY <1>7, <1>8, <1>9

LEMMA JobsNext ==
  ASSUME IInv, IInv', JobsHeld, QueuedOnce, PendingScheduled, [Next]_vars, faults' = 0
  PROVE  (JobsHeld /\ QueuedOnce /\ PendingScheduled)'
<1> USE DEF IInv, TypeOK
<1>0. ~FaultStep
  BY DEF FaultStep, PlacedFails, TryFails, ExecutionFails, Crash, OneFault
<1>1. ASSUME NEW c \in Callers, NEW r \in Requests, ReceiveNew(c, r) \/ ReceiveDuplicate(c, r)
      PROVE  JobsAlone
  <2>1. pc[c] = "idle" /\ UNCHANGED <<status, request, job>> /\ c \notin Workers
    BY <1>1, ProcsAssumption DEF ReceiveNew, ReceiveDuplicate, rows, queue
  <2>2. CASE ReceiveNew(c, r)
    <3>1. pc' = [pc EXCEPT ![c] = "preflight"] /\ UNCHANGED <<at, holds>>
      BY <2>2 DEF ReceiveNew, Goto
    <3> QED BY <2>1, <3>1, MoveAlone
  <2>3. CASE ReceiveDuplicate(c, r)
    <3>1. PICK o \in Orders : AnswerExisting(c, r, o)
      BY <2>3 DEF ReceiveDuplicate, FindIdempotentOrder, Placed
    <3> QED BY <2>1, <3>1, AnswerAlone
  <2> QED BY <1>1, <2>2, <2>3
<1>2. ASSUME NEW c \in Callers, CallerStep(c), ~Create(c), ~EnqueueOrderExecution(c)
      PROVE  JobsAlone
  <2>1. UNCHANGED <<status, request, job>> /\ c \notin Workers
    BY <1>2, ProcsAssumption DEF CallerStep, Preflight, PreflightRefuses, CreateConflicts,
       ExecuteDirectly, rows, queue
  <2>2. CASE PreflightRefuses(c)
    <3>1. Leave(c, "failed") /\ pc[c] = "preflight"
      BY <2>2 DEF PreflightRefuses
    <3> QED BY <2>1, <3>1, LeaveOutside, MoveAlone
  <2>3. CASE CreateConflicts(c)
    <3>1. PICK o \in Orders : AnswerExisting(c, call[c], o)
      BY <2>3 DEF CreateConflicts, UniqueIndexHits, FindIdempotentOrder, Placed
    <3>2. pc[c] = "create"
      BY <2>3 DEF CreateConflicts
    <3> QED BY <2>1, <3>1, <3>2, AnswerAlone
  <2>4. CASE Preflight(c)
    <3>1. pc' = [pc EXCEPT ![c] = "create"] /\ UNCHANGED <<at, holds>> /\ pc[c] = "preflight"
      BY <2>4 DEF Preflight, Goto
    <3> QED BY <2>1, <3>1, MoveAlone
  <2>5. CASE ExecuteDirectly(c)
    <3>1. pc' = [pc EXCEPT ![c] = "claim"] /\ UNCHANGED <<at, holds>> /\ pc[c] = "placed"
      BY <2>5 DEF ExecuteDirectly, Goto
    <3> QED BY <2>1, <3>1, MoveAlone
  <2> QED BY <1>2, <2>2, <2>3, <2>4, <2>5 DEF CallerStep
<1>3. ASSUME NEW w \in Workers, SweepNext(w) \/ SweepEnds(w) \/ ProcessLimitSweep(w)
      PROVE  JobsAlone
  <2>1. /\ holds[w] = None /\ pc[w] \in {"idle", "done"}
        /\ UNCHANGED <<status, request, job>> /\ w \notin Callers
    BY <1>3, ProcsAssumption DEF SweepNext, SweepEnds, ProcessLimitSweep, TryNext, rows, queue,
       JobsHeld
  <2>2. /\ UNCHANGED holds
        /\ \A q \in Procs \ {w} : at'[q] = at[q]
        /\ \E label \in {"idle", "claim"} : pc' = [pc EXCEPT ![w] = label]
    <3>1. CASE SweepEnds(w)
      BY <2>1, <3>1 DEF SweepEnds, Release, Goto
    <3>2. CASE SweepNext(w) \/ ProcessLimitSweep(w)
      BY <3>2 DEF SweepNext, ProcessLimitSweep, TryNext, Goto
    <3> QED BY <1>3, <3>1, <3>2
  <2>3. pc'[w] # "failed" /\ \A q \in Procs \ {w} : pc'[q] = pc[q]
    BY <2>2
  <2> QED BY <2>1, <2>2, <2>3, MoveAlone
<1>4. ASSUME NEW w \in Workers
      PROVE  ~FailJob(w)
  BY DEF FailJob, JobsHeld
<1>5. ASSUME NEW o \in Orders
      PROVE  ~Stalled(o)
  BY DEF Stalled, JobsHeld
<1>6. ~RetryAllFailedJobs
  BY DEF RetryAllFailedJobs, JobsHeld
<1>7. CASE (\E o \in Orders : ClosePosition(o)) \/ ToggleTrading \/ UNCHANGED vars
  <2>1. UNCHANGED <<status, request, job, local>>
    BY <1>7 DEF ClosePosition, ToggleTrading, vars, rows, queue
  <2>2. JobsAlone
    BY <2>1 DEF JobsAlone, JobsHeld, local
  <2> QED BY <2>2, JobsAloneKept
<1>8. ASSUME NEW p \in Procs, ExecutionStep(p)
      PROVE  JobsAlone
  BY <1>8, ExecutionAlone
<1>9. ASSUME NEW c \in Callers, CallerStep(c)
      PROVE  (JobsHeld /\ QueuedOnce /\ PendingScheduled)'
  <2>1. CASE Create(c)
    BY <2>1, CreateJobs
  <2>2. CASE EnqueueOrderExecution(c)
    BY <2>2, EnqueueJobs
  <2> QED BY <1>2, <1>9, <2>1, <2>2, JobsAloneKept
<1>10. ASSUME NEW w \in Workers,
              WorkerStep(w) \/ ProcessLimitSweep(w) \/ \E o \in Orders : TakeJob(w, o)
       PROVE  (JobsHeld /\ QueuedOnce /\ PendingScheduled)'
  <2>1. CASE CompleteJob(w)
    BY <2>1, CompleteJobs
  <2>2. CASE \E o \in Orders : TakeJob(w, o)
    BY <2>2, TakeJobs
  <2>3. CASE SweepNext(w) \/ SweepEnds(w) \/ ProcessLimitSweep(w)
    BY <1>3, <2>3, JobsAloneKept
  <2> QED BY <1>4, <1>10, <2>1, <2>2, <2>3 DEF WorkerStep
<1> HIDE DEF IInv, TypeOK
<1>11. ASSUME JobsAlone
       PROVE  (JobsHeld /\ QueuedOnce /\ PendingScheduled)'
  BY <1>11, JobsAloneKept
<1> QED BY <1>0, <1>1, <1>5, <1>6, <1>7, <1>8, <1>9, <1>10, <1>11 DEF Next

-----------------------------------------------------------------------------
CalmInv == faults = 0 => Calm

LEMMA CalmNext == IInv /\ IInv' /\ CalmInv /\ [Next]_vars => CalmInv'
<1> SUFFICES ASSUME IInv, IInv', CalmInv, [Next]_vars, faults' = 0 PROVE Calm'
  BY DEF CalmInv
<1>1. faults' = faults \/ OneFault
  BY DEF Next, ReceiveNew, ReceiveDuplicate, CallerStep, Preflight, PreflightRefuses, Create,
     CreateConflicts, EnqueueOrderExecution, ExecuteDirectly, ExecutionStep, Claim, Load,
     PriceHalted, Price, Rest, Risk, Commit, After, Reject, TakeJob, ProcessLimitSweep,
     WorkerStep, CompleteJob, FailJob, SweepNext, SweepEnds, TryNext, Stalled, ClosePosition,
     RetryAllFailedJobs, FaultStep, PlacedFails, TryFails, ExecutionFails, Crash,
     ToggleTrading, vars, env
<1>2. faults \in Nat
  BY BoundsAssumption DEF IInv, TypeOK
<1>3. faults = 0
  BY <1>1, <1>2 DEF OneFault
<1>4. SeenThrough /\ JobsHeld /\ QueuedOnce /\ PendingScheduled
  BY <1>3 DEF CalmInv, Calm
<1> QED BY <1>4, SeenThroughNext, JobsNext DEF Calm

LEMMA CalmInit == Init => CalmInv
  BY DEF Init, CalmInv, Calm, SeenThrough, JobsHeld, QueuedOnce, PendingScheduled

\* While nothing has failed, what a row says is what becomes of it: PROCESSING
\* has an executor, a pending market order is queued or about to be claimed,
\* and a rejected order has no position.
THEOREM OrdersAccounted == Spec => []OrdersAreAccounted
<1>1. Init => CalmInv
  BY CalmInit
<1>2. IInv /\ IInv' /\ CalmInv /\ [Next]_vars => CalmInv'
  BY CalmNext
<1>3. CalmInv => OrdersAreAccounted
  BY DEF CalmInv, Calm, SeenThrough, PendingScheduled, Scheduled, OrdersAreAccounted,
     ProcessingHasExecutor, PendingIsScheduled, RejectedHasNoPosition
<1> QED BY <1>1, <1>2, <1>3, Invariance, PTL DEF Spec

=============================================================================
