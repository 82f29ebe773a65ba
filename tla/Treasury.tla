-------------------------------- MODULE Treasury --------------------------------
(***************************************************************************)
(* What the treasury holds against what clients are owed:                  *)
(* treasury.service.ts (getSummary, resolveBalanceContext,                 *)
(* persistApiObservation) and reconciliation.service.ts (runReconciliation *)
(* by its timer or on demand). A run reads the sums, the stored snapshot   *)
(* and the explorer one after the other or side by side, while money       *)
(* moves. Sums are of a few units; the tolerance is less than one.         *)
(***************************************************************************)
EXTENDS Integers

CONSTANTS
  Runs,      \* runs that can be on the way together
  MaxUnits,  \* the largest sum
  MaxShifts, \* movements, snapshots by hand, and requests that fail
  Thresholds \* whether more is pending or unsent than warns

VARIABLES
  setup,   \* how the treasury is configured
  chain,   \* what the treasury's wallet holds
  owed,    \* the sum of the clients' wallets
  unsent,  \* approved withdrawals that are not sent
  high,    \* the sum of the pending ones is above its threshold
  stored,  \* the snapshot with the latest observedAt
  byApi,   \* the latest snapshot of the explorer
  run,
  latest,  \* the latest row of ReconciliationRun
  shifts

vars == <<setup, chain, owed, unsent, high, stored, byApi, run, latest, shifts>>
money == <<chain, owed, unsent, high>>

Units == 0 .. MaxUnits
NoSnapshot == [balance |-> -1, old |-> FALSE]
Unread == -1

\* A run at rest. "quiet": nothing moved since it began.
Idle == [pc |-> "idle", owed |-> Unread, unsent |-> Unread, high |-> FALSE,
         used |-> NoSnapshot, lookup |-> "none", asked |-> FALSE, quiet |-> TRUE]

\* monitoringMode, masterWalletAddress and network; without an address nothing is
\* asked in either mode. Scheduled runs are enabled.
Setups == {[mode |-> "manual", address |-> TRUE, supported |-> TRUE],
           [mode |-> "api", address |-> TRUE, supported |-> TRUE],
           [mode |-> "api", address |-> TRUE, supported |-> FALSE],
           [mode |-> "api", address |-> FALSE, supported |-> TRUE]}

Init ==
  /\ setup \in Setups
  /\ owed = 1 /\ unsent = 1 /\ high = FALSE
  /\ chain \in IF setup.mode = "api" THEN {1, 2} ELSE {2}
  /\ stored \in {NoSnapshot, [balance |-> 1, old |-> FALSE]} /\ byApi = NoSnapshot
  /\ run = [r \in Runs |-> Idle]
  /\ latest = [status |-> "none", summary |-> "none", right |-> "none"]
  /\ shifts = 0

-----------------------------------------------------------------------------
\* Mutant: what is not sent is taken for money of the treasury.
OperationalAdds(c, o, u) == c - o + u

\* calculateReconciliationDifferences
Operational(c, o, u) == c - o - u

Gross(c, o) == c - o

Abs(n) == IF n < 0 THEN -n ELSE n

\* Mutant: without an address there is nothing to judge.
CriticalLater(s, o, u) ==
  \/ setup.address /\ (~setup.supported \/ s = NoSnapshot)
  \/ s # NoSnapshot /\ (Gross(s.balance, o) < 0 \/ Operational(s.balance, o, u) < 0)

\* buildReconciliationWarnings and evaluateReconciliationStatus: what is critical
\* is an error, the rest warns. s is the snapshot a run goes by.
Critical(s, o, u) ==
  \/ ~setup.address \/ ~setup.supported \/ s = NoSnapshot
  \/ s # NoSnapshot /\ (Gross(s.balance, o) < 0 \/ Operational(s.balance, o, u) < 0)

Warns(s, o, u, h) ==
  \/ s.old \/ h \/ ("unsent" \in Thresholds /\ u > 0)
  \/ s # NoSnapshot /\ Abs(Gross(s.balance, o)) > 0

Status(s, o, u, h) ==
  IF Critical(s, o, u) THEN "error"
  ELSE IF Warns(s, o, u, h) THEN "warning" ELSE "ok"

\* buildWarnings and determineTreasuryReconciliationStatus, of the treasury's own
\* summary, which knows whether the explorer answered.
SummaryStatus(s, lookup, o, h) ==
  IF \/ ~setup.address \/ s = NoSnapshot
     \/ s # NoSnapshot /\ Gross(s.balance, o) < 0
  THEN "error"
  ELSE IF \/ s.old \/ h \/ lookup = "failed" \/ Abs(Gross(s.balance, o)) > 0
          \/ setup.mode = "api" /\ ~setup.supported
       THEN "warning" ELSE "ok"

\* What an operator would find who stopped everything and counted: clients and
\* those who wait for their money can be paid (docs/reconciliation.md).
Standing ==
  IF chain < owed + unsent THEN "error"
  ELSE IF chain # owed \/ high \/ ("unsent" \in Thresholds /\ unsent > 0) THEN "warning"
  ELSE "ok"

-----------------------------------------------------------------------------
\* runReconciliation: the sums and the balance are asked for side by side.
Begin(r) ==
  /\ run[r] = Idle
  /\ run' = [run EXCEPT ![r].pc = "stored"]
  /\ UNCHANGED <<setup, money, stored, byApi, latest, shifts>>

\* loadMetrics. Its sums are queries of their own; if money moves between them the
\* run is not quiet, and no more is asked of it than if it moved before or after.
ReadSums(r) ==
  /\ run[r].pc # "idle" /\ run[r].owed = Unread
  /\ run' = [run EXCEPT ![r].owed = owed, ![r].unsent = unsent, ![r].high = high]
  /\ UNCHANGED <<setup, money, stored, byApi, latest, shifts>>

\* The stored snapshot; the explorer is asked only as far as it is configured.
ReadStored(r) ==
  /\ run[r].pc = "stored"
  /\ run' = [run EXCEPT
       ![r].pc = IF setup.mode = "api" /\ setup.address /\ setup.supported
                 THEN "explorer" ELSE "ready",
       ![r].used = stored,
       ![r].lookup = IF setup.mode = "api" /\ setup.address /\ ~setup.supported
                     THEN "failed" ELSE "none"]
  /\ UNCHANGED <<setup, money, stored, byApi, latest, shifts>>

\* The explorer answers, and persistApiObservation keeps it unless an equal one of
\* its own is five minutes old at most. Which is the latest goes by observedAt, so
\* that it is kept at once or later makes no difference.
Explore(r) ==
  LET seen == [balance |-> chain, old |-> FALSE] IN
  /\ run[r].pc = "explorer"
  /\ run' = [run EXCEPT ![r].pc = "ready", ![r].used = seen, ![r].asked = TRUE]
  /\ IF byApi = seen THEN UNCHANGED <<stored, byApi>> ELSE stored' = seen /\ byApi' = seen
  /\ UNCHANGED <<setup, money, latest, shifts>>

\* The explorer fails, or the database under persistApiObservation: the run goes
\* by the stored snapshot.
ExplorerFails(r) ==
  /\ run[r].pc = "explorer" /\ shifts < MaxShifts
  /\ shifts' = shifts + 1
  /\ run' = [run EXCEPT ![r].pc = "ready", ![r].lookup = "failed"]
  /\ UNCHANGED <<setup, money, stored, byApi, latest>>

\* computeRun and the row of the run.
Record(r) ==
  LET me == run[r] IN
  /\ me.pc = "ready" /\ me.owed # Unread
  /\ latest' = [status |-> Status(me.used, me.owed, me.unsent, me.high),
                summary |-> SummaryStatus(me.used, me.lookup, me.owed, me.high),
                right |-> IF me.quiet /\ me.asked THEN Standing ELSE "unsure"]
  /\ run' = [run EXCEPT ![r] = Idle]
  /\ UNCHANGED <<setup, money, stored, byApi, shifts>>

\* Mutant: nothing runs after a failure.
StopsAll(r) ==
  /\ run[r].pc # "idle" /\ shifts < MaxShifts /\ shifts' = MaxShifts
  /\ run' = [q \in Runs |-> [Idle EXCEPT !.pc = "stopped"]]
  /\ UNCHANGED <<setup, money, stored, byApi, latest>>

\* runScheduledReconciliation logs what a run throws.
RunFails(r) ==
  /\ run[r].pc # "idle" /\ shifts < MaxShifts /\ shifts' = shifts + 1
  /\ run' = [run EXCEPT ![r] = Idle]
  /\ UNCHANGED <<setup, money, stored, byApi, latest>>

-----------------------------------------------------------------------------
\* Money moves: on the chain, to and from clients, by an approval, by a mark as
\* sent, and what is pending.
Shift ==
  /\ shifts < MaxShifts /\ shifts' = shifts + 1
  /\ \/ /\ chain' \in {chain - 1, chain + 1} \cap Units
        /\ UNCHANGED <<owed, unsent, high>>
     \/ /\ owed' \in {owed - 1, owed + 1} \cap Units
        /\ UNCHANGED <<chain, unsent, high>>
     \/ /\ owed > 0 /\ unsent < MaxUnits
        /\ owed' = owed - 1 /\ unsent' = unsent + 1
        /\ UNCHANGED <<chain, high>>
     \/ /\ unsent > 0 /\ unsent' = unsent - 1
        /\ UNCHANGED <<chain, owed, high>>
     \/ /\ "pending" \in Thresholds /\ high' = ~high
        /\ UNCHANGED <<chain, owed, unsent>>
  /\ run' = [r \in Runs |-> [run[r] EXCEPT !.quiet = run[r].pc = "idle"]]
  /\ UNCHANGED <<setup, stored, byApi, latest>>

\* createBalanceSnapshot: observed now, or at an earlier time than the latest one.
RecordByHand ==
  /\ setup.address /\ shifts < MaxShifts /\ shifts' = shifts + 1
  /\ \E b \in Units : stored' \in {[balance |-> b, old |-> FALSE], stored}
  /\ run' = [r \in Runs |-> [run[r] EXCEPT !.quiet = run[r].pc = "idle"]]
  /\ UNCHANGED <<setup, money, byApi, latest>>

\* A day passes for the stored snapshot, and five minutes for the explorer's.
Ages ==
  /\ shifts < MaxShifts /\ shifts' = shifts + 1
  /\ stored # NoSnapshot /\ stored' = [stored EXCEPT !.old = TRUE]
  /\ byApi' = NoSnapshot
  /\ UNCHANGED <<setup, money, run, latest>>

Proceeds(r) == ReadStored(r) \/ Explore(r) \/ Record(r)

Next ==
  \/ Shift \/ RecordByHand \/ Ages
  \/ \E r \in Runs : Begin(r) \/ ReadSums(r) \/ Proceeds(r) \/ ExplorerFails(r) \/ RunFails(r)

-----------------------------------------------------------------------------
\* The types of what is counted.
TypeOK ==
  /\ {chain, owed, unsent} \subseteq Units
  /\ \A r \in Runs :
       /\ run[r].pc \in {"idle", "stored", "explorer", "ready"}
       /\ {run[r].owed, run[r].unsent} \subseteq Units \cup {Unread}
  /\ latest.status \in {"none", "ok", "warning", "error"}

\* What is an error for the treasury's summary is one for the run that was
\* computed from it: the two are judged by code of their own (buildWarnings,
\* buildReconciliationWarnings).
ErrorsAgree == latest.summary = "error" => latest.status = "error"

\* A run that asked the explorer, and during which nothing moved or failed, finds
\* what there is, whatever ran beside it (persistApiObservation may answer with
\* what another run stored).
QuietRunsTell == latest.right # "unsure" => latest.status = latest.right

\* Once and for all, when money stays: with the explorer, what stands is what the
\* latest run says. A shortfall is not forgotten after a run that failed or came
\* late (runScheduledReconciliation).
StandingIsTold ==
  setup.mode = "api" /\ setup.address /\ setup.supported => latest.status = Standing
=============================================================================
