------------------------------ MODULE YahooPoller ------------------------------
(***************************************************************************)
(* The poller of quotes from Yahoo (yahoo.provider.ts): a cookie and crumb *)
(* it must renew, batches of symbols, a growing pause after a failure, and *)
(* Stooq (stooq.adapter.ts) for the symbols that stay without a quote.     *)
(***************************************************************************)
EXTENDS Integers

CONSTANTS
  Batches,   \* sets of symbols
  Stooq,     \* symbols that Stooq has as well
  MaxPauses, \* doublings after which the pause is at its maximum
  MaxOutages \* bound: failures of a provider that is up

VARIABLES
  crumb,   \* held: none, good, or one that Yahoo refuses
  poll,    \* idle, or the batches left and the symbols unresolved
  pausing, \* before retryAtMs
  backoff, \* failures in a row, up to MaxPauses
  fresh,   \* symbols with a quote that has not aged
  down,    \* whether Yahoo fails for good
  outages

vars == <<crumb, poll, pausing, backoff, fresh, down, outages>>

Names == UNION Batches
Idle == [pc |-> "idle"]

Init ==
  /\ crumb = "none" /\ poll = Idle /\ pausing = FALSE /\ backoff = 0 /\ fresh = {}
  /\ down \in BOOLEAN /\ outages = 0

Ages(s) ==
  /\ s \in fresh /\ fresh' = fresh \ {s}
  /\ UNCHANGED <<crumb, poll, pausing, backoff, down, outages>>

\* fetchQuotes, by the timer: one poll at a time, and none during a pause
Tick ==
  /\ poll = Idle /\ ~pausing
  /\ poll' = [pc |-> "crumb", left |-> Batches, unresolved |-> Names]
  /\ UNCHANGED <<crumb, pausing, backoff, fresh, down, outages>>

PauseEnds ==
  /\ pausing /\ pausing' = FALSE
  /\ UNCHANGED <<crumb, poll, backoff, fresh, down, outages>>

\* Half an hour passes, which only the next poll looks at, or Yahoo stops
\* taking the crumb.
CrumbEnds ==
  /\ \/ poll = Idle /\ crumb # "none" /\ crumb' = "none" /\ UNCHANGED outages
     \/ crumb = "good" /\ outages < MaxOutages
        /\ crumb' = "refused" /\ outages' = outages + 1
  /\ UNCHANGED <<poll, pausing, backoff, fresh, down>>

\* Mutant: a failure ends the poll.
FailsForAll ==
  /\ backoff' = IF backoff = MaxPauses THEN MaxPauses ELSE backoff + 1
  /\ pausing' = TRUE
  /\ poll' = Idle
  /\ UNCHANGED <<fresh, down>>

\* The catch of fetchQuotes: the poller pauses, and asks Stooq.
Fails ==
  /\ backoff' = IF backoff = MaxPauses THEN MaxPauses ELSE backoff + 1
  /\ pausing' = TRUE
  /\ poll' = [poll EXCEPT !.pc = "failed", !.left = {}]
  /\ UNCHANGED <<fresh, down>>

Outage ==
  \/ down /\ UNCHANGED outages
  \/ ~down /\ outages < MaxOutages /\ outages' = outages + 1

\* ensureCrumb
GetCrumb ==
  /\ poll.pc = "crumb"
  /\ crumb # "none" \/ ~down
  /\ crumb' = IF crumb = "none" THEN "good" ELSE crumb
  /\ poll' = [poll EXCEPT !.pc = "batch"]
  /\ UNCHANGED <<pausing, backoff, fresh, down, outages>>

NoCrumb ==
  /\ poll.pc = "crumb" /\ crumb = "none"
  /\ Outage /\ Fails
  /\ UNCHANGED crumb

\* A batch is answered; a symbol may be missing if Stooq has it.
Answered(b) ==
  /\ poll.pc = "batch" /\ b \in poll.left /\ crumb = "good" /\ ~down
  /\ \E got \in SUBSET b :
       /\ b \ got \subseteq Stooq
       /\ fresh' = fresh \cup got
       /\ poll' = [poll EXCEPT !.left = @ \ {b}, !.unresolved = @ \ got]
  /\ UNCHANGED <<crumb, pausing, backoff, down, outages>>

BatchFails ==
  /\ poll.pc = "batch" /\ poll.left # {}
  /\ Outage /\ Fails
  /\ UNCHANGED crumb

\* Mutant: the crumb is kept for its half hour.
RefusedOnly ==
  /\ poll.pc = "batch" /\ poll.left # {} /\ crumb = "refused"
  /\ Fails
  /\ UNCHANGED <<crumb, outages>>

\* Status 401 or 403
Refused ==
  /\ poll.pc = "batch" /\ poll.left # {} /\ crumb = "refused"
  /\ crumb' = "none"
  /\ Fails
  /\ UNCHANGED outages

\* fetchStooqFallback, after the batches or after a failure: a symbol Stooq
\* does not answer for is left out, and the poll ends.
AskStooq ==
  /\ poll.pc = "failed" \/ (poll.pc = "batch" /\ poll.left = {})
  /\ \/ fresh' = fresh \cup (poll.unresolved \cap Stooq) /\ UNCHANGED outages
     \/ outages < MaxOutages /\ outages' = outages + 1 /\ UNCHANGED fresh
  /\ poll' = Idle
  /\ IF poll.pc = "failed" THEN UNCHANGED <<pausing, backoff>>
                           ELSE pausing' = FALSE /\ backoff' = 0
  /\ UNCHANGED <<crumb, down>>

Steps ==
  \/ GetCrumb \/ NoCrumb \/ BatchFails \/ Refused \/ AskStooq
  \/ \E b \in Batches : Answered(b)

Next ==
  \/ Tick \/ PauseEnds \/ CrumbEnds \/ Steps
  \/ \E s \in Names : Ages(s)

Spec == Init /\ [][Next]_vars /\ WF_vars(Tick) /\ WF_vars(PauseEnds) /\ WF_vars(Steps)

-----------------------------------------------------------------------------
TypeOK ==
  /\ crumb \in {"none", "good", "refused"} /\ pausing \in BOOLEAN
  /\ poll = Idle \/ (poll.left \subseteq Batches /\ poll.unresolved \subseteq Names)
  /\ backoff \in 0 .. MaxPauses /\ fresh \subseteq Names
  /\ down \in BOOLEAN /\ outages \in 0 .. MaxOutages

\* Again and again, once the failures have passed: a symbol has a fresh quote; one
\* that Stooq has even if Yahoo never comes back.
SymbolIsServed(s) == s \in fresh \/ (down /\ s \notin Stooq)
=============================================================================
