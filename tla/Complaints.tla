------------------------------ MODULE Complaints ------------------------------
(***************************************************************************)
(* One complaint (complaints.service.ts): acknowledged, then resolved or   *)
(* rejected, with a compensation or without. The credit and the decision   *)
(* are written one after the other.                                        *)
(***************************************************************************)
EXTENDS Integers

CONSTANTS
  Admins,
  MaxFaults \* bound: requests cut off before they end

VARIABLES
  status,
  credits,  \* how often the compensation was credited, up to MaxFaults + 2
  request,
  cutOff,
  serial    \* whether administrators act one at a time

vars == <<status, credits, request, cutOff, serial>>

Decided == {"RESOLVED", "REJECTED"}
Idle == [pc |-> "idle"]

Init ==
  /\ status = "none" /\ credits = 0
  /\ request = [x \in Admins |-> Idle]
  /\ cutOff = 0
  /\ serial \in BOOLEAN

Create ==
  /\ status = "none" /\ status' = "OPEN"
  /\ UNCHANGED <<credits, request, cutOff, serial>>

Begins(x, r) ==
  /\ request[x] = Idle
  /\ serial => \A y \in Admins : request[y] = Idle
  /\ request' = [request EXCEPT ![x] = r]
  /\ UNCHANGED <<status, credits, cutOff, serial>>

Becomes(x, r) == request' = [request EXCEPT ![x] = r]

StartAcknowledge(x) == status = "OPEN" /\ Begins(x, [pc |-> "acknowledge"])

\* Mutant: a status that the enumeration does not have.
AcknowledgeAs(x) ==
  /\ request[x].pc = "acknowledge"
  /\ status' = "ACKNOWLEDGED"
  /\ Becomes(x, Idle)
  /\ UNCHANGED <<credits, cutOff, serial>>

Acknowledge(x) ==
  /\ request[x].pc = "acknowledge"
  /\ status' = "UNDER_REVIEW"
  /\ Becomes(x, Idle)
  /\ UNCHANGED <<credits, cutOff, serial>>

\* Mutant: a complaint that was decided can be resolved again.
StartAnyResolve(x, decision, paid) ==
  /\ status # "none"
  /\ Begins(x, [pc |-> IF paid THEN "credit" ELSE "decide", to |-> decision])

\* resolve, whatever the decision, with a compensation or without
StartResolve(x, decision, paid) ==
  /\ status \notin Decided \cup {"none"}
  /\ Begins(x, [pc |-> IF paid THEN "credit" ELSE "decide", to |-> decision])

\* The transaction on the account and its ledger; it fails when the user has
\* no default account.
Credit(x) ==
  /\ request[x].pc = "credit"
  /\ \/ /\ credits' = IF credits = MaxFaults + 2 THEN credits ELSE credits + 1
        /\ Becomes(x, [request[x] EXCEPT !.pc = "decide"])
     \/ UNCHANGED credits /\ Becomes(x, Idle)
  /\ UNCHANGED <<status, cutOff, serial>>

Decide(x) ==
  /\ request[x].pc = "decide"
  /\ status' = request[x].to
  /\ Becomes(x, Idle)
  /\ UNCHANGED <<credits, cutOff, serial>>

CutOff(x) ==
  /\ request[x] # Idle /\ cutOff < MaxFaults
  /\ cutOff' = cutOff + 1
  /\ Becomes(x, Idle)
  /\ UNCHANGED <<status, credits, serial>>

Next ==
  \/ Create
  \/ \E x \in Admins :
       \/ StartAcknowledge(x) \/ Acknowledge(x) \/ Credit(x) \/ Decide(x) \/ CutOff(x)
       \/ \E d \in Decided, paid \in BOOLEAN : StartResolve(x, d, paid)

Spec == Init /\ [][Next]_vars

-----------------------------------------------------------------------------
TypeOK ==
  /\ status \in Decided \cup {"none", "OPEN", "UNDER_REVIEW"}
  /\ credits \in 0 .. MaxFaults + 2
  /\ \A x \in Admins : request[x].pc \in {"idle", "acknowledge", "credit", "decide"}
  /\ cutOff \in 0 .. MaxFaults /\ serial \in BOOLEAN

\* As long as administrators act one at a time, a complaint is compensated
\* once, and once more at most for every request that was cut off.
CreditedOncePerRequest == serial => credits <= 1 + cutOff

\* Then a decision is final, too.
DecisionIsFinal == [][serial /\ status \in Decided => status' = status]_status
=============================================================================
