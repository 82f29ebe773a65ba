----------------------------- MODULE DealingDesk -----------------------------
(***************************************************************************)
(* The hedge actions of one symbol (dealing-desk.service.ts): the monitor  *)
(* looks at the exposure every five seconds, whether or not its last pass  *)
(* has ended, and suggests a hedge; administrators approve or reject it.   *)
(* No code moves an approved action on, so that it stands for good.        *)
(***************************************************************************)
EXTENDS Integers, FiniteSets

CONSTANTS
  Passes,    \* of the monitor that can be on the way together
  Admins,
  MaxActions \* bound: rows

Actions == 1 .. MaxActions

VARIABLES
  breached, \* whether the net volume is above maxExposureThreshold
  action,   \* status of each row, "none" before
  pass,
  request,
  single    \* whether passes do not overlap, and one administrator decides at a time

vars == <<breached, action, pass, request, single>>

Idle == [pc |-> "idle"]

Init ==
  /\ breached = FALSE
  /\ action = [n \in Actions |-> "none"]
  /\ pass = [p \in Passes |-> "idle"]
  /\ request = [x \in Admins |-> Idle]
  /\ single \in BOOLEAN

Live == {n \in Actions : action[n] \in {"SUGGESTED", "APPROVED"}}
Free == {n \in Actions : action[n] = "none"}

\* Clients trade, or the threshold is set anew.
ExposureChanges ==
  /\ breached' = ~breached
  /\ UNCHANGED <<action, pass, request, single>>

PassAt(p, from, to) ==
  /\ pass[p] = from
  /\ pass' = [pass EXCEPT ![p] = to]
  /\ UNCHANGED <<breached, request, single>>

\* updateExposureForSymbol
StartPass(p) ==
  /\ single => \A q \in Passes : pass[q] = "idle"
  /\ breached
  /\ PassAt(p, "idle", "look")
  /\ UNCHANGED action

\* Mutant: only a suggestion that waits for its decision is looked for.
LookForSuggested(p) ==
  /\ PassAt(p, "look", IF \E n \in Actions : action[n] = "SUGGESTED" THEN "idle" ELSE "create")
  /\ UNCHANGED action

\* Mutant: whatever was there before stands in the way.
LookForAny(p) ==
  /\ PassAt(p, "look", IF \E n \in Actions : action[n] # "none" THEN "idle" ELSE "create")
  /\ UNCHANGED action

\* maybeCreateHedgeSuggestion: the exposure is not read again.
Look(p) ==
  /\ PassAt(p, "look", IF Live # {} THEN "idle" ELSE "create")
  /\ UNCHANGED action

Suggest(p) ==
  /\ PassAt(p, "create", "idle")
  /\ \E n \in Free :
       /\ \A m \in Free : n <= m
       /\ action' = [action EXCEPT ![n] = "SUGGESTED"]

\* updateHedgeActionStatus (bound: a row is left for the suggestions on the way)
StartDecide(x, n, to) ==
  /\ request[x] = Idle
  /\ single => \A y \in Admins : request[y] = Idle
  /\ action[n] = "SUGGESTED"
  /\ to = "REJECTED" => Cardinality(Free) >= Cardinality(Passes) + Cardinality(Admins)
  /\ request' = [request EXCEPT ![x] = [pc |-> "decide", row |-> n, to |-> to]]
  /\ UNCHANGED <<breached, action, pass, single>>

Decide(x) ==
  /\ request[x].pc = "decide"
  /\ action' = [action EXCEPT ![request[x].row] = request[x].to]
  /\ request' = [request EXCEPT ![x] = Idle]
  /\ UNCHANGED <<breached, pass, single>>

Next ==
  \/ ExposureChanges
  \/ \E p \in Passes : StartPass(p) \/ Look(p) \/ Suggest(p)
  \/ \E x \in Admins :
       Decide(x) \/ \E n \in Actions, to \in {"APPROVED", "REJECTED"} : StartDecide(x, n, to)

Spec == Init /\ [][Next]_vars

-----------------------------------------------------------------------------
TypeOK ==
  /\ breached \in BOOLEAN
  /\ action \in [Actions -> {"none", "SUGGESTED", "APPROVED", "REJECTED"}]
  /\ pass \in [Passes -> {"idle", "look", "create"}]
  /\ \A x \in Admins : request[x].pc \in {"idle", "decide"}
  /\ single \in BOOLEAN

\* As long as passes do not overlap and one administrator decides at a time, a
\* symbol has one live hedge action at most.
OneLiveAction == single => Cardinality(Live) <= 1

\* Again and again: a symbol whose exposure is above the threshold has a hedge
\* action, also after administrators rejected earlier ones.
BreachIsSuggested == breached => Live # {}
=============================================================================
