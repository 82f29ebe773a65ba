-------------------------------- MODULE Alerts --------------------------------
(***************************************************************************)
(* The alerts of one user, symbol and type (surveillance.service.ts): each *)
(* check that finds something suspicious raises one, unless one stands;    *)
(* administrators acknowledge and close them, whatever state they are in.  *)
(***************************************************************************)
EXTENDS Integers, FiniteSets

CONSTANTS
  Checks,   \* evaluations and periodic checks that can be on the way together
  MaxAlerts \* bound: rows

Rows == 1 .. MaxAlerts

VARIABLES
  alert, \* status of each row, "none" before
  check,
  tidy   \* whether checks do not overlap, and closed alerts are left alone

vars == <<alert, check, tidy>>

Init ==
  /\ alert = [n \in Rows |-> "none"]
  /\ check = [c \in Checks |-> "idle"]
  /\ tidy \in BOOLEAN

Unresolved == {n \in Rows : alert[n] \in {"OPEN", "ACKNOWLEDGED"}}
Raised == {n \in Rows : alert[n] # "none"}

CheckAt(c, from, to) ==
  /\ check[c] = from
  /\ check' = [check EXCEPT ![c] = to]
  /\ UNCHANGED tidy

\* evaluateLogin, evaluateOrderPlaced and the others, runPeriodicChecks
Suspect(c) ==
  /\ tidy => \A d \in Checks : check[d] = "idle"
  /\ CheckAt(c, "idle", "find")
  /\ UNCHANGED alert

\* Mutant: an alert that was acknowledged does not stand in the way.
FindOpen(c) ==
  /\ CheckAt(c, "find", IF \E n \in Rows : alert[n] = "OPEN" THEN "idle" ELSE "create")
  /\ UNCHANGED alert

\* createAlertIfNeeded
FindUnresolved(c) ==
  /\ CheckAt(c, "find", IF Unresolved # {} THEN "idle" ELSE "create")
  /\ UNCHANGED alert

Create(c) ==
  /\ CheckAt(c, "create", "idle")
  /\ \E n \in Rows \ Raised :
       /\ \A m \in Rows \ Raised : n <= m
       /\ alert' = [alert EXCEPT ![n] = "OPEN"]

\* acknowledgeAlert and closeAlert
Decide(n, to) ==
  /\ n \in Raised
  /\ tidy => n \in Unresolved
  /\ alert' = [alert EXCEPT ![n] = to]
  /\ UNCHANGED <<check, tidy>>

Next ==
  \/ \E c \in Checks : Suspect(c) \/ FindUnresolved(c) \/ Create(c)
  \/ \E n \in Rows, to \in {"ACKNOWLEDGED", "CLOSED"} : Decide(n, to)

Spec == Init /\ [][Next]_vars

-----------------------------------------------------------------------------
TypeOK ==
  /\ alert \in [Rows -> {"none", "OPEN", "ACKNOWLEDGED", "CLOSED"}]
  /\ check \in [Checks -> {"idle", "find", "create"}]
  /\ tidy \in BOOLEAN

\* As long as checks do not overlap and closed alerts are left alone, one alert
\* of a user, symbol and type is unresolved at most.
OneUnresolved == tidy => Cardinality(Unresolved) <= 1
=============================================================================
