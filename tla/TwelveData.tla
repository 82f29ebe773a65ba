------------------------------ MODULE TwelveData -------------------------------
(***************************************************************************)
(* The stream of Twelve Data (twelve-data.adapter.ts): attempts to connect *)
(* with growing delays and, after the last of them, a circuit that stays   *)
(* open for circuitOpenMs by two clocks, that of a timer and that of the   *)
(* system, which openSocket looks at.                                      *)
(***************************************************************************)
EXTENDS Integers

CONSTANTS
  Attempts, \* maxReconnectAttempts
  MaxBreaks \* bound: connections that fail or end

VARIABLES
  stream,   \* socket
  attempt,  \* reconnectAttempt
  circuit,  \* before circuitOpenUntilMs, of the system's clock
  breaks

vars == <<stream, attempt, circuit, breaks>>

Init ==
  /\ stream = "none" /\ attempt = 0 /\ circuit = FALSE
  /\ breaks = 0

\* openSocket does nothing while the circuit is open.
OpenSocket(stays) ==
  /\ circuit' = stays
  /\ stream' = IF stays THEN "lost" ELSE "connecting"

\* connect, by connectTwelveDataFeed
Connect ==
  /\ stream = "none"
  /\ attempt' = 0
  /\ OpenSocket(FALSE)
  /\ UNCHANGED breaks

Opens ==
  /\ stream = "connecting"
  /\ stream' = "open" /\ attempt' = 0
  /\ UNCHANGED <<circuit, breaks>>

\* The close handler and scheduleReconnect
Closes ==
  /\ stream \in {"connecting", "open"} /\ breaks < MaxBreaks
  /\ breaks' = breaks + 1
  /\ attempt' = attempt + 1
  /\ IF attempt = Attempts
     THEN stream' = "circuit" /\ circuit' = TRUE
     ELSE stream' = "waiting" /\ UNCHANGED circuit

Retry ==
  /\ stream = "waiting"
  /\ OpenSocket(circuit)
  /\ UNCHANGED <<attempt, breaks>>

\* Mutant: the clock is left to close the circuit.
LeaveOpen ==
  /\ stream = "circuit"
  /\ attempt' = 0
  /\ OpenSocket(circuit)
  /\ UNCHANGED breaks

\* The timer of the circuit, which may fire before the clock says so.
CircuitEnds ==
  /\ stream = "circuit"
  /\ attempt' = 0
  /\ OpenSocket(FALSE)
  /\ UNCHANGED breaks

ClockPasses ==
  /\ circuit
  /\ circuit' = FALSE
  /\ UNCHANGED <<stream, attempt, breaks>>

Timers == Connect \/ Retry \/ CircuitEnds
Next == Timers \/ Opens \/ Closes \/ ClockPasses

\* Timers fire, and Twelve Data takes a connection again.
Spec ==
  /\ Init /\ [][Next]_vars
  /\ WF_vars(Timers) /\ WF_vars(Opens)

-----------------------------------------------------------------------------
TypeOK ==
  /\ stream \in {"none", "connecting", "open", "waiting", "circuit", "lost"}
  /\ attempt \in 0 .. Attempts + 1 /\ circuit \in BOOLEAN /\ breaks \in 0 .. MaxBreaks

\* Again and again, whichever clock is ahead and however often the circuit opened:
\* the stream is open.
StreamComesBack == stream = "open"
=============================================================================
