--------------------------------- MODULE Kyc ---------------------------------
(***************************************************************************)
(* The verification of one user (kyc.service.ts): a submission by a device *)
(* of the user and its decision by an administrator. Each reads the row,   *)
(* writes it by its id and then adds a line to the decision log.           *)
(***************************************************************************)
EXTENDS Integers

CONSTANTS
  Devices,  \* of the user; each has one request on the way
  Admins,
  MaxFaults \* bound: requests cut off before they end

VARIABLES
  status,  \* of the submission; NOT_SUBMITTED is no row
  logged,  \* what the log says the submission became
  request,
  cutOff,
  onePerSide \* whether the user sends one request at a time, and one administrator decides

vars == <<status, logged, request, cutOff, onePerSide>>

Actors == Devices \cup Admins
Idle == [pc |-> "idle"]

Init ==
  /\ status = "NOT_SUBMITTED" /\ logged = {}
  /\ request = [a \in Actors |-> Idle]
  /\ cutOff = 0
  /\ onePerSide \in BOOLEAN

Begins(a, side, r) ==
  /\ request[a] = Idle
  /\ onePerSide => \A b \in side : request[b] = Idle
  /\ request' = [request EXCEPT ![a] = r]
  /\ UNCHANGED <<status, logged, cutOff, onePerSide>>

Ends(a) == request' = [request EXCEPT ![a] = Idle]
Logs(a, to) == request' = [request EXCEPT ![a] = [pc |-> "log", to |-> to]]

\* Mutant: a pending submission may be sent again.
StartAnySubmit(d) ==
  status # "APPROVED" /\ Begins(d, Devices, [pc |-> "submit", from |-> status])

\* submit: neither a pending nor an approved submission is sent again.
StartSubmit(d) ==
  /\ status \in {"NOT_SUBMITTED", "REJECTED"}
  /\ Begins(d, Devices, [pc |-> "submit", from |-> status])

\* A second row for the user is refused (userId is unique); an update is by id.
Submit(d) ==
  /\ request[d].pc = "submit"
  /\ IF request[d].from = "NOT_SUBMITTED" /\ status # "NOT_SUBMITTED"
     THEN Ends(d) /\ UNCHANGED status
     ELSE Logs(d, "PENDING") /\ status' = "PENDING"
  /\ UNCHANGED <<logged, cutOff, onePerSide>>

\* approve and reject
StartDecide(x, to) ==
  status = "PENDING" /\ Begins(x, Admins, [pc |-> "decide", to |-> to])

Decide(x) ==
  /\ request[x].pc = "decide"
  /\ status' = request[x].to
  /\ Logs(x, request[x].to)
  /\ UNCHANGED <<logged, cutOff, onePerSide>>

\* Mutant: the decision is not logged.
LogNothing(a) ==
  /\ request[a].pc = "log"
  /\ Ends(a)
  /\ UNCHANGED <<status, logged, cutOff, onePerSide>>

Log(a) ==
  /\ request[a].pc = "log"
  /\ logged' = logged \cup {request[a].to}
  /\ Ends(a)
  /\ UNCHANGED <<status, cutOff, onePerSide>>

CutOff(a) ==
  /\ request[a] # Idle /\ cutOff < MaxFaults
  /\ cutOff' = cutOff + 1
  /\ Ends(a)
  /\ UNCHANGED <<status, logged, onePerSide>>

Decisions == {"APPROVED", "REJECTED"}

Next ==
  \/ \E d \in Devices : StartSubmit(d) \/ Submit(d)
  \/ \E x \in Admins : Decide(x) \/ \E to \in Decisions : StartDecide(x, to)
  \/ \E a \in Actors : Log(a) \/ CutOff(a)

Spec == Init /\ [][Next]_vars

-----------------------------------------------------------------------------
TypeOK ==
  /\ status \in Decisions \cup {"NOT_SUBMITTED", "PENDING"}
  /\ logged \subseteq Decisions \cup {"PENDING"}
  /\ request \in [Actors -> {Idle} \cup [pc : {"submit"}, from : {"NOT_SUBMITTED", "REJECTED"}]
                            \cup [pc : {"decide", "log"}, to : Decisions \cup {"PENDING"}]]
  /\ cutOff \in 0 .. MaxFaults /\ onePerSide \in BOOLEAN

\* With one request at a time on each side, however the two sides interleave,
\* the submission goes from step to step of its life: an approval is not
\* undone by a submission that is under way, and nothing is decided twice.
FollowsLife ==
  [][onePerSide /\ status' # status =>
       <<status, status'>> \in {<<"NOT_SUBMITTED", "PENDING">>, <<"REJECTED", "PENDING">>,
                                <<"PENDING", "APPROVED">>, <<"PENDING", "REJECTED">>}]_status

\* When no request is on the way and none was cut off, the log knows what the
\* submission is, also when its last line is another one.
StatusIsLogged ==
  (cutOff = 0 /\ \A a \in Actors : request[a] = Idle) =>
    status \in logged \cup {"NOT_SUBMITTED"}
=============================================================================
