------------------------------- MODULE Webhooks -------------------------------
(***************************************************************************)
(* The deliveries of one webhook (webhook.service.ts). Events put a row    *)
(* into the outbox; every minute a pass, unless the last one is still on,  *)
(* posts the rows that are due, one after the other, and writes down what  *)
(* came of each. A row is posted again after a failure; what the receiver  *)
(* got is not undone by a crash or by a write that fails.                  *)
(***************************************************************************)
EXTENDS Integers, FiniteSets

CONSTANTS
  Deliveries,
  MaxAttempts, \* of a delivery
  RateLimit,   \* attempts of a webhook in a minute
  MaxFaults    \* bound: crashes and failures of the database

VARIABLES
  endpoint, \* whether the webhook is registered
  row,      \* of each delivery: status and attempts
  due,      \* deliveries whose nextRetryAt is over
  recent,   \* deliveries whose lastAttemptAt is within a minute
  left,     \* rows the pass has read and not come to
  work,     \* the row the pass is at, as it was read
  posts,    \* posts of each delivery, and ...
  accepted, \* ... those the receiver answered
  faults

vars == <<endpoint, row, due, recent, left, work, posts, accepted, faults>>

Rest == [pc |-> "rest"]
Pending == {d \in Deliveries : row[d].status = "pending"}
Gone == [status |-> "none", attempts |-> 0]

Init ==
  /\ endpoint = TRUE
  /\ row = [d \in Deliveries |-> Gone]
  /\ due = {} /\ recent = {} /\ left = {}
  /\ work = Rest
  /\ posts = [d \in Deliveries |-> 0]
  /\ accepted = [d \in Deliveries |-> 0]
  /\ faults = 0

\* fireWebhook: the event has an identifier of its own.
Fire(d) ==
  /\ endpoint /\ row[d] = Gone /\ posts[d] = 0
  /\ row' = [row EXCEPT ![d].status = "pending"]
  /\ due' = due \cup {d}
  /\ UNCHANGED <<endpoint, recent, left, work, posts, accepted, faults>>

\* deleteWebhook: its deliveries go with it.
Delete ==
  /\ endpoint
  /\ endpoint' = FALSE
  /\ row' = [d \in Deliveries |-> Gone]
  /\ due' = {} /\ recent' = {}
  /\ UNCHANGED <<left, work, posts, accepted, faults>>

\* The minute of an attempt is over, ...
Forget(d) ==
  /\ d \in recent
  /\ recent' = recent \ {d}
  /\ UNCHANGED <<endpoint, row, due, left, work, posts, accepted, faults>>

\* ... and the time of a retry has come.
ComesDue(d) ==
  /\ d \in Pending \ due
  /\ due' = due \cup {d}
  /\ UNCHANGED <<endpoint, row, recent, left, work, posts, accepted, faults>>

\* processDeliveryQueue, if no pass is on
StartPass ==
  /\ work = Rest
  /\ Pending \cap due # {}
  /\ left' = Pending \cap due
  /\ work' = [pc |-> "next"]
  /\ UNCHANGED <<endpoint, row, due, recent, posts, accepted, faults>>

\* Mutant: isProcessing stays.
PassHangs == left' = {} /\ work' = [pc |-> "stuck"]

\* An exception leaves the pass; isProcessing is taken back all the same.
PassFails == left' = {} /\ work' = Rest

EndPass ==
  /\ work.pc = "next" /\ left = {}
  /\ work' = Rest
  /\ UNCHANGED <<endpoint, row, due, recent, left, posts, accepted, faults>>

\* sendDelivery: past the limit the row waits for another minute, ...
Postpone(d) ==
  /\ work.pc = "next" /\ d \in left
  /\ Cardinality(recent) >= RateLimit
  /\ due' = due \ {d}
  /\ IF row[d] = Gone THEN PassFails ELSE left' = left \ {d} /\ UNCHANGED work
  /\ UNCHANGED <<endpoint, row, recent, posts, accepted, faults>>

\* ... and otherwise it is posted; also the row of a webhook that has gone.
Post(d) ==
  /\ work.pc = "next" /\ d \in left
  /\ Cardinality(recent) < RateLimit
  /\ left' = left \ {d}
  /\ \E answered \in BOOLEAN, lost \in BOOLEAN :
       /\ ~(answered /\ lost)
       /\ posts' = [posts EXCEPT ![d] = @ + 1]
       /\ accepted' = [accepted EXCEPT ![d] = IF answered THEN @ + 1 ELSE @]
       /\ work' = [pc |-> IF answered THEN "delivered" ELSE "failed", of |-> d,
                   attempts |-> row[d].attempts, permanent |-> lost]
  /\ UNCHANGED <<endpoint, row, due, recent, faults>>

\* Mutant: the attempt that has just failed is not counted.
IsPermanentLate == work.permanent \/ work.attempts >= MaxAttempts

\* The host is unknown, or this was the last attempt.
IsPermanent == work.permanent \/ work.attempts + 1 >= MaxAttempts

Writes(d, status) ==
  /\ row' = [row EXCEPT ![d] = [status |-> status, attempts |-> work.attempts + 1]]
  /\ recent' = recent \cup {d}
  /\ due' = due \ {d}

\* The row is delivered, ...
Delivered ==
  /\ work.pc = "delivered" /\ row[work.of] # Gone
  /\ Writes(work.of, "delivered")
  /\ work' = [work EXCEPT !.pc = "tell"]
  /\ UNCHANGED <<endpoint, left, posts, accepted, faults>>

\* ... and its webhook and the log are told.
Tell ==
  /\ work.pc = "tell" /\ endpoint
  /\ work' = [pc |-> "next"]
  /\ UNCHANGED <<endpoint, row, due, recent, left, posts, accepted, faults>>

\* A write after the post that fails counts as a failure of the post.
WriteFails ==
  /\ work.pc \in {"delivered", "tell"}
  /\ IF endpoint THEN faults < MaxFaults /\ faults' = faults + 1 ELSE UNCHANGED faults
  /\ work' = [work EXCEPT !.pc = "failed"]
  /\ UNCHANGED <<endpoint, row, due, recent, left, posts, accepted>>

Failed ==
  /\ work.pc = "failed"
  /\ IF row[work.of] = Gone
     THEN PassFails /\ UNCHANGED <<row, recent, due>>
     ELSE /\ Writes(work.of, IF IsPermanent THEN "failed" ELSE "pending")
          /\ work' = [pc |-> "next"]
          /\ UNCHANGED left
  /\ UNCHANGED <<endpoint, posts, accepted, faults>>

\* The database fails where nothing catches it but the pass.
Breaks ==
  /\ work.pc \in {"next", "failed"}
  /\ faults < MaxFaults /\ faults' = faults + 1
  /\ PassFails
  /\ UNCHANGED <<endpoint, row, due, recent, posts, accepted>>

Crash ==
  /\ work # Rest
  /\ faults < MaxFaults /\ faults' = faults + 1
  /\ left' = {} /\ work' = Rest
  /\ UNCHANGED <<endpoint, row, due, recent, posts, accepted>>

\* cleanupOldDeliveries, a month after
Cleanup(d) ==
  /\ row[d].status = "delivered" /\ work = Rest
  /\ row' = [row EXCEPT ![d] = Gone]
  /\ recent' = recent \ {d}
  /\ UNCHANGED <<endpoint, due, left, work, posts, accepted, faults>>

Acts == StartPass \/ EndPass \/ Delivered \/ Tell \/ Failed
        \/ (\E d \in Deliveries : Postpone(d) \/ Post(d))
        \/ (WriteFails /\ ~endpoint)

Next ==
  \/ Delete \/ StartPass \/ EndPass
  \/ Delivered \/ Tell \/ WriteFails \/ Failed \/ Breaks \/ Crash
  \/ \E d \in Deliveries : 
       Fire(d) \/ Forget(d) \/ ComesDue(d) \/ Postpone(d) \/ Post(d) \/ Cleanup(d)

Spec == Init /\ [][Next]_vars

-----------------------------------------------------------------------------
TypeOK ==
  /\ endpoint \in BOOLEAN
  /\ row \in [Deliveries -> [status : {"none", "pending", "delivered", "failed"},
                             attempts : 0 .. MaxAttempts]]
  /\ due \subseteq Pending /\ recent \subseteq Deliveries /\ left \subseteq Deliveries
  /\ work.pc \in {"rest", "next", "delivered", "tell", "failed"}
  /\ faults \in 0 .. MaxFaults

\* A receiver that answered is sent the same event again only after a crash or
\* a write that failed, once for each; and the attempts are bounded likewise.
RepeatsNeedFaults ==
  \A d \in Deliveries :
    accepted[d] <= 1 + faults /\ posts[d] <= MaxAttempts + faults

\* Again and again: every delivery has ended; it is delivered, given up, or deleted
\* with its webhook.
EveryDeliveryEnds == \A d \in Deliveries : row[d].status # "pending"
=============================================================================
