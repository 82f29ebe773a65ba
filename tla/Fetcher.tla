-------------------------------- MODULE Fetcher --------------------------------
(***************************************************************************)
(* The queue in front of the providers that are polled                     *)
(* (rate-limited-fetcher.ts). A fetch leaves the queue while fewer than    *)
(* maxConcurrent run, waits for its slot, and runs: it is tried again when *)
(* the provider answers that it is asked too often.                        *)
(***************************************************************************)
EXTENDS Integers, Sequences, FiniteSets, Functions

CONSTANTS
  Fetches,
  MaxConcurrent,
  Retries

VARIABLES
  queue,
  slot,    \* whether nextSlotAt is over, so that the next fetch need not wait
  running, \* the counter
  fetch    \* of each: settled, queued, waiting, running or pausing; and its tries

vars == <<queue, slot, running, fetch>>

At(f) == fetch[f].pc
To(pc) == [pc |-> pc, tries |-> 0]

Init ==
  /\ queue = <<>> /\ slot = TRUE /\ running = 0
  /\ fetch = [f \in Fetches |-> To("settled")]

\* drainQueue: the first fetch of the queue runs at once if its slot is open, and
\* counts before the next one is looked at; a fetch that waits for its slot does
\* not count, so that all that follow it leave the queue as well.
Drain(q, n, states) ==
  LET one   == slot /\ n < MaxConcurrent /\ q # <<>>
      count == IF one THEN n + 1 ELSE n
      rest  == IF one THEN Tail(q) ELSE q
      leave == count < MaxConcurrent
  IN  /\ queue' = IF leave THEN <<>> ELSE rest
      /\ running' = count
      /\ slot' = (slot /\ ~one)
      /\ fetch' = [f \in Fetches |->
                     IF one /\ f = Head(q) THEN To("running")
                     ELSE IF leave /\ f \in Range(rest) THEN To("waiting")
                     ELSE states[f]]

\* enqueue
Ask(f) ==
  /\ At(f) = "settled"
  /\ Drain(Append(queue, f), running, [fetch EXCEPT ![f] = To("queued")])

\* A second has passed since the last slot.
SlotOpens ==
  /\ ~slot
  /\ slot' = TRUE
  /\ UNCHANGED <<queue, running, fetch>>

\* runTask, after its delay
Run(f) ==
  /\ At(f) = "waiting"
  /\ fetch' = [fetch EXCEPT ![f] = To("running")]
  /\ running' = running + 1
  /\ UNCHANGED <<queue, slot>>

\* Mutant: the queue is not looked at.
SettleOnly(f) ==
  /\ At(f) = "running"
  /\ fetch' = [fetch EXCEPT ![f] = To("settled")]
  /\ running' = running - 1
  /\ UNCHANGED <<queue, slot>>

\* An answer, an error or a timeout
Settle(f) ==
  /\ At(f) = "running"
  /\ Drain(queue, running - 1, [fetch EXCEPT ![f] = To("settled")])

\* Mutant: the tries are not counted.
PauseAgain(f) ==
  /\ At(f) = "running"
  /\ fetch' = [fetch EXCEPT ![f].pc = "pausing"]
  /\ UNCHANGED <<queue, slot, running>>

\* The provider is asked too often: fetchResponse waits and tries again.
Pause(f) ==
  /\ At(f) = "running" /\ fetch[f].tries < Retries
  /\ fetch' = [fetch EXCEPT ![f] = [pc |-> "pausing", tries |-> @.tries + 1]]
  /\ UNCHANGED <<queue, slot, running>>

Retry(f) ==
  /\ At(f) = "pausing"
  /\ fetch' = [fetch EXCEPT ![f].pc = "running"]
  /\ UNCHANGED <<queue, slot, running>>

Next ==
  \/ SlotOpens
  \/ \E f \in Fetches : Ask(f) \/ Run(f) \/ Settle(f) \/ Pause(f) \/ Retry(f)

Spec == Init /\ [][Next]_vars

-----------------------------------------------------------------------------
TypeOK ==
  /\ Range(queue) = {f \in Fetches : At(f) = "queued"} /\ IsInjective(queue)
  /\ slot \in BOOLEAN /\ running \in 0 .. Cardinality(Fetches)
  /\ fetch \in [Fetches -> [pc : {"settled", "queued", "waiting", "running", "pausing"},
                            tries : 0 .. Retries]]

\* A fetch stays in the queue only while maxConcurrent others really run: the
\* counter does not drift, and whoever ends looks at the queue.
QueueWaitsForRoom ==
  queue # <<>> =>
    Cardinality({f \in Fetches : At(f) \in {"running", "pausing"}}) >= MaxConcurrent

\* Again and again: a fetch has settled.
FetchSettles(f) == At(f) = "settled"
=============================================================================
