------------------------------ MODULE OrderTicket ------------------------------
(***************************************************************************)
(* The order ticket of the trading page (order-ticket.tsx) and the request *)
(* id with which it lets the server recognise an order that it sends again *)
(* (orders.service.ts).                                                    *)
(***************************************************************************)
EXTENDS Integers, FiniteSets

CONSTANTS
  Terms,     \* side, type, volume, leverage, price: what the server compares
  Stops,     \* protective prices: what it does not compare
  MaxIds,    \* bound: request ids
  MaxEdits,  \* bound: changes of the form
  MaxLosses  \* bound: requests and answers that are lost, pages that fail to reload

VARIABLES
  form,    \* terms and stops as shown
  pending, \* pendingRequestIdRef, 0 for none
  ids,     \* request ids made so far
  call,    \* the submission on the way
  orders,  \* rows: request id, terms, stops, and the intention they stem from
  intent,  \* a form from one edit or success to the next
  told,    \* of the latest answer: what the user was told, of which submission
  drifted, \* whether the form changed by itself since its last edit
  misled,  \* whether an order was reported as rejected because a reload failed
  edits, lost

vars == <<form, pending, ids, call, orders, intent, told, drifted, misled, edits, lost>>

Idle == [pc |-> "idle"]
Tickets == [terms : Terms, stops : Stops]
Nothing == [said |-> "nothing"]

Init ==
  /\ form \in Tickets /\ pending = 0 /\ ids = 0
  /\ call = Idle /\ orders = {} /\ intent = 0 /\ told = Nothing
  /\ drifted = FALSE /\ misled = FALSE /\ edits = 0 /\ lost = 0

OneEdit == edits < MaxEdits /\ edits' = edits + 1

\* Mutant: an edit keeps the request id.
EditOnly ==
  /\ OneEdit
  /\ form' \in Tickets \ {form}
  /\ intent' = intent + 1 /\ drifted' = FALSE
  /\ UNCHANGED <<pending, ids, call, orders, told, misled, lost>>

\* updateForm, and the effect of another symbol
Edit ==
  /\ OneEdit
  /\ form' \in Tickets \ {form}
  /\ pending' = 0 /\ intent' = intent + 1 /\ drifted' = FALSE
  /\ UNCHANGED <<ids, call, orders, told, misled, lost>>

\* What changes without updateForm: the side the page prefers, a leverage above
\* the maximum, a distance whose mode or quote changes.
Drift ==
  /\ OneEdit
  /\ form' \in Tickets \ {form}
  /\ drifted' = TRUE
  /\ UNCHANGED <<pending, ids, call, orders, intent, told, misled, lost>>

\* Mutant: every submission has an id of its own.
SubmitAnew ==
  /\ call = Idle /\ ids < MaxIds
  /\ ids' = ids + 1 /\ pending' = ids + 1
  /\ call' = [pc |-> "sent", id |-> ids + 1, form |-> form,
             intent |-> intent, drifted |-> drifted]
  /\ UNCHANGED <<form, orders, intent, told, drifted, misled, edits, lost>>

\* handleSubmit, getPendingRequestId
Submit ==
  /\ call = Idle
  /\ \/ pending # 0 /\ UNCHANGED <<pending, ids>>
     \/ pending = 0 /\ ids < MaxIds /\ ids' = ids + 1 /\ pending' = ids + 1
  /\ call' = [pc |-> "sent", id |-> pending', form |-> form,
             intent |-> intent, drifted |-> drifted]
  /\ UNCHANGED <<form, orders, intent, told, drifted, misled, edits, lost>>

\* placeOrder: an order with the id is answered again if its terms are the
\* same; another one is created, or refused.
Serve ==
  /\ call.pc = "sent"
  /\ LET same == {o \in orders : o.id = call.id}
         new  == [id |-> call.id, form |-> call.form, intent |-> call.intent]
     IN  \/ /\ same # {}
            /\ call' = [call EXCEPT !.pc = IF \A o \in same : o.form.terms = call.form.terms
                                           THEN "accepted" ELSE "refused"]
            /\ UNCHANGED orders
         \/ /\ same = {} /\ orders' = orders \cup {new}
            /\ call' = [call EXCEPT !.pc = "accepted"]
         \/ /\ same = {} /\ UNCHANGED orders
            /\ call' = [call EXCEPT !.pc = "refused"]
  /\ UNCHANGED <<form, pending, ids, intent, told, drifted, misled, edits, lost>>

Lose ==
  /\ call.pc \in {"sent", "accepted", "refused"}
  /\ lost < MaxLosses /\ lost' = lost + 1
  /\ call' = [call EXCEPT !.pc = "refused"]
  /\ UNCHANGED <<form, pending, ids, orders, intent, told, drifted, misled, edits>>

\* The rest of handleSubmit after an answer: the ticket is emptied, and the page reloads.
Accepted ==
  /\ call.pc = "accepted"
  /\ pending' = 0
  /\ form' \in {f \in Tickets : f.stops = CHOOSE s \in Stops : TRUE}
  /\ call' = [call EXCEPT !.pc = "reload"]
  /\ UNCHANGED <<ids, orders, intent, told, drifted, misled, edits, lost>>

Reloaded ==
  /\ call.pc = "reload"
  /\ told' = [said |-> "queued", id |-> call.id, form |-> call.form,
              drifted |-> call.drifted]
  /\ intent' = intent + 1 /\ drifted' = FALSE
  /\ call' = Idle
  /\ UNCHANGED <<form, pending, ids, orders, misled, edits, lost>>

\* A page that fails to reload is caught as if the order had been rejected.
ReloadFails ==
  /\ call.pc = "reload" /\ lost < MaxLosses /\ lost' = lost + 1
  /\ told' = [said |-> "rejected"] /\ misled' = TRUE
  /\ call' = Idle
  /\ UNCHANGED <<form, pending, ids, orders, intent, drifted, edits>>

Refused ==
  /\ call.pc = "refused"
  /\ told' = [said |-> "rejected"]
  /\ call' = Idle
  /\ UNCHANGED <<form, pending, ids, orders, intent, drifted, misled, edits, lost>>

Next ==
  \/ Edit \/ Drift \/ Submit \/ Serve \/ Lose
  \/ Accepted \/ Reloaded \/ ReloadFails \/ Refused

Spec == Init /\ [][Next]_vars

-----------------------------------------------------------------------------
TypeOK ==
  /\ form \in Tickets /\ pending \in 0 .. MaxIds /\ ids \in 0 .. MaxIds
  /\ call = Idle \/ (call.id \in 1 .. ids /\ call.form \in Tickets)
  /\ \A o \in orders : o.id \in 1 .. ids /\ o.form \in Tickets
  /\ told \in {Nothing, [said |-> "rejected"]} \/ (told.said = "queued" /\ told.id \in 1 .. ids)
  /\ edits \in 0 .. MaxEdits /\ lost \in 0 .. MaxLosses

\* However often a form is submitted because an answer was lost, one order comes of it, unless
\* the ticket reported an order that it had placed as rejected.
OneOrderPerForm ==
  ~misled => \A o, p \in orders : o.intent = p.intent => o = p

\* What is reported as queued is stored as it was shown, protection included,
\* unless the form had changed by itself.
QueuedAsShown ==
  told.said = "queued" /\ ~told.drifted => \E o \in orders : o.id = told.id /\ o.form = told.form
=============================================================================
