------------------------------ MODULE AccountPages ------------------------------
(***************************************************************************)
(* The account a browser shows (frontend/context/account-context.tsx), the *)
(* lists of its orders and positions (trade-terminal-page.tsx,             *)
(* trade-activity-page.tsx), and the default account of the customer it    *)
(* follows. Any snapshot of a wallet, asked for or sent by the server,     *)
(* makes its account the shown one; every change of the shown one loads    *)
(* the lists again. Answers come in any order.                             *)
(***************************************************************************)
EXTENDS Naturals, Sequences

CONSTANTS
  Accts,       \* the accounts of the customer
  MaxEvents,   \* wallet updates that are on the way at once
  MaxTurns     \* choices, other changes of the default account, wallet updates,
               \* loads that no change asks for, and requests that fail

VARIABLES
  page,    \* what the browser shows: the terminal, or the orders and positions
  calm,    \* an account is chosen only when nothing is on the way
  open,    \* the accounts that are not closed
  main,    \* the default account
  events,  \* the wallet updates on the way
  shown,   \* activeAccountId
  listed,  \* the account of the lists
  missing, \* the last load failed
  poll,    \* the answer to the shell's getWallet, every 30 s, on its way
  loads,   \* refreshTerminalData or load, on the way
  choice,  \* setActiveAccount or closeAccount, on the way
  turns    \* of those the bound counts

vars == <<page, calm, open, main, events, shown, listed, missing, poll, loads, choice,
          turns>>

None == "none"
NoChoice == [pc |-> "idle", kind |-> "choose", of |-> None, left |-> {}]

\* The terminal asks for the wallet too, and keeps every answer; the other page
\* keeps those that are not tied to its effect.
Load(a, tied) ==
  IF page = "terminal" THEN [of |-> a, tied |-> FALSE, wallet |-> "asked"]
  ELSE [of |-> a, tied |-> tied, wallet |-> "no"]

\* hydrate and the first loads are over.
Init ==
  /\ page \in {"terminal", "activity"} /\ calm \in BOOLEAN
  /\ open = Accts /\ main \in Accts /\ events = <<>>
  /\ shown = main /\ listed = main /\ missing = FALSE
  /\ poll = None /\ loads = {} /\ choice = NoChoice
  /\ turns = 0

Quiet == loads = {} /\ poll = None /\ events = <<>>

\* Mutant: the effect before is not told that it is over.
ShowLate(a, ls) ==
  /\ shown' = a
  /\ loads' = IF a = shown THEN ls ELSE ls \cup {Load(a, TRUE)}

\* A change of the shown account runs the effect of the page again: the page of
\* orders and positions drops the answers of the effect before, the terminal
\* does not.
Show(a, ls) ==
  /\ shown' = a
  /\ loads' = IF a = shown THEN ls
              ELSE {l \in ls : ~l.tied} \cup {Load(a, TRUE)}

-----------------------------------------------------------------------------
\* refreshWalletSnapshot of the shell, every 30 seconds: the server answers with
\* the default account.
AskPoll ==
  /\ poll = None
  /\ calm => choice = NoChoice
  /\ poll' = main
  /\ UNCHANGED <<page, calm, open, main, events, shown, listed, missing, loads, choice,
                 turns>>

\* Mutant: a wallet of another account is not for this page.
PolledOwn ==
  /\ poll # None
  /\ Show(shown, loads) /\ poll' = None
  /\ UNCHANGED <<page, calm, open, main, events, listed, missing, choice, turns>>

Polled ==
  /\ poll # None
  /\ Show(poll, loads) /\ poll' = None
  /\ UNCHANGED <<page, calm, open, main, events, listed, missing, choice, turns>>

\* getWallet, as a part of a load.
ReadWallet(l) ==
  /\ l.wallet = "asked"
  /\ loads' = (loads \ {l}) \cup {[l EXCEPT !.wallet = main]}
  /\ UNCHANGED <<page, calm, open, main, events, shown, listed, missing, poll, choice,
                 turns>>

\* refreshTerminalData sets the wallet and the lists together; load of the other
\* page sets the lists.
Loaded(l) ==
  /\ l.wallet # "asked"
  /\ listed' = l.of /\ missing' = FALSE
  /\ Show(IF l.wallet = "no" THEN shown ELSE l.wallet, loads \ {l})
  /\ UNCHANGED <<page, calm, open, main, events, poll, choice, turns>>

\* The terminal loads again each 15 seconds while the socket is down; the other
\* page when a position was closed there (handleClosePosition), which it is only
\* if all is calm.
Reload ==
  /\ turns < MaxTurns /\ turns' = turns + 1
  /\ calm => choice = NoChoice
  /\ page = "activity" => calm
  /\ loads' = loads \cup {Load(shown, FALSE)}
  /\ UNCHANGED <<page, calm, open, main, events, shown, listed, missing, poll, choice>>

\* A wallet update is sent for any account it is made for: a withdrawal's or a
\* copy's need not be the default one (syncLegacyWalletSnapshot), and what was read
\* before a change is sent after it.
Emit(a) ==
  /\ Len(events) < MaxEvents /\ a \in open
  /\ turns < MaxTurns /\ turns' = turns + 1
  /\ calm => a = main /\ choice = NoChoice
  /\ events' = Append(events, a)
  /\ UNCHANGED <<page, calm, open, main, shown, listed, missing, poll, loads, choice>>

\* socket-bootstrap: wallet_update sets the snapshot.
Update ==
  /\ events # <<>>
  /\ Show(Head(events), loads) /\ events' = Tail(events)
  /\ UNCHANGED <<page, calm, open, main, listed, missing, poll, choice, turns>>

-----------------------------------------------------------------------------
\* setActiveAccount (account-switcher.tsx offers the others) and closeAccount.
Choose(kind, a) ==
  /\ choice = NoChoice /\ turns < MaxTurns /\ a \in open
  /\ calm => Quiet
  /\ kind = "choose" => a # shown
  /\ kind = "close" => open # {a}
  /\ choice' = [NoChoice EXCEPT !.pc = "sent", !.kind = kind, !.of = a]
  /\ turns' = turns + 1
  /\ UNCHANGED <<page, calm, open, main, events, shown, listed, missing, poll, loads>>

\* setDefaultAccount, or closeAccount with the account that takes its place, and
\* the wallet update of the new default.
Commit ==
  /\ choice.pc = "sent" /\ Len(events) < MaxEvents
  /\ open' = IF choice.kind = "close" THEN open \ {choice.of} ELSE open
  /\ IF choice.kind = "choose" THEN choice.of \in open /\ main' = choice.of
     ELSE main' \in IF choice.of = main THEN open' ELSE {main}
  /\ events' = IF choice.kind = "choose" \/ choice.of = main THEN Append(events, main')
               ELSE events
  /\ choice' = [choice EXCEPT !.pc = "done", !.left = {"list", "wallet"}]
  /\ UNCHANGED <<page, calm, shown, listed, missing, poll, loads, turns>>

\* refreshAccounts shows the default of the list of accounts, which may be an
\* answer cached ten seconds ago, refreshWalletSnapshot the account of the wallet,
\* read before the answer came.
Refreshed ==
  \E r \in choice.left, a \in IF calm THEN {main} ELSE Accts :
    /\ Show(a, loads)
    /\ choice' = [choice EXCEPT !.left = @ \ {r}]
    /\ UNCHANGED <<page, calm, open, main, events, listed, missing, poll, turns>>

\* When both are over, setActiveAccount shows the chosen one.
Chosen ==
  /\ choice.pc = "done" /\ choice.left = {}
  /\ Show(IF choice.kind = "choose" THEN choice.of ELSE shown, loads)
  /\ choice' = NoChoice
  /\ UNCHANGED <<page, calm, open, main, events, listed, missing, poll, turns>>

\* Another device chooses.
Elsewhere(a) ==
  /\ ~calm /\ turns < MaxTurns /\ a \in open \ {main}
  /\ main' = a /\ turns' = turns + 1
  /\ UNCHANGED <<page, calm, open, events, shown, listed, missing, poll, loads, choice>>

\* A request fails: the shell's says nothing, after a load's the lists stay as
\* they are, and a choice is given up.
Fails ==
  /\ ~calm /\ turns < MaxTurns /\ turns' = turns + 1
  /\ \/ poll # None /\ poll' = None /\ UNCHANGED <<loads, choice, missing>>
     \/ /\ \E l \in loads : loads' = loads \ {l}
        /\ missing' = TRUE
        /\ UNCHANGED <<poll, choice>>
     \/ choice.pc # "idle" /\ choice' = NoChoice /\ UNCHANGED <<poll, loads, missing>>
  /\ UNCHANGED <<page, calm, open, main, events, shown, listed>>

\* What was asked for is answered or fails.
Answered ==
  \/ Refreshed \/ Chosen \/ Commit
  \/ \E l \in loads : ReadWallet(l) \/ Loaded(l)

Next ==
  \/ Answered \/ AskPoll \/ Polled \/ Reload \/ Update \/ Fails
  \/ \E a \in Accts : Emit(a) \/ Elsewhere(a)
  \/ \E k \in {"choose", "close"}, a \in Accts : Choose(k, a)

-----------------------------------------------------------------------------
\* The types of what the browser holds.
TypeOK ==
  /\ main \in open /\ open \subseteq Accts /\ events \in Seq(Accts)
  /\ {shown, listed} \subseteq Accts /\ missing \in BOOLEAN /\ poll \in Accts \cup {None}
  /\ \A l \in loads : l.of \in Accts /\ l.wallet \in Accts \cup {"asked", "no"}
  /\ choice.left \subseteq {"list", "wallet"}

\* The lists are those of the shown account, or on their way, or the last load
\* failed: on the page of orders and positions in any order of answers (load), on
\* the terminal if an account is chosen only when nothing is on the way
\* (refreshTerminalData keeps what comes late).
ListsFollow ==
  calm \/ page = "activity" =>
    listed = shown \/ missing \/ \E l \in loads : l.of = shown

\* Once and for all, when the default account stays: it is the one that is shown.
\* What came late or for another account is undone by the shell's next poll.
DefaultIsShown == shown = main
=============================================================================
