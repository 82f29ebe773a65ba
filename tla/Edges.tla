--------------------------------- MODULE Edges ---------------------------------
(***************************************************************************)
(* Where the server meets what it does not control: the browser, the       *)
(* providers of quotes, the chain, and what it caches of its own rows.     *)
(* Nothing is shared between them in what is modelled; a behaviour is one  *)
(* of any of them, or of none.                                             *)
(***************************************************************************)
EXTENDS Integers

CONSTANTS
  Keys, Chiefs, MaxCrashes, MaxLosses,               \* BrokerSettings
  Clients, Widgets, Symbols, MaxWire, MaxEffects,    \* Subscriptions
  MaxOutages,                                        \* and YahooPoller
  Calls, Posts, MaxToken,                            \* ClientSession
  Confirmed, MaxHeight, MaxScanFaults,               \* BlockScan
  Terms, Stops, MaxIds, MaxEdits, MaxTicketLosses,   \* OrderTicket
  Batches, Stooq, MaxPauses,                         \* YahooPoller
  Customers, Gets, Puts, MaxRow, MaxMissed,          \* ResponseCache
  Attempts, MaxBreaks,                               \* TwelveData
  Accts, MaxEvents, MaxTurns,                        \* AccountPages
  Runs, MaxUnits, MaxShifts, Thresholds              \* Treasury

VARIABLES
  edge, \* the one that acts
  stored, inForce, boot, snapshot, change, ordered, settingsLost, crashes,
  token, link, status, shows, count, wire, member, rooms, outages, effects,
  kept, server, expired, call, ran, inTurn, callsLost,
  height, block, cursor, scan, depositRow, dropped, scanFaults,
  ticket, pending, ids, submission, orders, intent, told, drifted, misled, edits,
  ticketLost,
  crumb, poll, pausing, backoff, fresh, down, pollOutages,
  rows, cached, get, put, stuck, missed, apart,
  stream, attempt, circuit, breaks,
  page, unhurried, open, main, events, shown, listed, missing, snapshotRead, loads,
  choice, turns,
  setup, holding, owed, unsent, high, observed, byApi, run, latest, shifts

B == INSTANCE BrokerSettings WITH cache <- inForce, start <- boot, lost <- settingsLost
U == INSTANCE Subscriptions
H == INSTANCE ClientSession WITH stored <- kept, single <- inTurn, lost <- callsLost
E == INSTANCE BlockScan WITH
       row <- depositRow, faults <- scanFaults, MaxFaults <- MaxScanFaults
T == INSTANCE OrderTicket WITH
       form <- ticket, call <- submission, lost <- ticketLost, MaxLosses <- MaxTicketLosses
Y == INSTANCE YahooPoller WITH outages <- pollOutages
Q == INSTANCE ResponseCache
D == INSTANCE TwelveData
P == INSTANCE AccountPages WITH calm <- unhurried, poll <- snapshotRead
V == INSTANCE Treasury WITH chain <- holding, stored <- observed

settings      == <<stored, inForce, boot, snapshot, change, ordered, settingsLost, crashes>>
subscriptions == <<token, link, status, shows, count, wire, member, rooms, outages, effects>>
browser       == <<kept, server, expired, call, ran, inTurn, callsLost>>
chain         == <<height, block, cursor, scan, depositRow, dropped, scanFaults>>
ordering      == <<ticket, pending, ids, submission, orders, intent, told, drifted,
                   misled, edits, ticketLost>>
poller        == <<crumb, poll, pausing, backoff, fresh, down, pollOutages>>
answers       == <<rows, cached, get, put, stuck, missed, apart>>
streaming     == <<stream, attempt, circuit, breaks>>
accountPages  == <<page, unhurried, open, main, events, shown, listed, missing,
                   snapshotRead, loads, choice, turns>>
treasury      == <<setup, holding, owed, unsent, high, observed, byApi, run, latest,
                   shifts>>
client == <<subscriptions, browser, ordering, accountPages>>
others == <<settings, chain, poller, answers, streaming, treasury>>
vars == <<edge, client, others>>

Sides == {"settings", "subscriptions", "browser", "chain", "ordering", "poller",
          "answers", "streaming", "accountPages", "treasury"}

\* Those that do not act stay as they begin, in one way.
Init ==
  /\ edge \in Sides \cup {"none"}
  /\ edge # "settings" => ordered = TRUE /\ stored = [k \in Keys |-> "default"]
  /\ edge # "subscriptions" =>
       token = [user |-> CHOOSE c \in Clients : TRUE, valid |-> TRUE]
  /\ edge # "browser" => inTurn = TRUE
  /\ edge # "ordering" => ticket = CHOOSE form \in T!Tickets : TRUE
  /\ edge # "poller" => down = FALSE
  /\ main = CHOOSE a \in Accts : TRUE \* the accounts are alike
  /\ edge # "answers" => apart = TRUE
  /\ edge # "accountPages" =>
       page = "terminal" /\ unhurried = TRUE
  /\ edge # "treasury" =>
       /\ setup = [mode |-> "manual", address |-> TRUE, supported |-> TRUE]
       /\ holding = 2 /\ observed = V!NoSnapshot
  /\ B!Init /\ U!Init /\ H!Init /\ E!Init /\ T!Init /\ Y!Init /\ Q!Init /\ D!Init
  /\ P!Init /\ V!Init

Next ==
  \/ /\ edge = "subscriptions" /\ U!Next
     /\ UNCHANGED <<edge, browser, ordering, accountPages, others>>
  \/ /\ edge = "browser" /\ H!Next
     /\ UNCHANGED <<edge, subscriptions, ordering, accountPages, others>>
  \/ /\ edge = "ordering" /\ T!Next
     /\ UNCHANGED <<edge, subscriptions, browser, accountPages, others>>
  \/ /\ edge = "accountPages" /\ P!Next
     /\ UNCHANGED <<edge, subscriptions, browser, ordering, others>>
  \/ /\ edge = "settings" /\ B!Next
     /\ UNCHANGED <<edge, chain, poller, answers, streaming, treasury, client>>
  \/ /\ edge = "chain" /\ E!Next
     /\ UNCHANGED <<edge, settings, poller, answers, streaming, treasury, client>>
  \/ /\ edge = "poller" /\ Y!Next
     /\ UNCHANGED <<edge, settings, chain, answers, streaming, treasury, client>>
  \/ /\ edge = "answers" /\ Q!Next
     /\ UNCHANGED <<edge, settings, chain, poller, streaming, treasury, client>>
  \/ /\ edge = "streaming" /\ D!Next
     /\ UNCHANGED <<edge, settings, chain, poller, answers, treasury, client>>
  \/ /\ edge = "treasury" /\ V!Next
     /\ UNCHANGED <<edge, settings, chain, poller, answers, streaming, client>>

\* The socket connects again and delivers, the timers of the providers, of the
\* shell and of the reconciliation fire, and a provider, the server or an explorer
\* answers or fails.
Fairness ==
  /\ WF_subscriptions(edge = "subscriptions" /\ U!Connects)
  /\ WF_subscriptions(edge = "subscriptions" /\ U!Deliver)
  /\ WF_poller(edge = "poller" /\ (Y!Tick \/ Y!PauseEnds \/ Y!Steps))
  /\ WF_streaming(edge = "streaming" /\ (D!Timers \/ D!Opens))
  /\ WF_accountPages(edge = "accountPages" /\ P!Answered)
  /\ WF_accountPages(edge = "accountPages" /\ (P!AskPoll \/ P!Polled))
  /\ WF_accountPages(edge = "accountPages" /\ P!Update)
  /\ \A r \in Runs :
       WF_treasury(edge = "treasury" /\ (V!Begin(r) \/ V!ReadSums(r) \/ V!Proceeds(r)))

-----------------------------------------------------------------------------
\* The types of the one that acts.
TypeOK ==
  /\ edge \in Sides \cup {"none"}
  /\ edge = "settings" => B!TypeOK
  /\ edge = "subscriptions" => U!TypeOK
  /\ edge = "browser" => H!TypeOK
  /\ edge = "chain" => E!TypeOK
  /\ edge = "ordering" => T!TypeOK
  /\ edge = "poller" => Y!TypeOK
  /\ edge = "answers" => Q!TypeOK
  /\ edge = "streaming" => D!TypeOK
  /\ edge = "accountPages" => P!TypeOK
  /\ edge = "treasury" => V!TypeOK

\* What is stored is what holds: the settings in force (updateSettings), the
\* order of a form (handleSubmit), a transfer on the chain
\* (fetchERC20DetectionsFromRpc), and what the treasury holds against what clients
\* are owed (runReconciliation, getSummary).
RecordsAgree ==
  /\ B!StoredIsInForce
  /\ T!OneOrderPerForm /\ T!QueuedAsShown
  /\ E!NothingSlipsThrough
  /\ V!ErrorsAgree /\ V!QuietRunsTell

\* A browser sends what changes something once (doRequest), keeps the session it
\* can refresh (tryRefresh), and is answered with what is its own
\* (buildCacheKey).
CredentialsHold ==
  /\ H!PostsRunOnce /\ H!PresentTokenIsHeld
  /\ Q!AnswersAreOwn

\* A connection is in the rooms of what is shown (replaySubscriptions,
\* handleSubscribePrice) and of who is signed in (verifyClient), what is cached is
\* out of date only while a change is going (invalidateUserResources), and lists are
\* those of the account they are shown for (refreshTerminalData, load).
ChannelsAreKept ==
  /\ U!RoomsFollowComponents /\ U!UpdatesAreOwn
  /\ Q!CachedIsCurrent
  /\ P!ListsFollow

\* A start keeps the settings that were chosen (ensureDefaultsPersisted), and a
\* browser is signed out for a cause (doRequest).
NothingIsUndone ==
  /\ B!ChoicesSurviveStarts
  /\ H!SignedOutForCause

\* Again and again: the connection of the browser (verifyClient) and the stream of
\* quotes (scheduleReconnect) are there.
Recurs ==
  /\ edge = "subscriptions" => U!ConnectionComesBack
  /\ edge = "streaming" => D!StreamComesBack

\* Once and for all: the default account is shown (refreshWalletSnapshot), and a
\* shortfall is told (runScheduledReconciliation).
Settles ==
  /\ edge = "accountPages" => P!DefaultIsShown
  /\ edge = "treasury" => V!StandingIsTold

\* Each symbol that is polled is served again (fetchQuotes).
SymbolsAreServed ==
  \A s \in Y!Names : []<>(edge = "poller" => Y!SymbolIsServed(s))
=============================================================================
