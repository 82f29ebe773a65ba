-------------------------------- MODULE Services --------------------------------
(***************************************************************************)
(* The services around the trading core that share no row with one another *)
(* in what is modelled of them. Each has a module of its own; a behaviour  *)
(* is one of any of them, so that one model has them all side by side.     *)
(***************************************************************************)
EXTENDS Integers, FiniteSets

CONSTANTS
  MaxFaults,                                   \* of several of the services
  Devices, Admins, MaxAccounts, AccountAdmins, \* Accounts, Kyc and Complaints
  Passes, MaxActions,                          \* DealingDesk
  SessionIds, Requests, Links, Codes, MaxToken, \* Sessions
  Staff, Seeded, Configured, Forms,            \* Administrators
  Screens, MaxPassword, MaxSecret,             \* Credentials
  Sockets, Operators, OwnerOf,                 \* Presence
  Deliveries, MaxAttempts, RateLimit, MaxDeliveryFaults, \* Webhooks
  Checks, MaxAlerts,                           \* Alerts
  Prices, MaxCandles, Buckets, MaxStarts,      \* Candles
  Fetches, MaxConcurrent, Retries,             \* Fetcher
  \* Edges
  Keys, Chiefs, MaxCrashes, MaxLosses, Clients, Widgets, Symbols, MaxWire, MaxEffects,
  MaxOutages, Calls, Posts, Confirmed, MaxHeight, MaxScanFaults, Terms, Stops, MaxIds,
  MaxEdits, MaxTicketLosses, Batches, Stooq, MaxPauses, Customers, Gets, Puts, MaxRow,
  MaxMissed, Attempts, MaxBreaks, Accts, MaxEvents, MaxTurns, Runs, MaxUnits, MaxShifts,
  Thresholds

ASSUME ServicesAssumption ==
  /\ {MaxAccounts, MaxFaults, MaxDeliveryFaults, MaxActions, MaxAlerts, MaxSecret,
      RateLimit, Retries} \subseteq Nat
  /\ {MaxToken, MaxPassword, MaxAttempts, MaxCandles, Buckets, MaxStarts,
      MaxConcurrent} \subseteq Nat \ {0}
  /\ {MaxCrashes, MaxLosses, MaxWire, MaxEffects, MaxOutages, MaxScanFaults, MaxIds,
      MaxEdits, MaxTicketLosses, MaxPauses, MaxRow, MaxMissed, MaxBreaks, MaxTurns,
      MaxShifts} \subseteq Nat
  /\ {Confirmed, MaxHeight, Attempts, MaxEvents} \subseteq Nat \ {0}
  /\ MaxUnits \in Nat \ {0, 1} \* a treasury begins with two
  /\ Posts \subseteq Calls /\ Stooq \subseteq UNION Batches
  /\ "nobody" \notin Clients \cup Customers /\ "public" \notin Customers
  /\ Clients # {} /\ Terms # {} /\ Stops # {}
  /\ Accts # {} /\ "none" \notin Accts /\ Thresholds \subseteq {"pending", "unsent"}
  /\ Devices \cap (Admins \cup AccountAdmins) = {} /\ Links \cap Codes = {}
  /\ Seeded \in Configured /\ Configured \subseteq Staff
  /\ OwnerOf \in [Sockets -> Operators] /\ Prices \subseteq Nat
  /\ IsFiniteSet(Fetches) /\ IsFiniteSet(Widgets)
  /\ IsFiniteSet(Symbols) /\ Cardinality(Symbols) <= MaxWire

VARIABLES
  area, \* the service that acts
  account, wallet, accountRequest, accountsCut, mode,
  kycStatus, logged, kycRequest, kycCut, onePerSide,
  complaintStatus, credits, complaintRequest, complaintCut, serial,
  breached, action, pass, hedgeRequest, single,
  session, held, once, uses, sessionRequest, oneTab,
  admin, form, queued,
  password, known, made, factor, proved, screen, calm, credentialFaults,
  socket, online, hasty,
  endpoint, row, due, recent, left, work, posts, accepted, deliveryFaults,
  alert, check, tidy,
  now, current, history, cache, load, punctual, raced, starts,
  queue, slot, running, fetch,
  \* Edges
  edge,
  stored, inForce, boot, snapshot, change, ordered, settingsLost, crashes,
  token, link, status, shows, count, wire, member, rooms, outages, effects,
  kept, server, expired, call, ran, inTurn, callsLost,
  height, block, cursor, scan, depositRow, dropped, scanFaults,
  ticket, pending, ids, submission, orders, intent, told, drifted, misled, edits,
  ticketLost,
  crumb, poll, pausing, backoff, fresh, down, pollOutages,
  rows, cached, get, put, stuck, missed, apart,
  stream, attempt, circuit, breaks,
  page, unhurried, open, main, events, shown, listed, missing, snapshotRead, loads,
  choice, turns,
  setup, holding, owed, unsent, high, observed, byApi, run, latest, shifts

A == INSTANCE Accounts WITH
       Admins <- AccountAdmins, request <- accountRequest, cutOff <- accountsCut
K == INSTANCE Kyc WITH status <- kycStatus, request <- kycRequest, cutOff <- kycCut
C == INSTANCE Complaints WITH
       status <- complaintStatus, request <- complaintRequest, cutOff <- complaintCut
D == INSTANCE DealingDesk WITH request <- hedgeRequest
S == INSTANCE Sessions WITH Ids <- SessionIds, request <- sessionRequest
R == INSTANCE Administrators
P == INSTANCE Credentials WITH faults <- credentialFaults
O == INSTANCE Presence
W == INSTANCE Webhooks WITH faults <- deliveryFaults, MaxFaults <- MaxDeliveryFaults
L == INSTANCE Alerts
G == INSTANCE Candles
F == INSTANCE Fetcher
E == INSTANCE Edges

accounts       == <<account, wallet, accountRequest, accountsCut, mode>>
kyc            == <<kycStatus, logged, kycRequest, kycCut, onePerSide>>
complaints     == <<complaintStatus, credits, complaintRequest, complaintCut, serial>>
desk           == <<breached, action, pass, hedgeRequest, single>>
sessions       == <<session, held, once, uses, sessionRequest, oneTab>>
administrators == <<admin, form, queued>>
credentials    == <<password, known, made, factor, proved, screen, calm, credentialFaults>>
presence       == <<socket, online, hasty>>
webhooks       == <<endpoint, row, due, recent, left, work, posts, accepted, deliveryFaults>>
alerts         == <<alert, check, tidy>>
candles        == <<now, current, history, cache, load, punctual, raced, starts>>
fetcher        == <<queue, slot, running, fetch>>
staff == <<accounts, kyc, complaints, desk, administrators, alerts>>
users == <<sessions, credentials, presence, webhooks, candles, fetcher>>
edges == <<edge,
  stored, inForce, boot, snapshot, change, ordered, settingsLost, crashes,
  token, link, status, shows, count, wire, member, rooms, outages, effects,
  kept, server, expired, call, ran, inTurn, callsLost,
  height, block, cursor, scan, depositRow, dropped, scanFaults,
  ticket, pending, ids, submission, orders, intent, told, drifted, misled, edits,
  ticketLost,
  crumb, poll, pausing, backoff, fresh, down, pollOutages,
  rows, cached, get, put, stuck, missed, apart,
  stream, attempt, circuit, breaks,
  page, unhurried, open, main, events, shown, listed, missing, snapshotRead, loads,
  choice, turns,
  setup, holding, owed, unsent, high, observed, byApi, run, latest, shifts>>
vars == <<area, staff, users, edges>>

Areas == {"accounts", "kyc", "complaints", "desk", "sessions",
          "administrators", "credentials", "presence", "webhooks", "alerts",
          "candles", "fetcher", "edges"}

\* The services that do not act stay as they begin.
Init ==
  /\ area \in Areas
  /\ area # "accounts" => mode = "serial"
  /\ area # "kyc" => onePerSide = TRUE
  /\ area # "complaints" => serial = TRUE
  /\ area # "desk" => single = TRUE
  /\ area # "sessions" => oneTab = TRUE
  /\ area # "administrators" => queued = TRUE
  /\ area # "credentials" => calm = TRUE
  /\ area # "alerts" => tidy = TRUE
  /\ area # "candles" => punctual = TRUE
  /\ area # "edges" => edge = "none"
  /\ A!Init /\ K!Init /\ C!Init /\ D!Init /\ S!Init /\ R!Init
  /\ P!Init /\ O!Init /\ W!Init /\ L!Init /\ G!Init /\ F!Init /\ E!Init
  /\ area = "edges" => edge # "none"

Next ==
  \/ /\ area = "accounts" /\ A!Next
     /\ UNCHANGED <<area, kyc, complaints, desk, administrators, alerts, users, edges>>
  \/ /\ area = "kyc" /\ K!Next
     /\ UNCHANGED <<area, accounts, complaints, desk, administrators, alerts, users,
                    edges>>
  \/ /\ area = "complaints" /\ C!Next
     /\ UNCHANGED <<area, accounts, kyc, desk, administrators, alerts, users, edges>>
  \/ /\ area = "desk" /\ D!Next
     /\ UNCHANGED <<area, accounts, kyc, complaints, administrators, alerts, users,
                    edges>>
  \/ /\ area = "administrators" /\ R!Next
     /\ UNCHANGED <<area, accounts, kyc, complaints, desk, alerts, users, edges>>
  \/ /\ area = "alerts" /\ L!Next
     /\ UNCHANGED <<area, accounts, kyc, complaints, desk, administrators, users,
                    edges>>
  \/ /\ area = "sessions" /\ S!Next
     /\ UNCHANGED <<area, credentials, presence, webhooks, candles, fetcher, staff,
                    edges>>
  \/ /\ area = "credentials" /\ P!Next
     /\ UNCHANGED <<area, sessions, presence, webhooks, candles, fetcher, staff, edges>>
  \/ /\ area = "presence" /\ O!Next
     /\ UNCHANGED <<area, sessions, credentials, webhooks, candles, fetcher, staff,
                    edges>>
  \/ /\ area = "webhooks" /\ W!Next
     /\ UNCHANGED <<area, sessions, credentials, presence, candles, fetcher, staff,
                    edges>>
  \/ /\ area = "candles" /\ G!Next
     /\ UNCHANGED <<area, sessions, credentials, presence, webhooks, fetcher, staff,
                    edges>>
  \/ /\ area = "fetcher" /\ F!Next
     /\ UNCHANGED <<area, sessions, credentials, presence, webhooks, candles, staff,
                    edges>>
  \/ /\ area = "edges" /\ E!Next
     /\ UNCHANGED <<area, staff, users>>

\* The timers of the dealing desk, of the webhooks, of the fetcher and of the
\* edges fire; the other services wait for requests. A pass of the monitor ends, a post and a fetch
\* are answered or time out, and time passes; only the service that acts is
\* scheduled.
Fairness ==
  /\ \A p \in Passes :
       WF_desk(area = "desk" /\ (D!StartPass(p) \/ D!Look(p) \/ D!Suggest(p)))
  /\ WF_webhooks(area = "webhooks" /\ W!Acts)
  /\ \A d \in Deliveries :
       /\ WF_webhooks(area = "webhooks" /\ W!Forget(d))
       /\ WF_webhooks(area = "webhooks" /\ W!ComesDue(d))
  /\ \A f \in Fetches :
       WF_fetcher(area = "fetcher" /\ (F!Run(f) \/ F!Settle(f) \/ F!Retry(f)))
  /\ E!Fairness

Spec == Init /\ [][Next]_vars /\ Fairness

-----------------------------------------------------------------------------
\* The types of the service that acts; the others stay as they begin.
TypeOK ==
  /\ area \in Areas
  /\ area = "accounts" => A!TypeOK
  /\ area = "kyc" => K!TypeOK
  /\ area = "complaints" => C!TypeOK
  /\ area = "desk" => D!TypeOK
  /\ area = "sessions" => S!TypeOK
  /\ area = "administrators" => R!TypeOK
  /\ area = "credentials" => P!TypeOK
  /\ area = "presence" => O!TypeOK
  /\ area = "webhooks" => W!TypeOK
  /\ area = "alerts" => L!TypeOK
  /\ area = "candles" => G!TypeOK
  /\ area = "fetcher" => F!TypeOK
  /\ area = "edges" => E!TypeOK

\* What the rows of one case say agrees, however requests overlap or end half
\* way: an account and the wallet that mirrors it (setDefaultAccount,
\* closeAccount, syncLegacyWalletSnapshot), a submission and its log
\* (kyc.service.ts), a complaint and its compensation (resolve), a symbol and
\* its hedge actions (maybeCreateHedgeSuggestion), a suspicion and its alerts
\* (createAlertIfNeeded).
RecordsAgree ==
  /\ TypeOK
  /\ A!OneOpenDefault /\ A!WalletFollowsDefault
  /\ K!StatusIsLogged
  /\ C!CreditedOncePerRequest
  /\ D!OneLiveAction
  /\ L!OneUnresolved
  /\ E!RecordsAgree

\* Who proves to be somebody is, and is not locked out: the client holds the
\* refresh token that is stored (rotateSession), links and codes work once
\* (resetPassword, verifyEmail, verify), an administrator knows its password
\* after a reset, however the mail went (resetPassword), and a second factor
\* that is enabled was proved (confirm2Fa).
CredentialsHold ==
  /\ S!ClientCanRefresh /\ S!TokensWorkOnce
  /\ P!PasswordIsKnown /\ P!FactorIsProved
  /\ E!CredentialsHold

\* What is sent and shown agrees with what happened: operators are online as
\* long as a socket of theirs is connected (handleDisconnect), a receiver that
\* answered gets an event again only after a fault (sendDelivery), a chart has
\* one candle of a bucket, in order (persistCandle), and a fetch stays queued
\* only while maxConcurrent others run (drainQueue).
ChannelsAreKept ==
  /\ O!OnlineIffConnected
  /\ W!RepeatsNeedFaults
  /\ G!ChartIsOrdered
  /\ F!QueueWaitsForRoom
  /\ E!ChannelsAreKept

\* What was decided stays decided: a closed account stays closed (closeAccount,
\* setUserAccountStatus), a submission follows its life (submit, approve,
\* reject), a complaint is decided once (resolve), a revoked session is not
\* refreshed to life (rotateSession, revokeSession), a super admin is taken
\* down by the seeded one or steps down (assertCanModifyTarget), and what a
\* chart tells of a bucket only grows (loadAllCandles).
NothingIsUndone ==
  /\ A!ClosedIsFinal
  /\ K!FollowsLife
  /\ C!DecisionIsFinal
  /\ S!RevokedIsFinal
  /\ R!TakenDownByRight
  /\ G!CandlesOnlyGrow
  /\ E!NothingIsUndone

\* The timers leave nothing behind, and connections and quotes come back: a symbol
\* above the threshold gets a hedge action (updateExposureForSymbol), every delivery
\* ends (processDeliveryQueue), every fetch settles (runTask), and what the edges
\* wait for comes. One of them acts, so that what each has to reach again and again
\* is one formula.
Recurs ==
  /\ area = "desk" => D!BreachIsSuggested
  /\ area = "webhooks" => W!EveryDeliveryEnds
  /\ area = "edges" => E!Recurs

TimersCatchUp ==
  /\ []<>Recurs
  /\ <>[](area = "edges" => E!Settles)
  /\ \A f \in Fetches : []<>(area = "fetcher" => F!FetchSettles(f))
  /\ E!SymbolsAreServed

-----------------------------------------------------------------------------
\* For TLC: two sockets of one operator and one of another
TwoTabs == [s \in 1 .. 3 |-> IF s = 3 THEN 2 ELSE 1]
=============================================================================
