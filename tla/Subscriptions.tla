----------------------------- MODULE Subscriptions -----------------------------
(***************************************************************************)
(* The live connection of one tab of the client: the socket manager with   *)
(* its counted subscriptions (socket-manager.ts), the hooks that use it    *)
(* (socket-bootstrap.tsx, use-live-prices.ts), and the server's side of    *)
(* the connection (trading.gateway.ts).                                    *)
(***************************************************************************)
EXTENDS Integers, Sequences, FiniteSets, Functions

CONSTANTS
  Clients,    \* who signs in
  Widgets,    \* components that show live prices
  Symbols,
  MaxWire,    \* bound: messages on the way to the server
  MaxOutages, \* bound: connections that are lost or refused by the network
  MaxEffects  \* bound: components that change and tokens that change

Nobody == "nobody"

VARIABLES
  token,   \* in the store: whose it is and whether it is still valid
  link,    \* of the socket: opening, open, waiting for the next attempt, stopped
  status,  \* connectionStatus
  shows,   \* activeSymbolsRef of each component
  count,   \* priceSubscriptions
  wire,    \* messages on the way to the server, in order
  member,  \* the user room of the connection
  rooms,   \* its price rooms
  outages, effects

client == <<token, shows, count>>
server == <<member, rooms>>
vars == <<token, link, status, shows, count, wire, member, rooms, outages, effects>>

Wanted == {s \in Symbols : count[s] > 0}

\* A message about each, in some order
Of(event, ss) ==
  LET n     == Cardinality(ss)
      order == CHOOSE f \in Bijection(1 .. n, ss) : TRUE
  IN  [i \in 1 .. n |-> [event |-> event, symbol |-> order[i]]]

\* Whatever ends a connection empties its rooms.
Gone == wire' = <<>> /\ member' = Nobody /\ rooms' = {}

Init ==
  /\ token \in [user : Clients, valid : {TRUE}]
  /\ link = "opening" /\ status = "reconnecting"
  /\ shows = [w \in Widgets |-> {}] /\ count = [s \in Symbols |-> 0]
  /\ wire = <<>> /\ member = Nobody /\ rooms = {}
  /\ outages = 0 /\ effects = 0

\* Mutant: the counted symbols are not sent again.
OpensEmpty ==
  /\ link = "opening"
  /\ link' = "open" /\ status' = "connected"
  /\ UNCHANGED <<client, wire, server, outages, effects>>

\* The event "connect": replaySubscriptions
Opens ==
  /\ link = "opening"
  /\ link' = "open" /\ status' = "connected"
  /\ wire' = Of("subscribe_price", Wanted)
  /\ UNCHANGED <<client, server, outages, effects>>

\* connect_error, or a disconnect that the network causes: the library waits
\* and tries again.
Lost ==
  /\ link \in {"opening", "open"} /\ outages < MaxOutages
  /\ link' = "waiting" /\ status' = "reconnecting"
  /\ outages' = outages + 1
  /\ Gone
  /\ UNCHANGED <<client, effects>>

Retry ==
  /\ link = "waiting"
  /\ link' = "opening"
  /\ UNCHANGED <<client, status, wire, server, outages, effects>>

\* handleConnection, after verifyAsync: messages are served meanwhile. A
\* connection that the server ends is not opened again by the library.
Verify ==
  /\ link = "open" /\ member = Nobody
  /\ IF token.valid
     THEN /\ member' = token.user
          /\ UNCHANGED <<link, status, wire, rooms>>
     ELSE /\ link' = "stopped" /\ status' = "reconnecting"
          /\ Gone
  /\ UNCHANGED <<client, outages, effects>>

\* subscribePrice, unsubscribePrice
Deliver ==
  /\ wire # <<>>
  /\ wire' = Tail(wire)
  /\ rooms' = IF Head(wire).event = "subscribe_price"
              THEN rooms \cup {Head(wire).symbol}
              ELSE rooms \ {Head(wire).symbol}
  /\ UNCHANGED <<client, link, status, member, outages, effects>>

\* Mutant: every symbol a component drops is unsubscribed.
ShowsAlone(w, ss) ==
  LET more == ss \ shows[w]
      less == shows[w] \ ss
  IN  /\ shows' = [shows EXCEPT ![w] = ss]
      /\ count' = [s \in Symbols |-> IF s \in less THEN 0
                                     ELSE count[s] + (IF s \in more THEN 1 ELSE 0)]
      /\ wire' = IF link = "open"
                 THEN wire \o Of("subscribe_price", more) \o Of("unsubscribe_price", less)
                 ELSE wire
      /\ Len(wire') <= MaxWire

\* What subscribePrice and unsubscribePrice of the socket manager do to the
\* counts, and what they send, when a component shows ss in place of what it showed.
Shows(w, ss) ==
  LET more == ss \ shows[w]
      less == shows[w] \ ss
      new  == {s \in more : count[s] = 0}
      none == {s \in less : count[s] = 1}
  IN  /\ shows' = [shows EXCEPT ![w] = ss]
      /\ count' = [s \in Symbols |-> count[s] + (IF s \in more THEN 1 ELSE 0)
                                              - (IF s \in less THEN 1 ELSE 0)]
      /\ wire' = IF link = "open"
                 THEN wire \o Of("subscribe_price", new) \o Of("unsubscribe_price", none)
                 ELSE wire
      /\ Len(wire') <= MaxWire

OneEffect == effects < MaxEffects /\ effects' = effects + 1

\* The effect of useLivePriceSubscription: connect opens a socket that the
\* server has ended.
Render(w) ==
  /\ OneEffect
  /\ \E ss \in SUBSET Symbols \ {shows[w]} : Shows(w, ss)
  /\ IF link = "stopped" THEN link' = "opening" /\ status' = "reconnecting"
                         ELSE UNCHANGED <<link, status>>
  /\ UNCHANGED <<token, server, outages>>

\* Its cleanup
Unmount(w) ==
  /\ OneEffect /\ shows[w] # {}
  /\ Shows(w, {})
  /\ UNCHANGED <<token, link, status, server, outages>>

Expire ==
  /\ token.valid
  /\ token' = [token EXCEPT !.valid = FALSE]
  /\ UNCHANGED <<link, status, shows, count, wire, server, outages, effects>>

\* Mutant: the socket stays when the token changes.
SignInOver(c) ==
  /\ OneEffect
  /\ token' = [user |-> c, valid |-> TRUE] /\ token' # token
  /\ IF link = "stopped" THEN link' = "opening" /\ status' = "reconnecting"
                         ELSE UNCHANGED <<link, status>>
  /\ UNCHANGED <<shows, count, wire, server, outages>>

\* The token changes: SocketBootstrap disconnects the socket of the old one
\* and opens another. Without a token, the server ends that one, too.
SignIn(c) ==
  /\ OneEffect
  /\ token' = [user |-> c, valid |-> c # Nobody] /\ token' # token
  /\ link' = "opening" /\ status' = "reconnecting"
  /\ Gone
  /\ UNCHANGED <<shows, count, outages>>

Next ==
  \/ Opens \/ Lost \/ Retry \/ Verify \/ Deliver \/ Expire
  \/ \E w \in Widgets : Render(w) \/ Unmount(w)
  \/ \E c \in Clients \cup {Nobody} : SignIn(c)

Connects == Opens \/ Retry \/ Verify

Spec == Init /\ [][Next]_vars /\ WF_vars(Connects) /\ WF_vars(Deliver)

-----------------------------------------------------------------------------
TypeOK ==
  /\ token \in [user : Clients \cup {Nobody}, valid : BOOLEAN]
  /\ link \in {"opening", "open", "waiting", "stopped"}
  /\ status \in {"connected", "reconnecting"}
  /\ \A w \in Widgets : shows[w] \subseteq Symbols
  /\ Len(wire) <= MaxWire /\ member \in Clients \cup {Nobody} /\ rooms \subseteq Symbols
  /\ outages \in 0 .. MaxOutages /\ effects \in 0 .. MaxEffects

\* Once what was sent has arrived, an open connection is in the rooms of the symbols that
\* some component shows, and of no other, however often the connection was
\* lost in between.
RoomsFollowComponents ==
  link = "open" /\ wire = <<>> => rooms = UNION {shows[w] : w \in Widgets}

\* The account updates a tab receives are those of who is signed in there.
UpdatesAreOwn == member # Nobody => member = token.user

\* Again and again: the tab is connected and its user verified, if the token is
\* valid.
ConnectionComesBack == token.valid => link = "open" /\ member = token.user
=============================================================================
