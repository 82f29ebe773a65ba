-------------------------------- MODULE Prices --------------------------------
(***************************************************************************)
(* The quote of one symbol (pricing.service.ts): the snapshot in memory,   *)
(* its copy in Redis, what clients were last shown, the stream and the     *)
(* polls that feed it, the freshness monitor, and the sweeps of limit      *)
(* orders a live change asks for.                                          *)
(*                                                                         *)
(* A quote's age is 0 (fresh), 1 (above the 120 s of delayedQuoteMs) or 2  *)
(* (above the 300 s of staleQuoteMs). Commands of the one Redis connection *)
(* are answered in the order they are sent; with maxRetriesPerRequest null *)
(* a lost connection delays them and loses none.                           *)
(***************************************************************************)
EXTENDS Integers, Sequences, FiniteSets

CONSTANTS
  Values,      \* prices
  BootValue,   \* deriveBootstrapPrice
  None,
  MaxWire,     \* bound: commands of each kind on the way to Redis
  MaxAdds,     \* bound: sweep jobs being added to the queue
  MaxAttempts, \* failed connections before the circuit opens: 3 in the code
  MaxFaults    \* bound: failures, restarts and silent sockets

ASSUME PricesAssumption ==
  /\ BootValue \in Values
  /\ {MaxWire, MaxAttempts, MaxFaults} \subseteq Nat /\ MaxAdds \in Nat \ {0}

VARIABLES
  phase,    \* of the process: down, loading, loaded, serving
  quote,    \* this.prices
  cached,   \* Redis
  wire,     \* commands sent to Redis and not answered
  shown,    \* the last price_update of the room, which starts with its process
  socket,   \* of the streaming provider, with reconnectAttempt
  window,   \* less than limitSweepThrottleMs since the last sweep was added
  blocked,  \* before limitSweepEnqueueBlockedUntil
  adding,   \* enqueueLimitSweep calls that have not returned
  faults,
  punctual  \* providers stamp a quote when it arrives (Binance, CoinGecko)

sweepVars == <<window, blocked, adding>>
vars == <<phase, quote, cached, wire, shown, socket, window, blocked, adding, faults, punctual>>

Ages    == 0 .. 2
Sources == {"streaming", "polling", "bootstrap"}
Markets == {"LIVE", "CLOSED"}
Quotes  == [value : Values, source : Sources, market : Markets \cup {"STALE", "BOOTSTRAP"},
            delayed : BOOLEAN, age : Ages]
ASSUME NoneAssumption == None \notin Quotes

\* buildQuote, of a provider or from deriveBootstrapPrice
Quote(v, source, market, delayed, age) ==
  [value |-> v, source |-> source, market |-> market, delayed |-> delayed, age |-> age]

Bootstrap == Quote(BootValue, "bootstrap", "BOOTSTRAP", FALSE, 0)

\* applyQuoteAgeState: what a snapshot says once its age is looked at
Aged(q) ==
  LET market == IF q.market \in {"CLOSED", "BOOTSTRAP"} THEN q.market
                ELSE IF q.market = "STALE" \/ q.age = 2 THEN "STALE" ELSE "LIVE"
  IN  [q EXCEPT !.market = market,
                !.delayed = market = "LIVE" /\ (q.delayed \/ q.age = 1)]

\* Mutant: a quote that only ages is not worth telling.
SamePrice(q, r) == q.value = r.value /\ q.source = r.source

\* Mutant: only the state of the market is compared.
SameState(q, r) == q.market = r.market /\ q.delayed = r.delayed

\* ~ hasMeaningfulQuoteChange: the time stamp is not compared
Same(q, r) == [q EXCEPT !.age = 0] = [r EXCEPT !.age = 0]

\* Mutant: a stream is preferred however old its last quote is.
SkipForStream(current, q) == q.source = "polling" /\ current.source = "streaming"

\* shouldSkipIncomingQuote
Skip(current, q) ==
  /\ q.source = "polling" /\ current.source = "streaming"
  /\ Aged(current).market = "LIVE" /\ ~Aged(current).delayed

Init ==
  /\ phase = "down" /\ quote = None /\ wire = <<>>
  /\ cached = None /\ shown = None
  /\ socket = [is |-> "closed", attempt |-> 0]
  /\ window = FALSE /\ blocked = FALSE /\ adding = 0
  /\ faults = 0
  /\ punctual \in BOOLEAN

Fault == faults < MaxFaults /\ faults' = faults + 1

-----------------------------------------------------------------------------
(***************************************************************************)
(* upsertPrice: no other call comes between its read of the current quote  *)
(* and the answer of Redis it waits for.                                   *)
(***************************************************************************)
\* maybeEnqueueLimitSweep: the throttle starts before the job is added.
AskForSweep ==
  IF blocked \/ window THEN UNCHANGED sweepVars
  ELSE window' = TRUE /\ adding' = adding + 1 /\ UNCHANGED blocked

Sent(op) == {i \in DOMAIN wire : wire[i].op = op}

Send(command) ==
  /\ Cardinality(Sent(command.op)) < MaxWire
  /\ wire' = Append(wire, command)

Upsert(q) ==
  LET new  == Aged(q)
      tell == quote = None \/ ~Same(Aged(quote), new)
  IN  /\ quote' = new
      /\ shown' = IF tell THEN new ELSE shown
      /\ IF tell /\ new.market = "LIVE" THEN AskForSweep ELSE UNCHANGED sweepVars
      /\ Send([op |-> "set", quote |-> new])

Receive(q) ==
  /\ phase = "serving"
  /\ ~(quote # None /\ Skip(quote, q))
  /\ Upsert(q)
  /\ UNCHANGED <<phase, cached, socket, faults, punctual>>

\* The handlers given to Binance and Twelve Data, which marks a closed market
StreamQuote(v, market, age) ==
  /\ socket.is = "open"
  /\ punctual => age = 0 /\ market = "LIVE"
  /\ Receive(Quote(v, "streaming", market, FALSE, age))

\* The handlers given to CoinGecko, and to the forex, Yahoo and Stooq polls
PollQuote(v, market, delayed, age) ==
  /\ punctual => age = 0 /\ market = "LIVE" /\ ~delayed
  /\ Receive(Quote(v, "polling", market, delayed, age))

\* sweepAgedQuotes
Monitor ==
  /\ phase = "serving"
  /\ quote # None /\ ~Same(quote, Aged(quote))
  /\ quote' = Aged(quote)
  /\ shown' = Aged(quote)
  /\ Send([op |-> "set", quote |-> Aged(quote)])
  /\ UNCHANGED <<phase, cached, socket, sweepVars, faults, punctual>>

-----------------------------------------------------------------------------
(***************************************************************************)
(* The start of the process                                                *)
(***************************************************************************)
Start ==
  /\ phase = "down"
  /\ phase' = "loading"
  /\ UNCHANGED <<quote, cached, wire, shown, socket, sweepVars, faults, punctual>>

\* bootstrapQuotes, when it comes to this symbol
Load ==
  /\ phase = "loading"
  /\ Upsert(Bootstrap)
  /\ phase' = "loaded"
  /\ UNCHANGED <<cached, socket, faults, punctual>>

Serve ==
  /\ phase' = "serving"
  /\ socket' = [is |-> "connecting", attempt |-> 0]
  /\ UNCHANGED <<quote, cached, wire, shown, sweepVars, faults, punctual>>

\* Mutant: providers do not wait for bootstrapQuotes.
StartAtOnce == phase = "loaded" /\ Serve

\* startFreePricingProviders, after Redis answered every bootstrap quote
StartProviders ==
  /\ phase = "loaded"
  /\ Sent("set") = {}
  /\ Serve

\* getLatestQuote of a symbol that has none yet asks Redis, ...
Look ==
  /\ phase = "loading" /\ quote = None
  /\ Send([op |-> "get"])
  /\ UNCHANGED <<phase, quote, cached, shown, socket, sweepVars, faults, punctual>>

\* ... and stores what it is answered over whatever is there by then.
Answer ==
  /\ wire # <<>>
  /\ wire' = Tail(wire)
  /\ IF Head(wire).op = "set"
     THEN cached' = Head(wire).quote /\ UNCHANGED quote
     ELSE /\ quote' = IF cached = None THEN Bootstrap ELSE cached
          /\ UNCHANGED cached
  /\ UNCHANGED <<phase, shown, socket, sweepVars, faults, punctual>>

\* Redis refuses the command: a quote is not cached, or not found.
Refuse ==
  /\ wire # <<>> /\ Fault
  /\ wire' = Tail(wire)
  /\ quote' = IF Head(wire).op = "set" THEN quote ELSE Bootstrap
  /\ UNCHANGED <<phase, cached, shown, socket, sweepVars, punctual>>

\* The process ends; what was sent may still be carried out up to some command.
Crash ==
  /\ phase # "down" /\ Fault
  /\ phase' = "down" /\ quote' = None /\ wire' = <<>>
  /\ cached' \in {cached} \cup {wire[i].quote : i \in Sent("set")}
  /\ socket' = [is |-> "closed", attempt |-> 0]
  /\ window' = FALSE /\ blocked' = FALSE /\ adding' = 0
  /\ shown' = None
  /\ UNCHANGED punctual

-----------------------------------------------------------------------------
(***************************************************************************)
(* The socket of the streaming provider (binance.provider.ts; that of      *)
(* Twelve Data differs in its limits)                                      *)
(***************************************************************************)
SocketBecomes(state, attempt) ==
  /\ socket' = [is |-> state, attempt |-> attempt]
  /\ UNCHANGED <<phase, quote, cached, wire, shown, sweepVars, punctual>>

SocketOpens ==
  /\ socket.is = "connecting"
  /\ SocketBecomes("open", 0)
  /\ UNCHANGED faults

\* Mutant: after the last attempt the stream is given up.
GiveUp ==
  /\ socket.is \in {"connecting", "open", "silent"}
  /\ IF socket.attempt = MaxAttempts THEN SocketBecomes("closed", 0)
     ELSE SocketBecomes("waiting", socket.attempt + 1)
  /\ UNCHANGED faults

\* Mutant: the attempts are counted on.
CountOn ==
  /\ socket.is \in {"connecting", "open", "silent"}
  /\ SocketBecomes("waiting", socket.attempt + 1)
  /\ UNCHANGED faults

\* The close handler and scheduleReconnect: a timer, longer after MaxAttempts
SocketCloses ==
  /\ socket.is \in {"connecting", "open", "silent"}
  /\ IF socket.attempt = MaxAttempts THEN SocketBecomes("circuit", MaxAttempts + 1)
     ELSE SocketBecomes("waiting", socket.attempt + 1)
  /\ UNCHANGED faults

Reconnect ==
  /\ socket.is \in {"waiting", "circuit"}
  /\ SocketBecomes("connecting", IF socket.is = "circuit" THEN 0 ELSE socket.attempt)
  /\ UNCHANGED faults

\* The peer is gone and nothing says so: pings are sent, pongs not awaited.
SocketFallsSilent ==
  /\ socket.is = "open" /\ Fault
  /\ SocketBecomes("silent", 0)

-----------------------------------------------------------------------------
(***************************************************************************)
(* Time, and the order queue                                               *)
(***************************************************************************)
Older(q) == IF q = None THEN None ELSE [q EXCEPT !.age = IF @ = 2 THEN 2 ELSE @ + 1]

TimePasses ==
  /\ quote' = Older(quote) /\ cached' = Older(cached)
  /\ wire' = [i \in DOMAIN wire |->
       IF wire[i].op = "set" THEN [wire[i] EXCEPT !.quote = Older(@)] ELSE wire[i]]
  /\ UNCHANGED <<phase, shown, socket, sweepVars, faults, punctual>>

QueueBecomes(w, b, a) ==
  /\ window' = w /\ blocked' = b /\ adding' = a
  /\ UNCHANGED <<phase, quote, cached, wire, shown, socket, punctual>>

WindowEnds ==
  /\ window /\ adding < MaxAdds
  /\ QueueBecomes(FALSE, blocked, adding)
  /\ UNCHANGED faults

SweepAdded == adding > 0 /\ QueueBecomes(window, FALSE, adding - 1) /\ UNCHANGED faults

\* isRecoverableQueueError, or an error that is only logged
SweepNotAdded ==
  /\ adding > 0 /\ Fault
  /\ \E recoverable \in BOOLEAN : QueueBecomes(window, blocked \/ recoverable, adding - 1)

\* Mutant: only a job that was added ends the pause.
PauseStays == FALSE /\ UNCHANGED vars

PauseEnds == blocked /\ QueueBecomes(window, FALSE, adding) /\ UNCHANGED faults

-----------------------------------------------------------------------------
SocketStep == SocketOpens \/ SocketCloses \/ Reconnect \/ SocketFallsSilent

Next ==
  \/ \E v \in Values, m \in Markets, a \in Ages :
       StreamQuote(v, m, a) \/ \E d \in BOOLEAN : PollQuote(v, m, d, a)
  \/ Monitor \/ Start \/ Load \/ StartProviders \/ Look \/ Answer \/ Refuse \/ Crash
  \/ SocketStep
  \/ TimePasses \/ WindowEnds \/ SweepAdded \/ SweepNotAdded \/ PauseEnds

Spec == Init /\ [][Next]_vars

\* Timers fire, Redis and the queue answer; nothing is assumed of providers.
Fairness ==
  /\ WF_vars(Monitor) /\ WF_vars(Reconnect)
  /\ WF_vars(Start) /\ WF_vars(Load) /\ WF_vars(StartProviders) /\ WF_vars(Answer)
  /\ WF_vars(WindowEnds) /\ WF_vars(SweepAdded) /\ WF_vars(PauseEnds)

FairSpec == Spec /\ Fairness

-----------------------------------------------------------------------------
Commands == [op : {"get"}] \cup [op : {"set"}, quote : Quotes]

TypeOK ==
  /\ phase \in {"down", "loading", "loaded", "serving"}
  /\ {quote, cached, shown} \subseteq Quotes \cup {None}
  /\ wire \in Seq(Commands) /\ Len(wire) <= 2 * MaxWire
  /\ socket.is \in {"closed", "connecting", "open", "silent", "waiting", "circuit"}
  /\ socket.attempt \in 0 .. MaxAttempts + 1
  /\ window \in BOOLEAN /\ blocked \in BOOLEAN /\ adding \in 0 .. MaxAdds
  /\ faults \in 0 .. MaxFaults /\ punctual \in BOOLEAN

\* Clients see the price orders are executed at, or a bootstrap quote that is
\* marked as one: a read that restored the quote of an earlier process can
\* make the first quote of a provider look like no change.
ClientsSeePrice ==
  phase = "serving" /\ shown # None =>
    shown.value = quote.value \/ shown.source = "bootstrap"

\* Quote, cache and clients agree, from the first start on.
PricesAgree == TypeOK /\ ClientsSeePrice

\* Once providers are started, no late answer of Redis replaces a quote: the
\* price changes only with an update for clients.
PriceChangesAreTold ==
  [][phase = "serving" /\ phase' = "serving" /\ quote'.value # quote.value
       => shown' # None /\ shown'.value = quote'.value]_vars

Live(q) == q # None /\ Aged(q).market = "LIVE"

\* Where providers stamp quotes as they arrive, clients do not go on seeing a
\* live price when the quote is no longer live.
StalenessIsTold ==
  punctual => (~Live(quote) ~> (shown = None \/ shown.market # "LIVE" \/ Live(quote)))

\* Where polls go on succeeding, the quote is refreshed again and again, even
\* when the stream is silent and was the source of the last quote.
PollsTakeOver ==
  punctual =>
    (SF_vars(\E v \in Values : PollQuote(v, "LIVE", FALSE, 0))
       => []<>(quote # None /\ quote.age = 0))

\* As long as live prices change, sweeps of limit orders are asked for, whatever
\* the queue refused before.
ChangesAreSwept ==
  []<><<Live(quote') /\ quote # None /\ quote'.value # quote.value /\ shown' # shown>>_vars
    => []<><<adding' > adding>>_vars

\* A stream that was lost is connected again.
StreamIsRetried ==
  (phase = "serving" /\ socket.is \in {"closed", "waiting", "circuit"})
    ~> (socket.is = "connecting" \/ phase = "down")

\* Clients hear of prices and of their end, resting orders are swept, and no
\* source that is lost stays lost (processQuote, maybeEnqueueLimitSweep,
\* scheduleReconnect).
FeedIsServed ==
  /\ PriceChangesAreTold /\ StalenessIsTold
  /\ PollsTakeOver /\ ChangesAreSwept /\ StreamIsRetried
=============================================================================
