-------------------------------- MODULE Candles --------------------------------
(***************************************************************************)
(* The candles of one symbol and resolution (candle.service.ts): built in  *)
(* memory from the prices, and written to the cache of Redis as a whole.   *)
(* After a start they are loaded from there in the background, while       *)
(* prices and requests come in. A candle has a bucket of time, the price   *)
(* it opened at and its highest one: the lowest is the highest mirrored.   *)
(* The table of candles, off by default, is left out.                      *)
(***************************************************************************)
EXTENDS Integers, Sequences

CONSTANTS
  Prices,
  MaxCandles, \* MAX_CANDLES_PER_SYMBOL
  Buckets,    \* bound: buckets of time
  MaxStarts   \* bound: starts of the process

Loads == {"start", "request"} \* loadAllCandles, getRecentCandles

VARIABLES
  now,     \* the bucket of the clock
  current, \* the candle that prices go to, of bucket 0 if there is none
  history, \* in memory
  cache,   \* in Redis
  load,    \* what each load has read, with whether it is on
  punctual, \* whether prices bear the time of the clock
  raced,   \* whether a price came while candles were loaded
  starts

vars == <<now, current, history, cache, load, punctual, raced, starts>>

NoCandle == [at |-> 0]
Last(candles) == candles[Len(candles)]
Larger(a, b) == IF a > b THEN a ELSE b

Init ==
  /\ now = 1
  /\ current = NoCandle
  /\ history = <<>> /\ cache = <<>>
  /\ load = [l \in Loads |-> [pc |-> IF l = "start" THEN "due" ELSE "off"]]
  /\ punctual \in BOOLEAN
  /\ raced = FALSE
  /\ starts = 1

ClockTicks ==
  /\ now < Buckets
  /\ now' = now + 1
  /\ UNCHANGED <<current, history, cache, load, punctual, raced, starts>>

\* Mutant: a candle is always a new one.
AppendTo(candles, c) == Append(candles, c)

\* persistCandle: the candle replaces the last one if that has its bucket.
Put(candles, c) ==
  IF candles # <<>> /\ Last(candles).at = c.at THEN [candles EXCEPT ![Len(candles)] = c]
  ELSE Append(candles, c)

Trimmed(candles) == SubSeq(candles, Larger(1, Len(candles) - MaxCandles + 1), Len(candles))

\* updateResolutionCandle
WithPrice(p, b) ==
  IF current.at = b
  THEN [current EXCEPT !.high = Larger(@, p)]
  ELSE [at |-> b, open |-> p, high |-> p]

\* handlePriceUpdate
Price(p, b) ==
  /\ b <= now /\ (punctual => b = now)
  /\ current' = WithPrice(p, b)
  /\ history' = Trimmed(Put(history, current'))
  /\ cache' = history'
  /\ raced' = (raced \/ \E l \in Loads : load[l].pc \in {"due", "read"})
  /\ UNCHANGED <<now, load, punctual, starts>>

\* getRecentCandles, when there is nothing in memory
Request ==
  /\ history = <<>> /\ load["start"].pc # "done" /\ load["request"].pc = "off"
  /\ load' = [load EXCEPT !["request"] = [pc |-> "due"]]
  /\ UNCHANGED <<now, current, history, cache, punctual, raced, starts>>

\* loadInitialCandles
Read(l) ==
  /\ load[l].pc = "due"
  /\ load' = [load EXCEPT ![l] = [pc |-> "read", candles |-> cache]]
  /\ UNCHANGED <<now, current, history, cache, punctual, raced, starts>>

\* Mutant: the candle of the hour is not taken up.
Resumed(candles) == current

\* loadAllCandles goes on with the last candle, if it has not ended.
Resume(candles) ==
  IF candles # <<>> /\ Last(candles).at = now THEN Last(candles) ELSE current

Loaded(l) ==
  /\ load[l].pc = "read"
  /\ history' = load[l].candles
  /\ current' = IF l = "start" THEN Resume(history') ELSE current
  /\ load' = [load EXCEPT ![l] = [pc |-> "done"]]
  /\ UNCHANGED <<now, cache, punctual, raced, starts>>

Restart ==
  /\ starts < MaxStarts /\ starts' = starts + 1
  /\ current' = NoCandle /\ history' = <<>>
  /\ load' = [l \in Loads |-> [pc |-> IF l = "start" THEN "due" ELSE "off"]]
  /\ raced' = FALSE
  /\ UNCHANGED <<now, cache, punctual>>

Next ==
  \/ ClockTicks \/ Request \/ Restart
  \/ \E l \in Loads : Read(l) \/ Loaded(l)
  \/ \E p \in Prices, b \in 1 .. Buckets : Price(p, b)

Spec == Init /\ [][Next]_vars

-----------------------------------------------------------------------------
Candle == [at : 1 .. Buckets, open : Prices, high : Prices]

TypeOK ==
  /\ now \in 1 .. Buckets
  /\ current = NoCandle \/ current \in Candle
  /\ \A candles \in {history, cache} :
       Len(candles) <= MaxCandles /\ \A i \in DOMAIN candles : candles[i] \in Candle
  /\ \A l \in Loads : load[l].pc \in {"off", "due", "read", "done"}
  /\ {punctual, raced} \subseteq BOOLEAN /\ starts \in 1 .. MaxStarts

Ordered(candles) == \A i, j \in DOMAIN candles : i < j => candles[i].at < candles[j].at

\* As long as prices bear the time of the clock, a chart has one candle of each
\* bucket, in the order of time, also when loads and prices cross each other.
ChartIsOrdered == punctual => Ordered(history) /\ Ordered(cache)

Grows(old, new) == new.open = old.open /\ new.high >= old.high

\* As long as prices bear the time of the clock and come when no load is on,
\* what a chart tells of a bucket only grows, over restarts also.
CandlesOnlyGrow ==
  [][punctual /\ ~raced' =>
       \A i \in DOMAIN cache, j \in DOMAIN cache' :
         cache[i].at = cache'[j].at => Grows(cache[i], cache'[j])]_vars
=============================================================================
