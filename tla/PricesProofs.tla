---------------------------- MODULE PricesProofs ----------------------------
(***************************************************************************)
(* Theorems about Prices, for any prices, commands under way, attempts and *)
(* faults. Redis answers in the order it is asked: what the start of the   *)
(* process reads is answered before what it writes, and nothing is served  *)
(* before that write is answered. So no late reading replaces a quote.     *)
(***************************************************************************)
EXTENDS Prices, FunctionTheorems, FiniteSetTheorems, SequenceTheorems, TLAPS

Phases == {"down", "loading", "loaded", "serving"}

Typed ==
  /\ phase \in Phases
  /\ quote \in Quotes \cup {None}
  /\ cached \in Quotes \cup {None}
  /\ shown \in Quotes \cup {None}
  /\ wire \in Seq(Commands)
  /\ window \in BOOLEAN /\ blocked \in BOOLEAN /\ adding \in 0 .. MaxAdds
  /\ faults \in 0 .. MaxFaults /\ punctual \in BOOLEAN

\* The circuit opens after the last attempt, and starts them anew.
SocketTyped ==
  /\ socket.is \in {"closed", "connecting", "open", "silent", "waiting", "circuit"}
  /\ socket.attempt \in 0 .. MaxAttempts + 1
  /\ socket.is # "circuit" => socket.attempt <= MaxAttempts

\* There is room for a sweep when the throttle lets one be asked for.
SweepFits == window \/ adding < MaxAdds

\* So many commands of each kind are on the way.
WireIsBounded == \A op \in {"get", "set"} : Cardinality(Sent(op)) <= MaxWire

\* What the process reads is answered before what it writes.
WireIsOrdered ==
  /\ phase = "down" => wire = <<>>
  /\ phase = "loading" => \A i \in DOMAIN wire : wire[i].op = "get"
  /\ phase = "loaded" => wire = <<>> \/ wire[Len(wire)].op = "set"
  /\ phase = "serving" => \A i \in DOMAIN wire : wire[i].op = "set"

\* What clients were told of while the process started
ToldAtStart ==
  /\ phase \in {"down", "loading"} => shown = None
  /\ phase = "loaded" => shown = None \/ shown.source = "bootstrap"
  /\ phase \in {"loaded", "serving"} => quote # None

IInv ==
  /\ Typed
  /\ SocketTyped
  /\ SweepFits
  /\ WireIsBounded
  /\ WireIsOrdered
  /\ ToldAtStart
  /\ ClientsSeePrice
-----------------------------------------------------------------------------
(***************************************************************************)
(* Quotes                                                                  *)
(***************************************************************************)
LEMMA AgedKeeps ==
  ASSUME NEW q \in Quotes
  PROVE  /\ Aged(q) \in Quotes
         /\ Aged(q).value = q.value /\ Aged(q).source = q.source
<1>1. PICK m : m = (IF q.market \in {"CLOSED", "BOOTSTRAP"} THEN q.market
                    ELSE IF q.market = "STALE" \/ q.age = 2 THEN "STALE" ELSE "LIVE")
  OBVIOUS
<1>2. PICK d : d = (m = "LIVE" /\ (q.delayed \/ q.age = 1))
  OBVIOUS
<1>3. m \in Markets \cup {"STALE", "BOOTSTRAP"} /\ d \in BOOLEAN
  BY <1>1, <1>2 DEF Markets
<1>4. Aged(q) = [q EXCEPT !.market = m, !.delayed = d]
  BY <1>1, <1>2 DEF Aged
<1> QED
  BY <1>3, <1>4 DEF Quotes

LEMMA SameValue ==
  ASSUME NEW q \in Quotes, NEW r \in Quotes, Same(q, r)
  PROVE  q.value = r.value
<1>1. [q EXCEPT !.age = 0].value = q.value /\ [r EXCEPT !.age = 0].value = r.value
  BY DEF Quotes
<1> QED
  BY <1>1 DEF Same

LEMMA OlderKeeps ==
  ASSUME NEW q \in Quotes \cup {None}
  PROVE  /\ Older(q) \in Quotes \cup {None}
         /\ q # None => /\ Older(q) \in Quotes
                        /\ Older(q).value = q.value /\ Older(q).source = q.source
<1>1. CASE q = None
  BY <1>1 DEF Older
<1>2. CASE q # None
  <2>1. PICK a : a = (IF q.age = 2 THEN 2 ELSE q.age + 1)
    OBVIOUS
  <2>2. a \in Ages
    BY <1>2, <2>1 DEF Quotes, Ages
  <2>3. Older(q) = [q EXCEPT !.age = a]
    BY <1>2, <2>1 DEF Older
  <2> QED
    BY <1>2, <2>2, <2>3 DEF Quotes
<1> QED
  BY <1>1, <1>2

LEMMA BootstrapIsQuote ==
  Bootstrap \in Quotes /\ Bootstrap.source = "bootstrap"
BY PricesAssumption DEF Bootstrap, Quote, Quotes, Sources, Ages

-----------------------------------------------------------------------------
(***************************************************************************)
(* Commands on the way to Redis                                            *)
(***************************************************************************)
OpsAt(s, op) == {i \in DOMAIN s : s[i].op = op}

LEMMA OpsAreFinite ==
  ASSUME NEW s \in Seq(Commands), NEW op
  PROVE  IsFiniteSet(OpsAt(s, op)) /\ Cardinality(OpsAt(s, op)) \in Nat
<1>1. IsFiniteSet(1 .. Len(s))
  BY FS_Interval
<1>2. OpsAt(s, op) \in SUBSET (1 .. Len(s))
  BY DEF OpsAt
<1> QED
  BY <1>1, <1>2, FS_Subset, FS_CardinalityType

LEMMA OpsAfterAppend ==
  ASSUME NEW s \in Seq(Commands), NEW c \in Commands, NEW op
  PROVE  /\ c.op # op => OpsAt(Append(s, c), op) = OpsAt(s, op)
         /\ Cardinality(OpsAt(Append(s, c), op)) <= Cardinality(OpsAt(s, op)) + 1
<1>1. /\ Append(s, c) \in Seq(Commands)
      /\ Len(Append(s, c)) = Len(s) + 1
      /\ \A i \in 1 .. Len(s) : Append(s, c)[i] = s[i]
      /\ Append(s, c)[Len(s) + 1] = c
  BY AppendProperties
<1>2. DOMAIN Append(s, c) = 1 .. Len(s) + 1 /\ DOMAIN s = 1 .. Len(s) /\ Len(s) \in Nat
  BY <1>1
<1>3. c.op # op => OpsAt(Append(s, c), op) = OpsAt(s, op)
  BY <1>1, <1>2 DEF OpsAt
<1>4. c.op = op => OpsAt(Append(s, c), op) = OpsAt(s, op) \cup {Len(s) + 1}
  BY <1>1, <1>2 DEF OpsAt
<1>5. PICK S, T, n : S = OpsAt(s, op) /\ T = OpsAt(Append(s, c), op) /\ n = Len(s) + 1
  OBVIOUS
<1>6. IsFiniteSet(S) /\ Cardinality(S) \in Nat
  BY <1>5, OpsAreFinite
<1>7. Cardinality(S \cup {n}) <= Cardinality(S) + 1
  <2>1. Cardinality(S \cup {n}) = IF n \in S THEN Cardinality(S) ELSE Cardinality(S) + 1
    BY <1>6, FS_AddElement
  <2> QED
    BY <1>6, <2>1
<1>8. T = S \/ T = S \cup {n}
  BY <1>3, <1>4, <1>5
<1>9. Cardinality(T) <= Cardinality(S) + 1
  <2>1. CASE T = S
    BY <1>6, <2>1
  <2>2. CASE T = S \cup {n}
    BY <1>7, <2>2
  <2> QED
    BY <1>8, <2>1, <2>2
<1> QED
  BY <1>3, <1>5, <1>9

LEMMA OpsAfterTail ==
  ASSUME NEW s \in Seq(Commands), s # <<>>, NEW op
  PROVE  Cardinality(OpsAt(Tail(s), op)) <= Cardinality(OpsAt(s, op))
<1>1. /\ Tail(s) \in Seq(Commands)
      /\ Len(Tail(s)) = Len(s) - 1
      /\ \A i \in 1 .. Len(Tail(s)) : Tail(s)[i] = s[i + 1]
  BY HeadTailProperties
<1>2. PICK t : t = Tail(s)
  OBVIOUS
<1>3. DOMAIN t = 1 .. Len(t) /\ DOMAIN s = 1 .. Len(s) /\ Len(s) \in Nat /\ Len(t) \in Nat
  BY <1>1, <1>2
<1>4. PICK S, T : S = OpsAt(t, op) /\ T = OpsAt(s, op)
  OBVIOUS
<1>5. \A i \in S : i \in Nat /\ i + 1 \in T
  BY <1>1, <1>2, <1>3, <1>4 DEF OpsAt
<1>6. PICK f : f = [i \in S |-> i + 1]
  OBVIOUS
<1>7. f \in [S -> T] /\ \A a, b \in S : f[a] = f[b] => a = b
  BY <1>5, <1>6
<1>8. f \in Injection(S, T)
  BY <1>7, Fun_IsInj
<1>9. Cardinality(S) <= Cardinality(T)
  BY <1>4, <1>8, OpsAreFinite, FS_Injection
<1> QED
  BY <1>2, <1>4, <1>9

LEMMA CommandKinds ==
  ASSUME NEW c \in Commands
  PROVE  /\ c.op \in {"get", "set"}
         /\ c.op = "set" => c.quote \in Quotes
<1>1. CASE c \in [op : {"get"}]
  BY <1>1
<1>2. CASE c \in [op : {"set"}, quote : Quotes]
  BY <1>2
<1> QED
  BY <1>1, <1>2 DEF Commands

\* Two kinds of commands, so many of each: the way to Redis is never longer.
LEMMA WireIsShort ==
  ASSUME wire \in Seq(Commands), WireIsBounded
  PROVE  Len(wire) <= 2 * MaxWire
<1>1. PICK G, S, n : G = Sent("get") /\ S = Sent("set") /\ n = Len(wire)
  OBVIOUS
<1>2. n \in Nat /\ DOMAIN wire = 1 .. n
  BY <1>1
<1>3. G = OpsAt(wire, "get") /\ S = OpsAt(wire, "set")
  BY <1>1 DEF Sent, OpsAt
<1>4. /\ IsFiniteSet(G) /\ Cardinality(G) \in Nat
      /\ IsFiniteSet(S) /\ Cardinality(S) \in Nat
  BY <1>3, OpsAreFinite
<1>5. Cardinality(G) <= MaxWire /\ Cardinality(S) <= MaxWire
  BY <1>1 DEF WireIsBounded
<1>6. 1 .. n = G \cup S
  <2>1. \A i \in 1 .. n : wire[i] \in Commands
    BY <1>1, <1>2
  <2> QED
    BY <1>2, <1>3, <2>1, CommandKinds DEF OpsAt
<1>7. Cardinality(1 .. n) = n
  BY <1>2, FS_Interval
<1>8. IsFiniteSet(G \cap S)
  BY <1>4, FS_Subset
<1>9. Cardinality(G \cap S) \in Nat
  BY <1>8, FS_CardinalityType
<1>10. Cardinality(G \cup S) = Cardinality(G) + Cardinality(S) - Cardinality(G \cap S)
  BY <1>4, FS_Union
<1>11. MaxWire \in Nat
  BY PricesAssumption
<1>12. n = Cardinality(G) + Cardinality(S) - Cardinality(G \cap S)
  BY <1>6, <1>7, <1>10
<1> QED
  BY <1>1, <1>2, <1>4, <1>5, <1>9, <1>11, <1>12
LEMMA SendKeeps ==
  ASSUME wire \in Seq(Commands), WireIsBounded, NEW c \in Commands, Send(c)
  PROVE  /\ wire' \in Seq(Commands)
         /\ Len(wire') = Len(wire) + 1 /\ wire'[Len(wire) + 1] = c
         /\ \A i \in DOMAIN wire : wire'[i] = wire[i]
         /\ WireIsBounded'
<1>1. wire' = Append(wire, c) /\ Cardinality(Sent(c.op)) < MaxWire
  BY DEF Send
<1>2. /\ wire' \in Seq(Commands)
      /\ Len(wire') = Len(wire) + 1
      /\ \A i \in 1 .. Len(wire) : wire'[i] = wire[i]
      /\ wire'[Len(wire) + 1] = c
  BY <1>1, AppendProperties
<1>3. ASSUME NEW op \in {"get", "set"}
      PROVE  Cardinality(Sent(op)') <= MaxWire
  <2>1. PICK S, T : S = Sent(op) /\ T = Sent(op)'
    OBVIOUS
  <2>2. S = OpsAt(wire, op) /\ T = OpsAt(Append(wire, c), op)
    BY <1>1, <2>1 DEF Sent, OpsAt
  <2>3. Cardinality(S) \in Nat /\ Cardinality(T) \in Nat
    BY <1>1, <1>2, <2>2, OpsAreFinite
  <2>4. c.op # op => T = S
    BY <2>2, OpsAfterAppend
  <2>5. Cardinality(T) <= Cardinality(S) + 1
    BY <2>2, OpsAfterAppend
  <2>6. Cardinality(S) <= MaxWire
    BY <2>1 DEF WireIsBounded
  <2>7. MaxWire \in Nat
    BY PricesAssumption
  <2>8. CASE c.op = op
    <3>1. Cardinality(S) < MaxWire
      BY <1>1, <2>1, <2>8
    <3> QED
      BY <2>1, <2>3, <2>5, <2>7, <3>1
  <2>9. CASE c.op # op
    BY <2>1, <2>4, <2>6, <2>9
  <2> QED
    BY <2>8, <2>9
<1>4. WireIsBounded'
  BY <1>3 DEF WireIsBounded, Sent
<1> QED
  BY <1>2, <1>4

LEMMA TailKeeps ==
  ASSUME wire \in Seq(Commands), WireIsBounded, wire # <<>>, wire' = Tail(wire)
  PROVE  /\ wire' \in Seq(Commands)
         /\ Head(wire) \in Commands /\ Head(wire) = wire[1]
         /\ Len(wire) \in Nat \ {0} /\ Len(wire') = Len(wire) - 1
         /\ \A i \in DOMAIN wire' : i + 1 \in DOMAIN wire /\ wire'[i] = wire[i + 1]
         /\ WireIsBounded'
<1>1. /\ wire' \in Seq(Commands)
      /\ Len(wire') = Len(wire) - 1
      /\ \A i \in 1 .. Len(wire') : wire'[i] = wire[i + 1]
      /\ Head(wire) \in Commands
  BY HeadTailProperties
<1>2. Len(wire) \in Nat \ {0} /\ Head(wire) = wire[1]
  BY EmptySeq
<1>3. DOMAIN wire' = 1 .. Len(wire') /\ DOMAIN wire = 1 .. Len(wire)
  BY <1>1
<1>4. \A i \in DOMAIN wire' : i + 1 \in DOMAIN wire /\ wire'[i] = wire[i + 1]
  BY <1>1, <1>2, <1>3
<1>5. ASSUME NEW op \in {"get", "set"}
      PROVE  Cardinality(Sent(op)') <= MaxWire
  <2>1. PICK S, T : S = Sent(op) /\ T = Sent(op)'
    OBVIOUS
  <2>2. S = OpsAt(wire, op) /\ T = OpsAt(Tail(wire), op)
    BY <2>1 DEF Sent, OpsAt
  <2>3. Cardinality(S) \in Nat /\ Cardinality(T) \in Nat
    BY <1>1, <2>2, OpsAreFinite
  <2>4. Cardinality(T) <= Cardinality(S)
    BY <2>2, OpsAfterTail
  <2>5. Cardinality(S) <= MaxWire
    BY <2>1 DEF WireIsBounded
  <2> QED
    BY <2>1, <2>3, <2>4, <2>5, PricesAssumption
<1>6. WireIsBounded'
  BY <1>5 DEF WireIsBounded, Sent
<1> QED
  BY <1>1, <1>2, <1>4, <1>6

\* Quotes on the way grow old with the others.
LEMMA TimeKeepsWire ==
  ASSUME wire \in Seq(Commands), WireIsBounded, TimePasses
  PROVE  /\ wire' \in Seq(Commands)
         /\ Len(wire') = Len(wire) /\ DOMAIN wire' = DOMAIN wire
         /\ \A i \in DOMAIN wire : wire'[i].op = wire[i].op
         /\ WireIsBounded'
<1>1. wire' = [i \in DOMAIN wire |->
         IF wire[i].op = "set" THEN [wire[i] EXCEPT !.quote = Older(@)] ELSE wire[i]]
  BY DEF TimePasses
<1>2. DOMAIN wire = 1 .. Len(wire) /\ Len(wire) \in Nat
  OBVIOUS
<1>3. ASSUME NEW i \in DOMAIN wire
      PROVE  wire'[i] \in Commands /\ wire'[i].op = wire[i].op
  <2>1. PICK c : c = wire[i]
    OBVIOUS
  <2>2. c \in Commands
    BY <1>2, <2>1
  <2>3. CASE c.op = "set"
    <3>1. c \in [op : {"set"}, quote : Quotes]
      BY <2>2, <2>3 DEF Commands
    <3>2. PICK q : q = c.quote
      OBVIOUS
    <3>3. q \in Quotes
      BY <3>1, <3>2
    <3>4. Older(q) \in Quotes
      BY <3>3, OlderKeeps, NoneAssumption
    <3>5. wire'[i] = [c EXCEPT !.quote = Older(q)]
      BY <1>1, <2>1, <2>3, <3>2
    <3>6. [c EXCEPT !.quote = Older(q)] \in [op : {"set"}, quote : Quotes]
      BY <3>1, <3>4
    <3> QED
      BY <2>1, <2>3, <3>5, <3>6 DEF Commands
  <2>4. CASE c.op # "set"
    BY <1>1, <2>1, <2>2, <2>4
  <2> QED
    BY <2>3, <2>4
<1>4. wire' \in [1 .. Len(wire) -> Commands]
  BY <1>1, <1>2, <1>3
<1>5. wire' \in Seq(Commands) /\ Len(wire') = Len(wire)
  BY <1>2, <1>4
<1>6. DOMAIN wire' = DOMAIN wire
  BY <1>1
<1>7. \A op : Sent(op)' = Sent(op)
  BY <1>3, <1>6 DEF Sent
<1>8. WireIsBounded'
  BY <1>7 DEF WireIsBounded
<1> QED
  BY <1>3, <1>5, <1>6, <1>8
-----------------------------------------------------------------------------
(***************************************************************************)
(* upsertPrice                                                             *)
(***************************************************************************)
LEMMA AskKeeps ==
  ASSUME Typed, SweepFits, AskForSweep
  PROVE  /\ window' \in BOOLEAN /\ blocked' \in BOOLEAN /\ adding' \in 0 .. MaxAdds
         /\ SweepFits'
<1>1. CASE blocked \/ window
  BY <1>1 DEF AskForSweep, Typed, SweepFits, sweepVars
<1>2. CASE ~(blocked \/ window)
  BY <1>2, PricesAssumption DEF AskForSweep, Typed, SweepFits
<1> QED
  BY <1>1, <1>2

LEMMA UpsertKeeps ==
  ASSUME Typed, SweepFits, WireIsBounded, NEW q \in Quotes, Upsert(q)
  PROVE  /\ quote' \in Quotes /\ quote'.value = q.value /\ quote'.source = q.source
         /\ shown' = quote' \/ (shown' = shown /\ quote # None /\ quote.value = q.value)
         /\ window' \in BOOLEAN /\ blocked' \in BOOLEAN /\ adding' \in 0 .. MaxAdds
         /\ SweepFits'
         /\ Send([op |-> "set", quote |-> quote'])
         /\ [op |-> "set", quote |-> quote'] \in Commands
<1>1. PICK new : new = Aged(q)
  OBVIOUS
<1>2. PICK tell : tell = (quote = None \/ ~Same(Aged(quote), new))
  OBVIOUS
<1>3. /\ quote' = new
      /\ shown' = IF tell THEN new ELSE shown
      /\ IF tell /\ new.market = "LIVE" THEN AskForSweep ELSE UNCHANGED sweepVars
      /\ Send([op |-> "set", quote |-> new])
  BY <1>1, <1>2 DEF Upsert
<1>4. new \in Quotes /\ new.value = q.value /\ new.source = q.source
  BY <1>1, AgedKeeps
<1>5. shown' = new \/ (shown' = shown /\ quote # None /\ quote.value = new.value)
  <2>1. CASE quote = None \/ ~Same(Aged(quote), new)
    BY <1>2, <1>3, <2>1
  <2>2. CASE quote # None /\ Same(Aged(quote), new)
    <3>1. quote \in Quotes
      BY <2>2 DEF Typed
    <3>2. Aged(quote) \in Quotes /\ Aged(quote).value = quote.value
      BY <3>1, AgedKeeps
    <3>3. Aged(quote).value = new.value
      BY <1>4, <2>2, <3>2, SameValue
    <3> QED
      BY <1>2, <1>3, <2>2, <3>2, <3>3
  <2> QED
    BY <2>1, <2>2
<1>6. /\ window' \in BOOLEAN /\ blocked' \in BOOLEAN /\ adding' \in 0 .. MaxAdds
      /\ SweepFits'
  <2>1. CASE AskForSweep
    BY <2>1, AskKeeps
  <2>2. CASE UNCHANGED sweepVars
    BY <2>2 DEF sweepVars, Typed, SweepFits
  <2> QED
    BY <1>3, <2>1, <2>2
<1>7. [op |-> "set", quote |-> new] \in Commands
  BY <1>4 DEF Commands
<1> QED
  BY <1>3, <1>4, <1>5, <1>6, <1>7

LEMMA ReceiveStep ==
  ASSUME IInv, NEW q \in Quotes, Receive(q)
  PROVE  /\ IInv'
         /\ quote'.value # quote.value => shown' # None /\ shown'.value = quote'.value
<1> USE DEF IInv
<1>1. /\ phase = "serving" /\ phase' = phase /\ Upsert(q)
      /\ UNCHANGED <<phase, cached, socket, faults, punctual>>
  BY DEF Receive
<1>2. /\ quote' \in Quotes /\ quote'.value = q.value
      /\ shown' = quote' \/ (shown' = shown /\ quote # None /\ quote.value = q.value)
      /\ window' \in BOOLEAN /\ blocked' \in BOOLEAN /\ adding' \in 0 .. MaxAdds
      /\ SweepFits'
      /\ Send([op |-> "set", quote |-> quote'])
      /\ [op |-> "set", quote |-> quote'] \in Commands
  BY <1>1, UpsertKeeps
<1>3. PICK c : c = [op |-> "set", quote |-> quote']
  OBVIOUS
<1>4. /\ wire' \in Seq(Commands)
      /\ Len(wire') = Len(wire) + 1 /\ wire'[Len(wire) + 1] = c
      /\ \A i \in DOMAIN wire : wire'[i] = wire[i]
      /\ WireIsBounded'
  BY <1>2, <1>3, SendKeeps DEF Typed
<1>5. quote' # None
  BY <1>2, NoneAssumption
<1>6. Typed'
  BY <1>1, <1>2, <1>4 DEF Typed
<1>7. SocketTyped'
  BY <1>1 DEF SocketTyped
<1>8. WireIsOrdered'
  <2>1. \A i \in DOMAIN wire' : i \in DOMAIN wire \/ i = Len(wire) + 1
    BY <1>4 DEF Typed
  <2> QED
    BY <1>1, <1>3, <1>4, <2>1 DEF WireIsOrdered
<1>9. ToldAtStart'
  BY <1>1, <1>5 DEF ToldAtStart
<1>10. ClientsSeePrice'
  BY <1>1, <1>2 DEF ClientsSeePrice
<1> QED
  BY <1>2, <1>4, <1>5, <1>6, <1>7, <1>8, <1>9, <1>10
-----------------------------------------------------------------------------
(***************************************************************************)
(* The steps                                                               *)
(***************************************************************************)
LEMMA MonitorStep ==
  ASSUME IInv, Monitor
  PROVE  IInv' /\ quote'.value = quote.value
<1> USE DEF IInv
<1>1. /\ phase = "serving" /\ phase' = phase
      /\ quote # None /\ quote' = Aged(quote) /\ shown' = quote'
      /\ Send([op |-> "set", quote |-> quote'])
      /\ UNCHANGED <<phase, cached, socket, sweepVars, faults, punctual>>
  BY DEF Monitor
<1>2. quote \in Quotes
  BY <1>1 DEF Typed
<1>3. quote' \in Quotes /\ quote'.value = quote.value
  BY <1>1, <1>2, AgedKeeps
<1>4. PICK c : c = [op |-> "set", quote |-> quote']
  OBVIOUS
<1>5. c \in Commands
  BY <1>3, <1>4 DEF Commands
<1>6. /\ wire' \in Seq(Commands)
      /\ Len(wire') = Len(wire) + 1 /\ wire'[Len(wire) + 1] = c
      /\ \A i \in DOMAIN wire : wire'[i] = wire[i]
      /\ WireIsBounded'
  BY <1>1, <1>4, <1>5, SendKeeps DEF Typed
<1>7. quote' # None
  BY <1>3, NoneAssumption
<1>8. Typed' /\ SocketTyped' /\ SweepFits'
  BY <1>1, <1>3, <1>6 DEF Typed, SocketTyped, SweepFits, sweepVars
<1>9. WireIsOrdered'
  <2>1. \A i \in DOMAIN wire' : i \in DOMAIN wire \/ i = Len(wire) + 1
    BY <1>6 DEF Typed
  <2> QED
    BY <1>1, <1>4, <1>6, <2>1 DEF WireIsOrdered
<1>10. ToldAtStart' /\ ClientsSeePrice'
  BY <1>1, <1>7 DEF ToldAtStart, ClientsSeePrice
<1> QED
  BY <1>3, <1>6, <1>8, <1>9, <1>10

LEMMA StartStep ==
  ASSUME IInv, Start
  PROVE  IInv'
<1> USE DEF IInv
<1>1. /\ phase = "down" /\ phase' = "loading"
      /\ UNCHANGED <<quote, cached, wire, shown, socket, window, blocked, adding, faults, punctual>>
  BY DEF Start, sweepVars
<1>2. Typed' /\ SocketTyped' /\ SweepFits'
  BY <1>1 DEF Typed, Phases, SocketTyped, SweepFits
<1>3. WireIsBounded'
  BY <1>1 DEF WireIsBounded, Sent
<1>4. WireIsOrdered' /\ ToldAtStart' /\ ClientsSeePrice'
  BY <1>1 DEF WireIsOrdered, ToldAtStart, ClientsSeePrice
<1> QED
  BY <1>2, <1>3, <1>4

LEMMA LoadStep ==
  ASSUME IInv, Load
  PROVE  IInv'
<1> USE DEF IInv
<1>1. /\ phase = "loading" /\ phase' = "loaded" /\ Upsert(Bootstrap)
      /\ UNCHANGED <<cached, socket, faults, punctual>>
  BY DEF Load
<1>2. PICK q : q = Bootstrap
  OBVIOUS
<1>3. q \in Quotes /\ q.source = "bootstrap" /\ Upsert(q)
  BY <1>1, <1>2, BootstrapIsQuote
<1>4. /\ quote' \in Quotes /\ quote'.source = "bootstrap"
      /\ shown' = quote' \/ shown' = shown
      /\ window' \in BOOLEAN /\ blocked' \in BOOLEAN /\ adding' \in 0 .. MaxAdds
      /\ SweepFits'
      /\ Send([op |-> "set", quote |-> quote'])
      /\ [op |-> "set", quote |-> quote'] \in Commands
  BY <1>3, UpsertKeeps
<1>5. PICK c : c = [op |-> "set", quote |-> quote']
  OBVIOUS
<1>6. /\ wire' \in Seq(Commands)
      /\ Len(wire') = Len(wire) + 1 /\ wire'[Len(wire) + 1] = c
      /\ WireIsBounded'
  BY <1>4, <1>5, SendKeeps DEF Typed
<1>7. quote' # None
  BY <1>4, NoneAssumption
<1>8. Typed' /\ SocketTyped'
  BY <1>1, <1>4, <1>6 DEF Typed, Phases, SocketTyped
<1>9. WireIsOrdered'
  BY <1>1, <1>5, <1>6 DEF WireIsOrdered
<1>10. ToldAtStart' /\ ClientsSeePrice'
  BY <1>1, <1>4, <1>7 DEF ToldAtStart, ClientsSeePrice
<1> QED
  BY <1>4, <1>6, <1>8, <1>9, <1>10

\* Nothing is on the way when providers start: what was read has been
\* answered, because what was written after it has been.
LEMMA StartProvidersStep ==
  ASSUME IInv, StartProviders
  PROVE  IInv'
<1> USE DEF IInv
<1>1. /\ phase = "loaded" /\ phase' = "serving" /\ Sent("set") = {}
      /\ socket' = [is |-> "connecting", attempt |-> 0]
      /\ UNCHANGED <<quote, cached, wire, shown, window, blocked, adding, faults, punctual>>
  BY DEF StartProviders, Serve, sweepVars
<1>2. wire = <<>>
  <2>1. SUFFICES ASSUME wire # <<>> PROVE FALSE
    OBVIOUS
  <2>2. wire \in Seq(Commands)
    BY DEF Typed
  <2>3. Len(wire) \in DOMAIN wire
    BY <2>1, <2>2, EmptySeq
  <2>4. wire[Len(wire)].op = "set"
    BY <1>1, <2>1 DEF WireIsOrdered
  <2> QED
    BY <1>1, <2>3, <2>4 DEF Sent
<1>3. Typed' /\ SweepFits'
  BY <1>1 DEF Typed, Phases, SweepFits
<1>4. SocketTyped'
  BY <1>1, PricesAssumption DEF SocketTyped
<1>5. WireIsBounded'
  BY <1>1 DEF WireIsBounded, Sent
<1>6. WireIsOrdered'
  BY <1>1, <1>2 DEF WireIsOrdered
<1>7. ToldAtStart' /\ ClientsSeePrice'
  BY <1>1 DEF ToldAtStart, ClientsSeePrice
<1> QED
  BY <1>3, <1>4, <1>5, <1>6, <1>7

LEMMA LookStep ==
  ASSUME IInv, Look
  PROVE  IInv'
<1> USE DEF IInv
<1>1. /\ phase = "loading" /\ phase' = phase
      /\ Send([op |-> "get"])
      /\ UNCHANGED <<quote, cached, shown, socket, window, blocked, adding, faults, punctual>>
  BY DEF Look, sweepVars
<1>2. PICK c : c = [op |-> "get"]
  OBVIOUS
<1>3. c \in Commands /\ c.op = "get"
  BY <1>2 DEF Commands
<1>4. /\ wire' \in Seq(Commands)
      /\ Len(wire') = Len(wire) + 1 /\ wire'[Len(wire) + 1] = c
      /\ \A i \in DOMAIN wire : wire'[i] = wire[i]
      /\ WireIsBounded'
  BY <1>1, <1>2, <1>3, SendKeeps DEF Typed
<1>5. Typed' /\ SocketTyped' /\ SweepFits'
  BY <1>1, <1>4 DEF Typed, SocketTyped, SweepFits
<1>6. WireIsOrdered'
  <2>1. \A i \in DOMAIN wire' : i \in DOMAIN wire \/ i = Len(wire) + 1
    BY <1>4 DEF Typed
  <2> QED
    BY <1>1, <1>3, <1>4, <2>1 DEF WireIsOrdered
<1>7. ToldAtStart' /\ ClientsSeePrice'
  BY <1>1 DEF ToldAtStart, ClientsSeePrice
<1> QED
  BY <1>4, <1>5, <1>6, <1>7
\* An answer of Redis replaces the quote only before providers start.
LEMMA WireShrinks ==
  ASSUME IInv, wire # <<>>, wire' = Tail(wire), UNCHANGED phase
  PROVE  /\ wire' \in Seq(Commands)
         /\ WireIsBounded' /\ WireIsOrdered'
         /\ Head(wire) \in Commands
         /\ phase # "down"
         /\ phase = "serving" => Head(wire).op = "set"
<1> USE DEF IInv
<1>1. /\ wire' \in Seq(Commands)
      /\ Head(wire) \in Commands /\ Head(wire) = wire[1]
      /\ Len(wire) \in Nat \ {0} /\ Len(wire') = Len(wire) - 1
      /\ \A i \in DOMAIN wire' : i + 1 \in DOMAIN wire /\ wire'[i] = wire[i + 1]
      /\ WireIsBounded'
  BY TailKeeps DEF Typed
<1>2. DOMAIN wire = 1 .. Len(wire) /\ DOMAIN wire' = 1 .. Len(wire')
  BY <1>1 DEF Typed
<1>3. phase = "serving" => Head(wire).op = "set"
  BY <1>1, <1>2 DEF WireIsOrdered
<1>4. phase = "loaded" => wire' = <<>> \/ wire'[Len(wire')].op = "set"
  <2>1. SUFFICES ASSUME phase = "loaded", wire' # <<>>
                 PROVE  wire'[Len(wire')].op = "set"
    OBVIOUS
  <2>2. Len(wire') \in Nat \ {0}
    BY <1>1, <2>1, EmptySeq
  <2>3. wire'[Len(wire')] = wire[Len(wire)]
    BY <1>1, <1>2, <2>2
  <2> QED
    BY <2>1, <2>3 DEF WireIsOrdered
<1>5. WireIsOrdered'
  BY <1>1, <1>4 DEF WireIsOrdered
<1> QED
  BY <1>1, <1>3, <1>5 DEF WireIsOrdered

LEMMA AnswerStep ==
  ASSUME IInv, Answer
  PROVE  IInv' /\ (phase = "serving" => quote' = quote)
<1> USE DEF IInv
<1>1. /\ wire # <<>> /\ wire' = Tail(wire)
      /\ UNCHANGED <<phase, shown, socket, window, blocked, adding, faults, punctual>>
  BY DEF Answer, sweepVars
<1>2. /\ wire' \in Seq(Commands)
      /\ WireIsBounded' /\ WireIsOrdered'
      /\ Head(wire) \in Commands
      /\ phase # "down"
      /\ phase = "serving" => Head(wire).op = "set"
  BY <1>1, WireShrinks
<1>3. PICK c : c = Head(wire)
  OBVIOUS
<1>4. c \in Commands
  BY <1>2, <1>3
<1>5. \/ c.op = "set" /\ cached' = c.quote /\ quote' = quote
      \/ c.op # "set" /\ cached' = cached /\ quote' = Bootstrap
      \/ c.op # "set" /\ cached' = cached /\ cached # None /\ quote' = cached
  BY <1>3 DEF Answer
<1>6. /\ quote' \in Quotes \cup {None} /\ cached' \in Quotes \cup {None}
      /\ quote' = quote \/ quote' # None
  <2>1. CASE c.op = "set" /\ cached' = c.quote /\ quote' = quote
    BY <1>4, <2>1, CommandKinds DEF Typed
  <2>2. CASE cached' = cached /\ quote' = Bootstrap
    BY <2>2, BootstrapIsQuote, NoneAssumption DEF Typed
  <2>3. CASE cached' = cached /\ cached # None /\ quote' = cached
    BY <2>3 DEF Typed
  <2> QED
    BY <1>5, <2>1, <2>2, <2>3
<1>7. phase = "serving" => quote' = quote
  BY <1>2, <1>3, <1>5
<1>8. Typed' /\ SocketTyped' /\ SweepFits'
  BY <1>1, <1>2, <1>6 DEF Typed, SocketTyped, SweepFits
<1>9. ToldAtStart'
  BY <1>1, <1>6 DEF ToldAtStart
<1>10. ClientsSeePrice'
  BY <1>1, <1>7 DEF ClientsSeePrice
<1> QED
  BY <1>2, <1>7, <1>8, <1>9, <1>10

LEMMA RefuseStep ==
  ASSUME IInv, Refuse
  PROVE  IInv' /\ (phase = "serving" => quote' = quote)
<1> USE DEF IInv
<1>1. /\ wire # <<>> /\ wire' = Tail(wire)
      /\ faults < MaxFaults /\ faults' = faults + 1
      /\ UNCHANGED <<phase, cached, shown, socket, window, blocked, adding, punctual>>
  BY DEF Refuse, Fault, sweepVars
<1>2. /\ wire' \in Seq(Commands)
      /\ WireIsBounded' /\ WireIsOrdered'
      /\ phase = "serving" => Head(wire).op = "set"
  BY <1>1, WireShrinks
<1>3. \/ Head(wire).op = "set" /\ quote' = quote
      \/ Head(wire).op # "set" /\ quote' = Bootstrap
  BY DEF Refuse
<1>4. quote' \in Quotes \cup {None} /\ (quote' = quote \/ quote' # None)
  BY <1>3, BootstrapIsQuote, NoneAssumption DEF Typed
<1>5. phase = "serving" => quote' = quote
  BY <1>2, <1>3
<1>6. faults' \in 0 .. MaxFaults
  BY <1>1, PricesAssumption DEF Typed
<1>7. Typed' /\ SocketTyped' /\ SweepFits'
  BY <1>1, <1>2, <1>4, <1>6 DEF Typed, SocketTyped, SweepFits
<1>8. ToldAtStart'
  BY <1>1, <1>4 DEF ToldAtStart
<1>9. ClientsSeePrice'
  BY <1>1, <1>5 DEF ClientsSeePrice
<1> QED
  BY <1>2, <1>5, <1>7, <1>8, <1>9

LEMMA CrashStep ==
  ASSUME IInv, Crash
  PROVE  IInv' /\ phase' = "down"
<1> USE DEF IInv
<1>1. /\ phase' = "down" /\ quote' = None /\ wire' = <<>> /\ shown' = None
      /\ cached' \in {cached} \cup {wire[i].quote : i \in Sent("set")}
      /\ socket' = [is |-> "closed", attempt |-> 0]
      /\ window' = FALSE /\ blocked' = FALSE /\ adding' = 0
      /\ faults < MaxFaults /\ faults' = faults + 1 /\ punctual' = punctual
  BY DEF Crash, Fault
<1>2. \A i \in Sent("set") : wire[i].quote \in Quotes
  BY CommandKinds DEF Sent, Typed
<1>3. cached' \in Quotes \cup {None}
  BY <1>1, <1>2 DEF Typed
<1>4. faults' \in 0 .. MaxFaults
  BY <1>1, PricesAssumption DEF Typed
<1>5. 0 \in 0 .. MaxAdds /\ 0 < MaxAdds /\ 0 \in 0 .. MaxAttempts + 1 /\ 0 <= MaxAttempts
  BY PricesAssumption
<1>6. wire' \in Seq(Commands)
  BY <1>1
<1>7. Typed'
  BY <1>1, <1>3, <1>4, <1>5, <1>6 DEF Typed, Phases
<1>8. SocketTyped' /\ SweepFits'
  BY <1>1, <1>5 DEF SocketTyped, SweepFits
<1>9. WireIsBounded'
  <2>1. \A op : OpsAt(<<>>, op) = {}
    BY DEF OpsAt
  <2>2. \A op : Sent(op)' = {}
    BY <1>1, <2>1 DEF Sent, OpsAt
  <2>3. Cardinality({}) <= MaxWire
    BY FS_EmptySet, PricesAssumption
  <2> QED
    BY <2>2, <2>3 DEF WireIsBounded
<1>10. WireIsOrdered' /\ ToldAtStart' /\ ClientsSeePrice'
  BY <1>1 DEF WireIsOrdered, ToldAtStart, ClientsSeePrice
<1> QED
  BY <1>1, <1>7, <1>8, <1>9, <1>10

LEMMA TimePassesStep ==
  ASSUME IInv, TimePasses
  PROVE  IInv' /\ (phase = "serving" => quote'.value = quote.value)
<1> USE DEF IInv
<1>1. /\ quote' = Older(quote) /\ cached' = Older(cached)
      /\ UNCHANGED <<phase, shown, socket, window, blocked, adding, faults, punctual>>
  BY DEF TimePasses, sweepVars
<1>2. /\ wire' \in Seq(Commands)
      /\ Len(wire') = Len(wire) /\ DOMAIN wire' = DOMAIN wire
      /\ \A i \in DOMAIN wire : wire'[i].op = wire[i].op
      /\ WireIsBounded'
  BY TimeKeepsWire DEF Typed
<1>3. /\ quote' \in Quotes \cup {None}
      /\ quote # None => quote' \in Quotes /\ quote'.value = quote.value
      /\ cached' \in Quotes \cup {None}
  BY <1>1, OlderKeeps DEF Typed
<1>4. Typed' /\ SocketTyped' /\ SweepFits'
  BY <1>1, <1>2, <1>3 DEF Typed, SocketTyped, SweepFits
<1>5. WireIsOrdered'
  <2>1. wire = <<>> => wire' = <<>>
    BY <1>2, EmptySeq DEF Typed
  <2>2. wire # <<>> => Len(wire) \in DOMAIN wire
    BY EmptySeq DEF Typed
  <2> QED
    BY <1>1, <1>2, <2>1, <2>2 DEF WireIsOrdered
<1>6. ToldAtStart' /\ ClientsSeePrice'
  BY <1>1, <1>3, NoneAssumption DEF ToldAtStart, ClientsSeePrice
<1>7. phase = "serving" => quote'.value = quote.value
  BY <1>3 DEF ToldAtStart
<1> QED
  BY <1>2, <1>4, <1>5, <1>6, <1>7

\* The socket and the queue do not touch quotes.
LEMMA SocketOrQueueStep ==
  ASSUME IInv, SocketStep \/ WindowEnds \/ SweepAdded \/ SweepNotAdded \/ PauseEnds
  PROVE  IInv' /\ quote' = quote
<1> USE DEF IInv
<1>1. UNCHANGED <<phase, quote, cached, wire, shown, punctual>>
  BY DEF SocketStep, SocketOpens, SocketCloses, Reconnect, SocketFallsSilent, SocketBecomes,
         WindowEnds, SweepAdded, SweepNotAdded, PauseEnds, QueueBecomes
<1>2. MaxAttempts \in Nat /\ MaxFaults \in Nat /\ MaxAdds \in Nat \ {0}
  BY PricesAssumption
<1>3. CASE SocketStep
  <2>1. window' = window /\ blocked' = blocked /\ adding' = adding
    BY <1>3 DEF SocketStep, SocketOpens, SocketCloses, Reconnect, SocketFallsSilent,
                SocketBecomes, sweepVars
  <2>2. faults' \in 0 .. MaxFaults
    BY <1>2, <1>3 DEF SocketStep, SocketOpens, SocketCloses, Reconnect, SocketFallsSilent,
                      Fault, Typed
  <2>3. SocketTyped'
    BY <1>2, <1>3 DEF SocketStep, SocketOpens, SocketCloses, Reconnect, SocketFallsSilent,
                      SocketBecomes, SocketTyped
  <2> QED
    BY <1>1, <2>1, <2>2, <2>3 DEF Typed, SweepFits, WireIsBounded, Sent, WireIsOrdered,
                                  ToldAtStart, ClientsSeePrice
<1>4. CASE WindowEnds \/ SweepAdded \/ SweepNotAdded \/ PauseEnds
  <2>1. socket' = socket
    BY <1>4 DEF WindowEnds, SweepAdded, SweepNotAdded, PauseEnds, QueueBecomes
  <2>2. \/ window' = FALSE /\ blocked' = blocked /\ adding' = adding /\ adding < MaxAdds
        \/ window' = window /\ blocked' \in BOOLEAN /\ adding' = adding - 1 /\ adding > 0
        \/ window' = window /\ blocked' = FALSE /\ adding' = adding
    <3>1. CASE WindowEnds
      BY <3>1 DEF WindowEnds, QueueBecomes
    <3>2. CASE SweepAdded
      BY <3>2 DEF SweepAdded, QueueBecomes
    <3>3. CASE SweepNotAdded
      <4>1. PICK recoverable \in BOOLEAN :
              adding > 0 /\ QueueBecomes(window, blocked \/ recoverable, adding - 1)
        BY <3>3 DEF SweepNotAdded
      <4> QED
        BY <4>1 DEF QueueBecomes
    <3>4. CASE PauseEnds
      BY <3>4 DEF PauseEnds, QueueBecomes
    <3> QED
      BY <1>4, <3>1, <3>2, <3>3, <3>4
  <2>3. /\ window' \in BOOLEAN /\ blocked' \in BOOLEAN /\ adding' \in 0 .. MaxAdds
        /\ SweepFits'
    <3>1. window' \in BOOLEAN /\ blocked' \in BOOLEAN
      BY <2>2 DEF Typed
    <3>2. adding' \in 0 .. MaxAdds
      BY <1>2, <2>2 DEF Typed
    <3>3. adding' < MaxAdds \/ (window' = window /\ adding' = adding)
      BY <1>2, <2>2 DEF Typed
    <3> QED
      BY <3>1, <3>2, <3>3 DEF SweepFits
  <2>4. faults' = faults \/ (faults < MaxFaults /\ faults' = faults + 1)
    BY <1>4 DEF WindowEnds, SweepAdded, SweepNotAdded, PauseEnds, Fault
  <2>5. faults' \in 0 .. MaxFaults
    BY <1>2, <2>4 DEF Typed
  <2> QED
    BY <1>1, <2>1, <2>3, <2>5 DEF Typed, SocketTyped, WireIsBounded, Sent, WireIsOrdered,
                                  ToldAtStart, ClientsSeePrice
<1> QED
  BY <1>1, <1>3, <1>4
-----------------------------------------------------------------------------
(***************************************************************************)
(* The theorems                                                            *)
(***************************************************************************)
LEMMA Initially == Init => IInv
<1> SUFFICES ASSUME Init PROVE IInv
  OBVIOUS
<1>1. /\ phase = "down" /\ quote = None /\ wire = <<>>
      /\ cached = None /\ shown = None
      /\ socket = [is |-> "closed", attempt |-> 0]
      /\ window = FALSE /\ blocked = FALSE /\ adding = 0
      /\ faults = 0 /\ punctual \in BOOLEAN
  BY DEF Init
<1>2. /\ 0 \in 0 .. MaxAdds /\ 0 < MaxAdds /\ 0 \in 0 .. MaxFaults
      /\ 0 \in 0 .. MaxAttempts + 1 /\ 0 <= MaxAttempts
  BY PricesAssumption
<1>3. wire \in Seq(Commands)
  BY <1>1
<1>4. Typed
  BY <1>1, <1>2, <1>3 DEF Typed, Phases
<1>5. SocketTyped /\ SweepFits
  BY <1>1, <1>2 DEF SocketTyped, SweepFits
<1>6. WireIsBounded
  <2>1. \A op : Sent(op) = {}
    BY <1>1 DEF Sent
  <2>2. Cardinality({}) <= MaxWire
    BY FS_EmptySet, PricesAssumption
  <2> QED
    BY <2>1, <2>2 DEF WireIsBounded
<1>7. WireIsOrdered /\ ToldAtStart /\ ClientsSeePrice
  BY <1>1 DEF WireIsOrdered, ToldAtStart, ClientsSeePrice
<1> QED
  BY <1>4, <1>5, <1>6, <1>7 DEF IInv

\* Any price, market and age a provider may send is a quote.
LEMMA ProviderQuotes ==
  ASSUME NEW v \in Values, NEW m \in Markets, NEW d \in BOOLEAN, NEW a \in Ages
  PROVE  /\ Quote(v, "streaming", m, d, a) \in Quotes
         /\ Quote(v, "polling", m, d, a) \in Quotes
BY DEF Quote, Quotes, Sources

Told == phase = "serving" /\ phase' = "serving" /\ quote'.value # quote.value
          => shown' # None /\ shown'.value = quote'.value

LEMMA StepKeeps == IInv /\ [Next]_vars => IInv' /\ Told
<1> SUFFICES ASSUME IInv, [Next]_vars PROVE IInv' /\ Told
  OBVIOUS
<1> USE DEF Told
<1>1. ASSUME NEW v \in Values, NEW m \in Markets, NEW a \in Ages, StreamQuote(v, m, a)
      PROVE  IInv' /\ Told
  <2>1. PICK q : q = Quote(v, "streaming", m, FALSE, a)
    OBVIOUS
  <2>2. q \in Quotes /\ Receive(q)
    BY <1>1, <2>1, ProviderQuotes DEF StreamQuote
  <2> QED
    BY <2>2, ReceiveStep
<1>2. ASSUME NEW v \in Values, NEW m \in Markets, NEW a \in Ages, NEW d \in BOOLEAN,
             PollQuote(v, m, d, a)
      PROVE  IInv' /\ Told
  <2>1. PICK q : q = Quote(v, "polling", m, d, a)
    OBVIOUS
  <2>2. q \in Quotes /\ Receive(q)
    BY <1>2, <2>1, ProviderQuotes DEF PollQuote
  <2> QED
    BY <2>2, ReceiveStep
<1>3. CASE Monitor
  BY <1>3, MonitorStep
<1>4. CASE Start
  BY <1>4, StartStep DEF Start
<1>5. CASE Load
  BY <1>5, LoadStep DEF Load
<1>6. CASE StartProviders
  BY <1>6, StartProvidersStep DEF StartProviders
<1>7. CASE Look
  BY <1>7, LookStep DEF Look
<1>8. CASE Answer
  BY <1>8, AnswerStep
<1>9. CASE Refuse
  BY <1>9, RefuseStep
<1>10. CASE Crash
  BY <1>10, CrashStep
<1>11. CASE TimePasses
  BY <1>11, TimePassesStep
<1>12. CASE SocketStep \/ WindowEnds \/ SweepAdded \/ SweepNotAdded \/ PauseEnds
  BY <1>12, SocketOrQueueStep
<1>13. CASE UNCHANGED vars
  BY <1>13 DEF vars, IInv, Typed, SocketTyped, SweepFits, WireIsBounded, Sent, WireIsOrdered,
               ToldAtStart, ClientsSeePrice
<1> QED
  BY <1>1, <1>2, <1>3, <1>4, <1>5, <1>6, <1>7, <1>8, <1>9, <1>10, <1>11, <1>12, <1>13 DEF Next

LEMMA Implied == IInv => PricesAgree
<1> SUFFICES ASSUME IInv PROVE PricesAgree
  OBVIOUS
<1>1. Len(wire) <= 2 * MaxWire
  BY WireIsShort DEF IInv, Typed
<1>2. TypeOK
  BY <1>1 DEF IInv, Typed, Phases, SocketTyped, TypeOK
<1> QED
  BY <1>2 DEF IInv, PricesAgree

\* The inductive invariant.
THEOREM Invariance == Spec => []IInv
<1>1. Init => IInv
  BY Initially
<1>2. IInv /\ [Next]_vars => IInv'
  BY StepKeeps
<1> QED
  BY <1>1, <1>2, PTL DEF Spec

\* For any number of commands under way, sweeps, attempts and failures: once
\* providers are started, clients see the price orders are executed at, or a
\* quote that is marked as a bootstrap quote (upsertPrice, getLatestQuote).
THEOREM PricesAgreed == Spec => []PricesAgree
BY Invariance, Implied, PTL

\* The price of a running process changes only with an update for clients:
\* neither a late answer of Redis nor the passing of time changes it
\* (upsertPrice, sweepAgedQuotes, getLatestQuote).
THEOREM ChangesTold == Spec => PriceChangesAreTold
<1>1. IInv /\ [Next]_vars => [phase = "serving" /\ phase' = "serving" /\ quote'.value # quote.value
                                => shown' # None /\ shown'.value = quote'.value]_vars
  BY StepKeeps DEF Told
<1>2. Spec => [][phase = "serving" /\ phase' = "serving" /\ quote'.value # quote.value
                   => shown' # None /\ shown'.value = quote'.value]_vars
  BY <1>1, Invariance, PTL DEF Spec
<1> QED
  BY <1>2 DEF PriceChangesAreTold
=============================================================================
