---------------------------- MODULE ClosingProofs ----------------------------
(***************************************************************************)
(* Theorems of PositionClose, and of PnlEngine which closes through it,    *)
(* proved for every set of positions, quotes, calls in flight and faults.  *)
(*                                                                         *)
(* The first ones hold whatever overlaps. The next say what the account's  *)
(* ledger is good for under a restriction on what else happens: that       *)
(* nothing but closes moves the balance, and that there is one call at a   *)
(* time, so that what it has read is still so when it commits. Those of    *)
(* the engine hold while it alone closes positions: its closes overlap,    *)
(* but never for one position.                                             *)
(***************************************************************************)
EXTENDS PnlEngine, SumProofs

\* What stands for no quote and no position.
LEMMA Stand == NoQuote \in Quotes /\ NoPosition \in Positions
BY TermsAssumption DEF NoQuote, NoPosition

LEMMA PnlType ==
  ASSUME NEW p \in Positions, NEW q \in Quotes
  PROVE  Pnl(p, q) \in Int
<1>1. Terms[p].entry \in Nat
  BY TermsAssumption
<1>2. q.bid \in Nat /\ q.ask \in Nat
  BY TermsAssumption
<1> QED BY <1>1, <1>2 DEF Pnl

\* The entries of a close: one of its result, then perhaps a correction.
LEMMA EntriesType ==
  ASSUME NEW p \in Positions, NEW gain \in Int, NEW b \in Int
  PROVE  /\ CloseEntries(p, gain, b) \in Seq(Entry)
         /\ Len(CloseEntries(p, gain, b)) \in {1, 2}
         /\ CloseEntries(p, gain, b)[1].position = p
         /\ CloseEntries(p, gain, b)[1].kind # "CORRECTION"
         /\ CloseEntries(p, gain, b)[1].change = gain
         /\ Len(CloseEntries(p, gain, b)) = 2 => CloseEntries(p, gain, b)[2].kind = "CORRECTION"
         /\ CloseEntries(p, gain, b)[Len(CloseEntries(p, gain, b))].after = Protected(b + gain)
<1> DEFINE first == [kind |-> IF gain >= 0 THEN "TRADE_CLOSE_GAIN" ELSE "TRADE_CLOSE_LOSS",
                     position |-> p, change |-> gain, after |-> Protected(b + gain)]
           second == [kind |-> "CORRECTION", position |-> p, change |-> -(b + gain), after |-> 0]
<1>1. first \in Entry /\ first.position = p /\ first.kind # "CORRECTION"
      /\ first.change = gain /\ first.after = Protected(b + gain)
  BY DEF Entry, Kinds, Protected
<1>2. second \in Entry /\ second.kind = "CORRECTION" /\ second.after = 0
  BY DEF Entry, Kinds
<1>3. CASE b + gain < 0
  <2>1. CloseEntries(p, gain, b) = <<first>> \o <<second>> /\ Protected(b + gain) = 0
    BY <1>3 DEF CloseEntries, Correction, Protected
  <2> HIDE DEF first, second
  <2> QED BY <1>1, <1>2, <2>1
<1>4. CASE ~(b + gain < 0)
  <2>1. CloseEntries(p, gain, b) = <<first>> \o <<>>
    BY <1>4 DEF CloseEntries, Correction
  <2> HIDE DEF first, second
  <2> QED BY <1>1, <2>1
<1> QED BY <1>3, <1>4

-----------------------------------------------------------------------------
LEMMA InitType == Init => TypeOK
<1> SUFFICES ASSUME Init PROVE TypeOK
  OBVIOUS
<1>1. ledger \in Seq(Entry)
  BY DEF Init
<1> QED BY <1>1, Stand, FundsAssumption DEF Init, TypeOK, PCs, Reasons

\* The ledger a commit leaves.
LEMMA CommitType ==
  ASSUME TypeOK, NEW c \in Closers, Commit(c)
  PROVE  /\ target[c] \in Positions
         /\ Pnl(target[c], priced[c]) \in Int
         /\ CloseEntries(target[c], Pnl(target[c], priced[c]), held[c]) \in Seq(Entry)
         /\ ledger' = ledger \o CloseEntries(target[c], Pnl(target[c], priced[c]), held[c])
         /\ ledger' \in Seq(Entry)
         /\ balance' \in Nat
<1>1. target[c] \in Positions /\ priced[c] \in Quotes /\ held[c] \in Int
  BY DEF TypeOK
<1>2. Pnl(target[c], priced[c]) \in Int
  BY <1>1, PnlType
<1>3. CloseEntries(target[c], Pnl(target[c], priced[c]), held[c]) \in Seq(Entry)
  BY <1>1, <1>2, EntriesType
<1>4. ledger' = ledger \o CloseEntries(target[c], Pnl(target[c], priced[c]), held[c])
  BY DEF Commit
<1>5. balance' \in Nat
  BY <1>1, <1>2 DEF Commit, Protected
<1> QED BY <1>1, <1>2, <1>3, <1>4, <1>5 DEF TypeOK

\* What it appends, by name.
LEMMA CommitEntries ==
  ASSUME TypeOK, NEW c \in Closers, Commit(c)
  PROVE  \E new \in Seq(Entry) :
            /\ ledger' = ledger \o new
            /\ Len(new) \in {1, 2}
            /\ new[1].position = target[c]
            /\ new[1].kind # "CORRECTION"
            /\ new[1].change = Pnl(target[c], priced[c])
            /\ Len(new) = 2 => new[2].kind = "CORRECTION"
            /\ new[Len(new)].after = balance'
<1>1. target[c] \in Positions /\ held[c] \in Int
  BY DEF TypeOK
<1>2. Pnl(target[c], priced[c]) \in Int
  BY CommitType
<1>3. ledger' = ledger \o CloseEntries(target[c], Pnl(target[c], priced[c]), held[c])
  BY CommitType
<1>4. balance' = Protected(held[c] + Pnl(target[c], priced[c]))
  BY DEF Commit
<1>5. CloseEntries(target[c], Pnl(target[c], priced[c]), held[c]) \in Seq(Entry)
  BY CommitType
<1>6. CloseEntries(target[c], Pnl(target[c], priced[c]), held[c])
        [Len(CloseEntries(target[c], Pnl(target[c], priced[c]), held[c]))].after = balance'
  BY <1>1, <1>2, <1>4, EntriesType
<1> WITNESS CloseEntries(target[c], Pnl(target[c], priced[c]), held[c]) \in Seq(Entry)
<1> QED BY <1>1, <1>2, <1>3, <1>6, EntriesType

LEMMA LeaveType ==
  ASSUME TypeOK, NEW c \in Closers, NEW outcome \in Outcomes, Leave(c, outcome)
  PROVE  /\ pc' \in [Closers -> PCs] /\ target' \in [Closers -> Positions]
         /\ reason' \in [Closers -> Reasons] /\ priced' \in [Closers -> Quotes]
         /\ held' \in [Closers -> Int]
BY DEF Leave, Goto, TypeOK, PCs

LEMMA CloserType ==
  ASSUME TypeOK, NEW c \in Closers, CloserStep(c)
  PROVE  TypeOK'
<1>1. CASE ReadQuote(c)
  <2>1. UNCHANGED <<rows, env>>
    BY <1>1 DEF ReadQuote
  <2>2. ASSUME NEW outcome \in {"thrown", "null"}, Leave(c, outcome) PROVE TypeOK'
    BY <2>1, <2>2, LeaveType DEF rows, env, TypeOK, Outcomes
  <2>3. ASSUME priced' = [priced EXCEPT ![c] = quote[Terms[target[c]].symbol]],
               Goto(c, "live"), UNCHANGED <<target, reason, held>>
        PROVE  TypeOK'
    <3>1. Terms[target[c]].symbol \in Symbols
      BY TermsAssumption DEF TypeOK
    <3> QED BY <2>1, <2>3, <3>1 DEF Goto, rows, env, TypeOK, PCs
  <2> QED BY <1>1, <2>2, <2>3 DEF ReadQuote
<1>2. CASE ReadPosition(c)
  <2>1. UNCHANGED <<rows, env>>
    BY <1>2 DEF ReadPosition
  <2>2. ASSUME NEW outcome \in {"thrown", "null"}, Leave(c, outcome) PROVE TypeOK'
    BY <2>1, <2>2, LeaveType DEF rows, env, TypeOK, Outcomes
  <2>3. ASSUME Goto(c, "account"), UNCHANGED <<target, reason, priced, held>>
        PROVE  TypeOK'
    BY <2>1, <2>3 DEF Goto, rows, env, TypeOK, PCs
  <2> QED BY <1>2, <2>2, <2>3 DEF ReadPosition
<1>3. CASE ReadAccount(c)
  BY <1>3 DEF ReadAccount, Goto, rows, env, TypeOK, PCs
<1>4. CASE Commit(c)
  <2>1. balance' \in Int /\ ledger' \in Seq(Entry) /\ Pnl(target[c], priced[c]) \in Int
        /\ target[c] \in Positions
    BY <1>4, CommitType
  <2>2. state' \in [Positions -> {"OPEN", "CLOSED"}] /\ pnl' \in [Positions -> Int]
    BY <1>4, <2>1 DEF Commit, ClosedStatus, TypeOK
  <2>3. pc' \in [Closers -> PCs]
    BY <1>4 DEF Commit, Goto, TypeOK, PCs
  <2> QED BY <1>4, <2>1, <2>2, <2>3 DEF Commit, env, TypeOK
<1>5. CASE After(c)
  <2>1. Leave(c, "closed") /\ UNCHANGED <<state, pnl, balance, ledger, env>>
        /\ copied' = copied \cup {target[c]}
    BY <1>5 DEF After
  <2>2. copied' \in SUBSET Positions
    BY <2>1 DEF TypeOK
  <2> QED BY <2>1, <2>2, LeaveType DEF env, TypeOK, Outcomes
<1> QED BY <1>1, <1>2, <1>3, <1>4, <1>5 DEF CloserStep

LEMMA TypeNext == TypeOK /\ [Next]_vars => TypeOK'
<1> SUFFICES ASSUME TypeOK, [Next]_vars PROVE TypeOK'
  OBVIOUS
<1>1. ASSUME NEW c \in Closers, NEW p \in Positions, NEW why \in Callers, Call(c, p, why)
      PROVE  TypeOK'
  <2>1. why \in Reasons
    BY TermsAssumption DEF Reasons
  <2> QED BY <1>1, <2>1 DEF Call, Begin, Goto, rows, env, TypeOK, PCs
<1>2. ASSUME NEW c \in Closers, CloserStep(c)
      PROVE  TypeOK'
  BY <1>2, CloserType
<1>3. ASSUME NEW c \in Closers, Collect(c)
      PROVE  TypeOK'
  BY <1>3, Stand DEF Collect, Goto, rows, env, TypeOK, PCs, Reasons
<1>4. ASSUME NEW c \in Closers, CallFails(c)
      PROVE  TypeOK'
  <2>1. faults' \in 0 .. MaxFaults
    BY <1>4, FundsAssumption DEF CallFails, OneFault, TypeOK
  <2> QED BY <1>4, <2>1, LeaveType DEF CallFails, OneFault, rows, TypeOK, Outcomes
<1>5. CASE Crash
  <2>1. faults' \in 0 .. MaxFaults
    BY <1>5, FundsAssumption DEF Crash, OneFault, TypeOK
  <2> QED BY <1>5, <2>1, Stand DEF Crash, OneFault, rows, TypeOK, PCs, Reasons
<1>6. CASE OtherFunds
  BY <1>6, FundsAssumption DEF OtherFunds, local, TypeOK
<1>7. CASE MarketTick
  BY <1>7, FundsAssumption DEF MarketTick, rows, local, TypeOK
<1>8. CASE UNCHANGED vars
  BY <1>8 DEF vars, rows, env, local, TypeOK
<1> QED BY <1>1, <1>2, <1>3, <1>4, <1>5, <1>6, <1>7, <1>8 DEF Next

\* Every state the service reaches is well typed.
THEOREM TypeCorrect == Spec => []TypeOK
BY InitType, TypeNext, PTL DEF Spec

-----------------------------------------------------------------------------
\* Positions, balance and ledger change at a commit only, but for what other
\* services do to the balance.
Posts ==
  \/ UNCHANGED <<state, balance, ledger>>
  \/ \E c \in Closers : Commit(c)
  \/ OtherFunds

LEMMA WhoPosts == [Next]_vars => Posts
<1> SUFFICES ASSUME [Next]_vars PROVE Posts
  OBVIOUS
<1>1. ASSUME NEW c \in Closers, CloserStep(c) \/ Collect(c) \/ CallFails(c)
      PROVE  UNCHANGED <<state, balance, ledger>> \/ Commit(c)
  <2>1. CASE ReadQuote(c) \/ ReadPosition(c) \/ ReadAccount(c) \/ Collect(c) \/ CallFails(c)
    BY <2>1 DEF ReadQuote, ReadPosition, ReadAccount, Collect, CallFails, rows
  <2>2. CASE After(c)
    BY <2>2 DEF After
  <2> QED BY <1>1, <2>1, <2>2 DEF CloserStep
<1>2. ASSUME NEW c \in Closers, NEW p \in Positions, NEW why \in Callers, Call(c, p, why)
      PROVE  UNCHANGED <<state, balance, ledger>>
  BY <1>2 DEF Call, rows
<1>3. ASSUME Crash \/ MarketTick \/ UNCHANGED vars
      PROVE  UNCHANGED <<state, balance, ledger>>
  BY <1>3 DEF Crash, MarketTick, vars, rows
<1> QED BY <1>1, <1>2, <1>3 DEF Next, Posts

\* The balance is never negative, if what other services move is never taken
\* from it: closes cannot make it so, however they overlap.
THEOREM NeverOwing ==
  ASSUME Moves \subseteq Nat
  PROVE  Spec => []NeverOwes
<1>1. Init => NeverOwes
  BY FundsAssumption DEF Init, NeverOwes
<1>2. TypeOK /\ NeverOwes /\ [Next]_vars => NeverOwes'
  <2> SUFFICES ASSUME TypeOK, NeverOwes, [Next]_vars PROVE NeverOwes'
    OBVIOUS
  <2>1. CASE UNCHANGED <<state, balance, ledger>>
    BY <2>1 DEF NeverOwes
  <2>2. ASSUME NEW c \in Closers, Commit(c)
        PROVE  NeverOwes'
    BY <2>2, CommitType DEF NeverOwes
  <2>3. CASE OtherFunds
    BY <2>3 DEF OtherFunds, NeverOwes, TypeOK
  <2> QED BY <2>1, <2>2, <2>3, WhoPosts DEF Posts
<1> QED BY <1>1, <1>2, TypeCorrect, PTL DEF Spec

-----------------------------------------------------------------------------
(***************************************************************************)
(* Positions and their entries                                             *)
(***************************************************************************)

\* A commit adds one entry of a result, that of its position.
LEMMA TradesAfterCommit ==
  ASSUME TypeOK, NEW c \in Closers, Commit(c), NEW p \in Positions
  PROVE  Trades(p)' = Trades(p) \cup (IF p = target[c] THEN {Len(ledger) + 1} ELSE {})
<1>1. PICK new \in Seq(Entry) :
        /\ ledger' = ledger \o new
        /\ Len(new) \in {1, 2}
        /\ new[1].position = target[c]
        /\ new[1].kind # "CORRECTION"
        /\ Len(new) = 2 => new[2].kind = "CORRECTION"
  BY CommitEntries
<1>2. /\ DOMAIN ledger = 1 .. Len(ledger) /\ Len(ledger) \in Nat
      /\ DOMAIN ledger' = 1 .. Len(ledger) + Len(new)
      /\ \A i \in 1 .. Len(ledger) : ledger'[i] = ledger[i]
      /\ \A i \in 1 .. Len(new) : ledger'[Len(ledger) + i] = new[i]
  BY <1>1 DEF TypeOK
<1>3. ASSUME NEW i \in DOMAIN ledger'
      PROVE  (ledger'[i].position = p /\ ledger'[i].kind # "CORRECTION")
             <=> (i \in Trades(p) \/ (p = target[c] /\ i = Len(ledger) + 1))
  <2>1. CASE i \in 1 .. Len(ledger)
    BY <1>2, <2>1 DEF Trades
  <2>2. CASE i = Len(ledger) + 1
    <3>1. ledger'[i] = new[1]
      <4>1. 1 \in 1 .. Len(new)
        BY <1>1
      <4> QED BY <1>2, <2>2, <4>1
    <3>2. i \notin Trades(p)
      BY <1>2, <2>2 DEF Trades
    <3> QED BY <1>1, <2>2, <3>1, <3>2
  <2>3. CASE Len(new) = 2 /\ i = Len(ledger) + 2
    <3>1. ledger'[i] = new[2]
      <4>1. 2 \in 1 .. Len(new)
        BY <2>3
      <4> QED BY <1>2, <2>3, <4>1
    <3>2. i \notin Trades(p) /\ i # Len(ledger) + 1
      BY <1>2, <2>3 DEF Trades
    <3> QED BY <1>1, <2>3, <3>1, <3>2
  <2> QED BY <1>1, <1>2, <2>1, <2>2, <2>3
<1>4. Trades(p) \subseteq DOMAIN ledger' /\ Len(ledger) + 1 \in DOMAIN ledger'
  BY <1>1, <1>2 DEF Trades
<1> QED BY <1>3, <1>4 DEF Trades

LEMMA StateAfterCommit ==
  ASSUME TypeOK, NEW c \in Closers, Commit(c), NEW p \in Positions
  PROVE  state'[p] = IF p = target[c] THEN "CLOSED" ELSE state[p]
BY DEF Commit, ClosedStatus, TypeOK

LEMMA EnteredKept ==
  ASSUME TypeOK, ClosedIffEntered, Posts
  PROVE  ClosedIffEntered'
<1> SUFFICES ASSUME NEW p \in Positions
             PROVE  state'[p] = "CLOSED" <=> Trades(p)' # {}
  BY DEF ClosedIffEntered
<1>1. CASE UNCHANGED <<state, ledger>>
  <2>1. Trades(p)' = Trades(p)
    BY <1>1 DEF Trades
  <2> QED BY <1>1, <2>1 DEF ClosedIffEntered
<1>2. ASSUME NEW c \in Closers, Commit(c)
      PROVE  state'[p] = "CLOSED" <=> Trades(p)' # {}
  BY <1>2, TradesAfterCommit, StateAfterCommit DEF ClosedIffEntered
<1>3. CASE OtherFunds
  BY <1>1, <1>3 DEF OtherFunds
<1> QED BY <1>1, <1>2, <1>3 DEF Posts

\* A position is closed if, and only if, its result is in the ledger.
THEOREM ClosedMeansEntered == Spec => []ClosedIffEntered
<1>1. Init => ClosedIffEntered
  BY DEF Init, ClosedIffEntered, Trades
<1>2. TypeOK /\ ClosedIffEntered /\ [Next]_vars => ClosedIffEntered'
  BY EnteredKept, WhoPosts
<1> QED BY <1>1, <1>2, TypeCorrect, PTL DEF Spec

-----------------------------------------------------------------------------
\* A call that is past its commit has its position until copy trading is told,
\* unless the call fails or the process dies.
LEMMA CopiedNext ==
  ASSUME TypeOK, TypeOK', EveryCloseIsCopied, [Next]_vars
  PROVE  EveryCloseIsCopied'
<1> DEFINE Told(p)   == p \in copied \/ \E c \in Closers : target[c] = p /\ pc[c] = "after"
           Closed(p) == p \in Positions /\ state[p] # "OPEN"
<1> SUFFICES ASSUME faults' = 0, NEW p \in Positions, Closed(p)'
             PROVE  Told(p)'
  BY DEF EveryCloseIsCopied, OpenOnes
<1> USE DEF TypeOK
<1>1. ASSUME faults = 0, Closed(p) PROVE Told(p)
  BY <1>1 DEF EveryCloseIsCopied, OpenOnes
<1>2. ASSUME UNCHANGED <<state, copied, faults>>, NEW c \in Closers, pc[c] # "after",
             \A d \in Closers \ {c} : pc'[d] = pc[d] /\ target'[d] = target[d]
      PROVE  Told(p)'
  BY <1>1, <1>2
<1>3. ASSUME NEW c \in Closers, NEW q \in Positions, NEW why \in Callers, Call(c, q, why)
      PROVE  Told(p)'
  BY <1>2, <1>3 DEF Call, Begin, Goto, rows, env
<1>4. ASSUME NEW c \in Closers, ReadQuote(c) \/ ReadPosition(c) \/ ReadAccount(c) \/ Collect(c)
      PROVE  Told(p)'
  BY <1>2, <1>4 DEF ReadQuote, ReadPosition, ReadAccount, Collect, Leave, Goto, rows, env, Outcomes
<1>5. ASSUME NEW c \in Closers, Commit(c)
      PROVE  Told(p)'
  <2>1. /\ pc' = [pc EXCEPT ![c] = "after"]
        /\ UNCHANGED <<target, copied, faults>>
    BY <1>5 DEF Commit, Goto, env
  <2>2. CASE p = target[c]
    BY <2>1, <2>2
  <2>3. CASE p # target[c]
    <3>1. state'[p] = state[p]
      BY <1>5, <2>3, StateAfterCommit
    <3> QED BY <1>1, <2>1, <3>1
  <2> QED BY <2>2, <2>3
<1>6. ASSUME NEW c \in Closers, After(c)
      PROVE  Told(p)'
  <2>1. /\ copied' = copied \cup {target[c]}
        /\ pc' = [pc EXCEPT ![c] = "closed"]
        /\ UNCHANGED <<state, target, faults>>
    BY <1>6 DEF After, Leave, Goto, env
  <2> QED BY <1>1, <2>1
<1>7. ASSUME NEW c \in Closers, CallFails(c)
      PROVE  FALSE
  BY <1>7 DEF CallFails, OneFault
<1>8. CASE Crash
  BY <1>8 DEF Crash, OneFault
<1>9. CASE OtherFunds \/ MarketTick \/ UNCHANGED vars
  BY <1>1, <1>9 DEF OtherFunds, MarketTick, vars, rows, env, local
<1> QED BY <1>3, <1>4, <1>5, <1>6, <1>7, <1>8, <1>9 DEF Next, CloserStep

\* Without a fault, copy trading is told of every close, whoever made it and
\* whatever it overlapped, once its call is over.
THEOREM ClosesCopied == Spec => []EveryCloseIsCopied
<1>1. Init => EveryCloseIsCopied
  BY DEF Init, EveryCloseIsCopied, OpenOnes
<1>2. TypeOK /\ TypeOK' /\ EveryCloseIsCopied /\ [Next]_vars => EveryCloseIsCopied'
  BY CopiedNext
<1> QED BY <1>1, <1>2, TypeCorrect, PTL DEF Spec

-----------------------------------------------------------------------------
(***************************************************************************)
(* Without other movements of the balance                                  *)
(***************************************************************************)

LEMMA LastEntryKept ==
  ASSUME Moves = {}, TypeOK, LastEntryMatchesBalance, Posts
  PROVE  LastEntryMatchesBalance'
<1>1. CASE UNCHANGED <<state, balance, ledger>>
  BY <1>1 DEF LastEntryMatchesBalance
<1>2. ASSUME NEW c \in Closers, Commit(c)
      PROVE  LastEntryMatchesBalance'
  <2>1. PICK new \in Seq(Entry) :
          /\ ledger' = ledger \o new
          /\ Len(new) \in {1, 2}
          /\ new[Len(new)].after = balance'
    BY <1>2, CommitEntries
  <2>2. ledger \in Seq(Entry)
    BY DEF TypeOK
  <2>3. /\ Len(ledger) \in Nat
        /\ Len(ledger') = Len(ledger) + Len(new)
        /\ \A i \in 1 .. Len(new) : ledger'[Len(ledger) + i] = new[i]
    BY <2>1, <2>2
  <2>4. Len(new) \in 1 .. Len(new)
    <3>1. Len(new) = 1 \/ Len(new) = 2
      BY <2>1
    <3> QED BY <3>1
  <2>5. ledger'[Len(ledger')] = new[Len(new)]
    BY <2>3, <2>4
  <2> QED BY <2>1, <2>5 DEF LastEntryMatchesBalance
<1>3. CASE OtherFunds
  BY <1>3 DEF OtherFunds
<1> QED BY <1>1, <1>2, <1>3 DEF Posts

\* The last entry states the balance, even when closes overlap: both are
\* computed from the same reading.
THEOREM LastEntryMatches ==
  ASSUME Moves = {}
  PROVE  Spec => []LastEntryMatchesBalance
<1>1. Init => LastEntryMatchesBalance
  BY DEF Init, LastEntryMatchesBalance
<1>2. TypeOK /\ LastEntryMatchesBalance /\ [Next]_vars => LastEntryMatchesBalance'
  BY LastEntryKept, WhoPosts
<1> QED BY <1>1, <1>2, TypeCorrect, PTL DEF Spec

-----------------------------------------------------------------------------
(***************************************************************************)
(* One call at a time                                                      *)
(***************************************************************************)

\* What the call has checked is still so.
CheckHolds == \A c \in Closers : pc[c] \in {"account", "commit"} => state[target[c]] = "OPEN"

LEMMA CheckHoldsNext ==
  ASSUME TypeOK, CheckHolds, [Next]_vars, NEW one, Closers = {one}
  PROVE  CheckHolds'
<1> SUFFICES ASSUME pc'[one] \in {"account", "commit"}
             PROVE  state'[target'[one]] = "OPEN"
  BY DEF CheckHolds
<1>1. CASE ReadPosition(one)
  BY <1>1 DEF ReadPosition, StillOpen, Goto, Leave, rows, TypeOK
<1>2. CASE ReadAccount(one)
  BY <1>2 DEF ReadAccount, rows, CheckHolds
<1>3. CASE ReadQuote(one) \/ After(one) \/ Commit(one) \/ Collect(one) \/ CallFails(one) \/ Crash
  BY <1>3 DEF ReadQuote, After, Commit, Collect, CallFails, Crash, Goto, Leave, TypeOK, Outcomes
<1>4. ASSUME NEW p \in Positions, NEW why \in Callers, Call(one, p, why)
      PROVE  FALSE
  BY <1>4 DEF Call, Begin, Goto, TypeOK
<1>5. CASE OtherFunds \/ MarketTick \/ UNCHANGED vars
  BY <1>5 DEF OtherFunds, MarketTick, vars, rows, local, CheckHolds
<1> QED BY <1>1, <1>2, <1>3, <1>4, <1>5 DEF Next, CloserStep

OneResult == \A p \in Positions : \A i, j \in Trades(p) : i = j

LEMMA OneResultIsSettledOnce == OneResult => SettledOnce
<1> SUFFICES ASSUME OneResult, NEW p \in Positions PROVE Cardinality(Trades(p)) <= 1
  BY DEF SettledOnce
<1>1. CASE Trades(p) = {}
  BY <1>1, FS_EmptySet
<1>2. ASSUME NEW i \in Trades(p) PROVE Cardinality(Trades(p)) <= 1
  <2>1. Trades(p) = {i}
    BY <1>2 DEF OneResult
  <2>2. Cardinality(Trades(p)) = 1
    BY <2>1, FS_Singleton, Zenon
  <2> QED BY <2>2
<1> QED BY <1>1, <1>2

\* While one call is in flight at a time, every position is settled once.
THEOREM SettlesOnce ==
  ASSUME NEW one, Closers = {one}
  PROVE  Spec => []SettledOnce
<1> DEFINE Once == \A p \in Positions : \A i, j \in Trades(p) : i = j
<1>1. Init => CheckHolds /\ Once
  BY DEF Init, CheckHolds, Trades
<1>2. TypeOK /\ CheckHolds /\ ClosedIffEntered /\ Once /\ [Next]_vars => CheckHolds' /\ Once'
  <2> SUFFICES ASSUME TypeOK, CheckHolds, ClosedIffEntered, Once, [Next]_vars
               PROVE  CheckHolds' /\ Once'
    OBVIOUS
  <2>1. ASSUME UNCHANGED <<state, ledger>>
        PROVE  Once'
    BY <2>1 DEF Trades
  <2>2. ASSUME Commit(one)
        PROVE  Once'
    <3> SUFFICES ASSUME NEW p \in Positions PROVE \A i, j \in Trades(p)' : i = j
      OBVIOUS
    <3>1. CASE p = target[one]
      <4>1. Trades(p) = {}
        BY <2>2, <3>1 DEF Commit, CheckHolds, ClosedIffEntered
      <4> QED BY <2>2, <3>1, <4>1, TradesAfterCommit
    <3>2. CASE p # target[one]
      BY <2>2, <3>2, TradesAfterCommit
    <3> QED BY <3>1, <3>2
  <2>3. ASSUME OtherFunds
        PROVE  Once'
    BY <2>1, <2>3 DEF OtherFunds
  <2>4. CheckHolds'
    BY CheckHoldsNext
  <2> QED BY <2>1, <2>2, <2>3, <2>4, WhoPosts DEF Posts
<1>3. Once => SettledOnce
  BY OneResultIsSettledOnce DEF OneResult
<1> QED BY <1>1, <1>2, <1>3, TypeCorrect, ClosedMeansEntered, PTL DEF Spec
-----------------------------------------------------------------------------
(***************************************************************************)
(* The engine. What it adds up over the positions of a round.              *)
(***************************************************************************)
LEMMA PnlOfIs ==
  ASSUME NEW S, NEW quotes
  PROVE  PnlOf(S, quotes) = SumOver([p \in S |-> Pnl(p, quotes[Terms[p].symbol])], S)
BY DEF PnlOf, MapThenSumSet, MapThenFoldSet, SumOver, TableOf, Tabulates, PickOf

LEMMA MarginOfIs ==
  ASSUME NEW S
  PROVE  MarginOf(S) = SumOver([p \in S |-> Terms[p].margin], S)
BY DEF MarginOf, MapThenSumSet, MapThenFoldSet, SumOver, TableOf, Tabulates, PickOf

LEMMA PnlOfTake ==
  ASSUME NEW quotes \in [Symbols -> Quotes], NEW S \in SUBSET Positions
  PROVE  /\ PnlOf(S, quotes) \in Int
         /\ \A p \in S :
              /\ Pnl(p, quotes[Terms[p].symbol]) \in Int
              /\ PnlOf(S, quotes) = Pnl(p, quotes[Terms[p].symbol]) + PnlOf(S \ {p}, quotes)
<1> DEFINE F(T) == [p \in T |-> Pnl(p, quotes[Terms[p].symbol])]
<1>1. \A T \in SUBSET Positions : IsFiniteSet(T)
  BY TermsAssumption, FS_Subset
<1>2. \A p \in Positions : Pnl(p, quotes[Terms[p].symbol]) \in Int
  <2> TAKE p \in Positions
  <2>1. Terms[p].symbol \in Symbols
    BY TermsAssumption
  <2> QED BY <2>1, PnlType
<1>3. \A T \in SUBSET Positions : PnlOf(T, quotes) = SumOver(F(T), T)
  BY PnlOfIs
<1>4. PnlOf(S, quotes) \in Int
  <2>1. \A p \in S : F(S)[p] \in Int
    BY <1>2
  <2> HIDE DEF F
  <2> QED BY <1>1, <1>3, <2>1, SumType
<1>5. ASSUME NEW p \in S
      PROVE  PnlOf(S, quotes) = Pnl(p, quotes[Terms[p].symbol]) + PnlOf(S \ {p}, quotes)
  <2>1. \A x \in S : F(S)[x] \in Int
    BY <1>2
  <2>2. \A x \in S \ {p} : F(S)[x] = F(S \ {p})[x]
    OBVIOUS
  <2>3. F(S)[p] = Pnl(p, quotes[Terms[p].symbol])
    OBVIOUS
  <2> HIDE DEF F
  <2>4. SumOver(F(S), S) = F(S)[p] + SumOver(F(S), S \ {p})
    BY <1>1, <2>1, SumTake
  <2>5. SumOver(F(S), S \ {p}) = SumOver(F(S \ {p}), S \ {p})
    BY <1>1, <2>2, SumSame
  <2> QED BY <1>3, <2>3, <2>4, <2>5
<1> QED BY <1>2, <1>4, <1>5

LEMMA MarginOfTake ==
  ASSUME NEW S \in SUBSET Positions
  PROVE  /\ MarginOf(S) \in Int
         /\ \A p \in S :
              /\ Terms[p].margin \in Int
              /\ MarginOf(S) = Terms[p].margin + MarginOf(S \ {p})
<1> DEFINE F(T) == [p \in T |-> Terms[p].margin]
<1>1. \A T \in SUBSET Positions : IsFiniteSet(T)
  BY TermsAssumption, FS_Subset
<1>2. \A p \in Positions : Terms[p].margin \in Int
  BY TermsAssumption
<1>3. \A T \in SUBSET Positions : MarginOf(T) = SumOver(F(T), T)
  BY MarginOfIs
<1>4. MarginOf(S) \in Int
  <2>1. \A p \in S : F(S)[p] \in Int
    BY <1>2
  <2> HIDE DEF F
  <2> QED BY <1>1, <1>3, <2>1, SumType
<1>5. ASSUME NEW p \in S
      PROVE  MarginOf(S) = Terms[p].margin + MarginOf(S \ {p})
  <2>1. \A x \in S : F(S)[x] \in Int
    BY <1>2
  <2>2. \A x \in S \ {p} : F(S)[x] = F(S \ {p})[x]
    OBVIOUS
  <2>3. F(S)[p] = Terms[p].margin
    OBVIOUS
  <2> HIDE DEF F
  <2>4. SumOver(F(S), S) = F(S)[p] + SumOver(F(S), S \ {p})
    BY <1>1, <2>1, SumTake
  <2>5. SumOver(F(S), S \ {p}) = SumOver(F(S \ {p}), S \ {p})
    BY <1>1, <2>2, SumSame
  <2> QED BY <1>3, <2>3, <2>4, <2>5
<1> QED BY <1>2, <1>4, <1>5

-----------------------------------------------------------------------------
(***************************************************************************)
(* The engine: types                                                       *)
(***************************************************************************)
LEMMA EngineTypeInit == EngineInit => EngineTypeOK
BY InitType DEF EngineInit, EngineTypeOK, NoBook, Unread, TypeOK

LEMMA BeginType ==
  ASSUME TypeOK, NEW c \in Closers, NEW p \in Positions, NEW why \in Reasons,
         Begin(c, p, why), UNCHANGED <<rows, env>>
  PROVE  TypeOK'
BY DEF Begin, Goto, rows, env, TypeOK, PCs

LEMMA EndRoundType ==
  ASSUME EngineTypeOK, TypeOK', EndRound
  PROVE  EngineTypeOK'
BY DEF EngineTypeOK, EndRound, NoBook, Unread

LEMMA EngineStepType ==
  ASSUME EngineTypeOK, EngineStep
  PROVE  EngineTypeOK'
<1>0. TypeOK
  BY DEF EngineTypeOK
<1>1. ASSUME UNCHANGED vars PROVE TypeOK'
  BY <1>0, <1>1, TypeNext
<1>2. CASE StartRound
  <2>1. TypeOK'
    BY <1>1, <1>2 DEF StartRound
  <2> QED BY <1>2, <2>1 DEF StartRound, EngineTypeOK, OpenOnes, TypeOK
<1>3. ASSUME NEW p \in Positions, Skip(p) PROVE EngineTypeOK'
  <2>1. TypeOK'
    BY <1>1, <1>3 DEF Skip
  <2> QED BY <1>3, <2>1 DEF Skip, EngineTypeOK
<1>4. ASSUME NEW p \in Positions, Trigger(p) PROVE EngineTypeOK'
  <2>1. UNCHANGED <<rows, env, loop, stored, marked, seen, queue, account>> /\ listed' = listed \ {p}
    BY <1>4 DEF Trigger
  <2>2. CASE UNCHANGED <<local, awaited>>
    <3>1. TypeOK'
      BY <1>1, <2>1, <2>2 DEF vars
    <3> QED BY <2>1, <2>2, <3>1 DEF EngineTypeOK
  <2>3. ASSUME NEW c \in Closers, Begin(c, p, "PROTECTIVE"), awaited' = awaited \cup {c}
        PROVE  EngineTypeOK'
    <3>1. TypeOK'
      BY <1>0, <2>1, <2>3, BeginType DEF Reasons
    <3> QED BY <2>1, <2>3, <3>1 DEF EngineTypeOK
  <2> QED BY <1>4, <2>2, <2>3 DEF Trigger
<1>5. ASSUME NEW p \in Positions, Mark(p) PROVE EngineTypeOK'
  <2>1. Pnl(p, seen[Terms[p].symbol]) \in Int
    <3>1. Terms[p].symbol \in Symbols
      BY TermsAssumption
    <3> QED BY <3>1, PnlType DEF EngineTypeOK
  <2>2. pnl' \in [Positions -> Int]
    BY <1>0, <1>5, <2>1 DEF Mark, TypeOK
  <2>3. TypeOK'
    BY <1>0, <1>5, <2>2 DEF Mark, env, local, TypeOK
  <2> QED BY <1>5, <2>3 DEF Mark, EngineTypeOK
<1>6. ASSUME NEW c \in Closers, Collect(c) PROVE TypeOK'
  BY <1>0, <1>6, TypeNext DEF Next
<1>7. ASSUME NEW c \in Closers, Protects(c) PROVE EngineTypeOK'
  <2>1. TypeOK'
    BY <1>6, <1>7 DEF Protects, HearsOf
  <2> QED BY <1>7, <2>1 DEF Protects, EngineTypeOK
<1>8. ASSUME NEW c \in Closers, Liquidated(c) PROVE EngineTypeOK'
  <2>1. TypeOK'
    BY <1>6, <1>8 DEF Liquidated, HearsOf
  <2>2. target[c] \in Positions /\ priced[c] \in Quotes /\ seen \in [Symbols -> Quotes]
    BY DEF EngineTypeOK, TypeOK
  <2>3. Pnl(target[c], priced[c]) \in Int /\ Terms[target[c]].symbol \in Symbols
        /\ Terms[target[c]].margin \in Int
    BY <2>2, PnlType, TermsAssumption
  <2>4. Pnl(target[c], seen[Terms[target[c]].symbol]) \in Int
    BY <2>2, <2>3, PnlType
  <2>5. account' \in [balance : Int, pnl : Int, margin : Int]
    BY <1>8, <2>3, <2>4 DEF Liquidated, AfterLiquidation, EngineTypeOK
  <2> QED BY <1>8, <2>1, <2>5 DEF Liquidated, EngineTypeOK
<1>9. ASSUME NEW c \in Closers, Aborts(c) PROVE EngineTypeOK'
  BY <1>6, <1>9, EndRoundType DEF Aborts, HearsOf
<1>10. CASE Assess
  <2>1. TypeOK'
    BY <1>1, <1>10 DEF Assess
  <2>2. CASE EndRound
    BY <2>1, <2>2, EndRoundType
  <2>3. CASE /\ loop' = "liquidate" /\ queue' = marked
             /\ account' = [balance |-> balance, pnl |-> PnlOf(marked, seen),
                            margin |-> MarginOf(marked)]
             /\ UNCHANGED <<listed, stored, marked, seen, awaited>>
    <3>1. PnlOf(marked, seen) \in Int /\ MarginOf(marked) \in Int /\ balance \in Int
      BY PnlOfTake, MarginOfTake DEF EngineTypeOK, TypeOK
    <3> QED BY <2>1, <2>3, <3>1 DEF EngineTypeOK
  <2> QED BY <1>10, <2>2, <2>3 DEF Assess
<1>11. CASE Liquidate
  <2>1. PICK p \in Worst(queue) :
          /\ queue' = queue \ {p}
          /\ \/ UNCHANGED <<local, loop, awaited>>
             \/ \E c \in Closers :
                  /\ Begin(c, p, "LIQUIDATION")
                  /\ awaited' = {c}
                  /\ loop' = "await"
    BY <1>11 DEF Liquidate
  <2>2. UNCHANGED <<rows, env, listed, stored, marked, seen, account>>
    BY <1>11 DEF Liquidate
  <2>3. p \in Positions
    BY DEF Worst, EngineTypeOK
  <2>4. CASE UNCHANGED <<local, loop, awaited>>
    <3>1. TypeOK'
      BY <1>1, <2>2, <2>4 DEF vars
    <3> QED BY <2>1, <2>2, <2>4, <3>1 DEF EngineTypeOK
  <2>5. ASSUME NEW c \in Closers, Begin(c, p, "LIQUIDATION"), awaited' = {c}, loop' = "await"
        PROVE  EngineTypeOK'
    <3>1. TypeOK'
      BY <1>0, <2>2, <2>3, <2>5, BeginType DEF Reasons
    <3> QED BY <2>1, <2>2, <2>5, <3>1 DEF EngineTypeOK
  <2> QED BY <2>1, <2>4, <2>5
<1>12. CASE LiquidationEnds
  BY <1>1, <1>12, EndRoundType DEF LiquidationEnds
<1> QED BY <1>2, <1>3, <1>4, <1>5, <1>7, <1>8, <1>9, <1>10, <1>11, <1>12 DEF EngineStep

LEMMA EngineTypeNext == EngineTypeOK /\ [EngineNext]_allVars => EngineTypeOK'
<1> SUFFICES ASSUME EngineTypeOK, [EngineNext]_allVars PROVE EngineTypeOK'
  OBVIOUS
<1>1. TypeOK
  BY DEF EngineTypeOK
<1>2. CASE EngineStep
  BY <1>2, EngineStepType
<1>3. CASE RoundFails
  <2>1. faults' \in 0 .. MaxFaults
    BY <1>1, <1>3, FundsAssumption DEF RoundFails, OneFault, TypeOK
  <2>2. TypeOK'
    BY <1>1, <1>3, <2>1 DEF RoundFails, OneFault, rows, local, TypeOK
  <2> QED BY <1>3, <2>2, EndRoundType DEF RoundFails
<1>4. ASSUME [Next]_vars, UNCHANGED engine
      PROVE  EngineTypeOK'
  <2>1. TypeOK'
    BY <1>1, <1>4, TypeNext
  <2> QED BY <1>4, <2>1 DEF EngineTypeOK, engine
<1>5. CASE Crash /\ EndRound
  <2>1. TypeOK'
    BY <1>1, <1>5, TypeNext DEF Next
  <2> QED BY <1>5, <2>1, EndRoundType
<1>6. CASE UNCHANGED allVars
  BY <1>4, <1>6 DEF allVars
<1> QED BY <1>2, <1>3, <1>4, <1>5, <1>6 DEF EngineNext, Next

\* Every state the engine reaches is well typed, its book of the account
\* included.
THEOREM EngineTypeCorrect == EngineSpec => []EngineTypeOK
BY EngineTypeInit, EngineTypeNext, PTL DEF EngineSpec
-----------------------------------------------------------------------------
(***************************************************************************)
(* The engine: its rounds, while it alone closes positions and no call     *)
(* fails                                                                   *)
(***************************************************************************)

\* Calls that have not committed.
Before == {"quote", "live", "account", "commit"}

\* The engine's calls are all the calls there are, each for a position of its
\* own. A round lists the open positions; each leaves the list when it is
\* marked or its close is begun.
Rounds ==
  /\ awaited = {c \in Closers : pc[c] # "idle"}
  /\ loop \in {"idle", "liquidate"} => awaited = {}
  /\ loop = "idle" => marked = {}
  /\ loop = "await" => \A c, d \in awaited : c = d
  /\ loop = "mark" =>
       /\ listed \cap marked = {}
       /\ listed \cup marked \subseteq OpenOnes
       /\ \A c \in awaited : target[c] \notin listed \cup marked
  /\ \A c \in awaited :
       /\ pc[c] # "thrown" /\ reason[c] \in {"PROTECTIVE", "LIQUIDATION"}
       /\ pc[c] \in Before => state[target[c]] = "OPEN"
       /\ \A d \in awaited : target[c] = target[d] => c = d

LEMMA RoundsInit == EngineInit => Rounds
BY DEF EngineInit, Init, Rounds

\* The steps there are without a fault and without other callers.
LEMMA Faultless ==
  ASSUME Callers = {}, EngineTypeOK, [EngineNext]_allVars, faults' = 0
  PROVE  /\ faults = 0
         /\ \/ EngineStep
            \/ \E c \in Closers : CloserStep(c) /\ UNCHANGED engine
            \/ \E c \in Closers \ awaited : Collect(c)
            \/ UNCHANGED <<rows, local, engine>>
            \/ OtherFunds /\ UNCHANGED engine
<1>1. faults \in Nat
  BY FundsAssumption DEF EngineTypeOK, TypeOK
<1>2. ~OneFault
  BY <1>1 DEF OneFault
<1>3. ~RoundFails /\ ~Crash /\ \A c \in Closers : ~CallFails(c)
  BY <1>2 DEF RoundFails, Crash, CallFails
<1>4. \A c \in Closers, p \in Positions, why \in Callers : ~Call(c, p, why)
  OBVIOUS
<1>5. UNCHANGED faults
  <2>1. ASSUME EngineStep PROVE UNCHANGED faults
    BY <2>1 DEF EngineStep, StartRound, Skip, Trigger, Mark, Protects, Liquidated, Aborts, HearsOf,
                Collect, Assess, Liquidate, LiquidationEnds, vars, env
  <2>2. ASSUME NEW c \in Closers, CloserStep(c) \/ Collect(c) PROVE UNCHANGED faults
    BY <2>2 DEF CloserStep, ReadQuote, ReadPosition, ReadAccount, Commit, After, Collect, env
  <2>3. ASSUME OtherFunds \/ MarketTick \/ UNCHANGED allVars PROVE UNCHANGED faults
    BY <2>3 DEF OtherFunds, MarketTick, allVars, vars, env
  <2> QED BY <1>3, <1>4, <2>1, <2>2, <2>3 DEF EngineNext
<1>6. ASSUME (MarketTick /\ UNCHANGED engine) \/ UNCHANGED allVars
      PROVE  UNCHANGED <<rows, local, engine>>
  BY <1>6 DEF MarketTick, allVars, vars
<1> QED BY <1>3, <1>4, <1>5, <1>6 DEF EngineNext

\* A call the engine begins.
LEMMA RoundsBegin ==
  ASSUME EngineTypeOK, Rounds, NEW c \in Closers, NEW p \in OpenOnes, NEW why,
         Begin(c, p, why)
  PROVE  /\ c \notin awaited
         /\ pc' = [pc EXCEPT ![c] = "quote"]
         /\ target' = [target EXCEPT ![c] = p] /\ target'[c] = p
         /\ reason' = [reason EXCEPT ![c] = why] /\ reason'[c] = why
         /\ {d \in Closers : pc'[d] # "idle"} = awaited \cup {c}
         /\ \A d \in awaited : pc'[d] = pc[d] /\ target'[d] = target[d] /\ reason'[d] = reason[d]
<1> USE DEF EngineTypeOK, TypeOK
<1>1. c \notin awaited
  BY DEF Begin, Rounds
<1>2. pc' = [pc EXCEPT ![c] = "quote"] /\ pc'[c] = "quote"
  BY DEF Begin, Goto
<1>3. {d \in Closers : pc'[d] # "idle"} = awaited \cup {c}
  BY <1>2 DEF Rounds
<1> QED BY <1>1, <1>2, <1>3 DEF Begin

\* A call whose outcome the engine takes.
LEMMA RoundsCollect ==
  ASSUME EngineTypeOK, Rounds, NEW c \in awaited, Collect(c)
  PROVE  /\ {d \in Closers : pc'[d] # "idle"} = awaited \ {c}
         /\ \A d \in awaited \ {c} :
              pc'[d] = pc[d] /\ target'[d] = target[d] /\ reason'[d] = reason[d]
         /\ UNCHANGED <<rows, env>>
<1> USE DEF EngineTypeOK, TypeOK
<1>1. pc' = [pc EXCEPT ![c] = "idle"] /\ pc'[c] = "idle"
  BY DEF Collect, Goto
<1>2. {d \in Closers : pc'[d] # "idle"} = awaited \ {c}
  BY <1>1 DEF Rounds
<1> QED BY <1>1, <1>2 DEF Collect

LEMMA RoundsStep ==
  ASSUME EngineTypeOK, Rounds, EngineStep
  PROVE  Rounds'
<1> USE DEF EngineTypeOK, TypeOK
<1>1. CASE StartRound
  BY <1>1 DEF StartRound, vars, rows, local, Rounds, OpenOnes
<1>2. ASSUME NEW p \in Positions, Skip(p) PROVE Rounds'
  BY <1>2 DEF Skip, vars, rows, local, Rounds, OpenOnes
<1>3. ASSUME NEW p \in Positions, Trigger(p) PROVE Rounds'
  <2>1. /\ loop = "mark" /\ p \in listed /\ listed' = listed \ {p}
        /\ UNCHANGED <<state, loop, marked>>
    BY <1>3 DEF Trigger, rows
  <2>2. p \in OpenOnes /\ p \notin marked
    BY <2>1 DEF Rounds
  <2>3. CASE UNCHANGED <<local, awaited>>
    BY <2>1, <2>2, <2>3 DEF local, Rounds, OpenOnes
  <2>4. ASSUME NEW c \in Closers, Begin(c, p, "PROTECTIVE"), awaited' = awaited \cup {c}
        PROVE  Rounds'
    <3>1. /\ c \notin awaited
          /\ pc'[c] = "quote" /\ target'[c] = p /\ reason'[c] = "PROTECTIVE"
          /\ awaited' = {d \in Closers : pc'[d] # "idle"}
          /\ \A d \in awaited : pc'[d] = pc[d] /\ target'[d] = target[d] /\ reason'[d] = reason[d]
      BY <2>2, <2>4, RoundsBegin
    <3>2. \A d \in awaited : target'[d] # p
      BY <2>1, <3>1 DEF Rounds
    <3>3. \A d \in awaited' :
            /\ pc'[d] # "thrown" /\ reason'[d] \in {"PROTECTIVE", "LIQUIDATION"}
            /\ pc'[d] \in Before => state'[target'[d]] = "OPEN"
            /\ target'[d] \notin listed' \cup marked'
      BY <2>1, <2>2, <2>4, <3>1 DEF Rounds, OpenOnes
    <3>4. \A d, e \in awaited' : target'[d] = target'[e] => d = e
      <4>1. \A d, e \in awaited : target[d] = target[e] => d = e
        BY DEF Rounds
      <4>2. awaited' = awaited \cup {c} /\ target'[c] = p
        BY <2>4, <3>1
      <4>3. \A d \in awaited : target'[d] = target[d]
        BY <3>1
      <4> QED BY <3>2, <4>1, <4>2, <4>3
    <3>5. listed' \cap marked' = {} /\ listed' \cup marked' \subseteq OpenOnes'
      BY <2>1 DEF Rounds, OpenOnes
    <3>6. loop' = "mark"
      BY <2>1
    <3> QED BY <3>1, <3>3, <3>4, <3>5, <3>6 DEF Rounds
  <2> QED BY <1>3, <2>3, <2>4 DEF Trigger
<1>4. ASSUME NEW p \in Positions, Mark(p) PROVE Rounds'
  BY <1>4 DEF Mark, local, Rounds, OpenOnes
<1>5. ASSUME NEW c \in Closers, Protects(c) PROVE Rounds'
  <2>1. /\ c \in awaited /\ Collect(c) /\ awaited' = awaited \ {c}
        /\ loop = "mark" /\ UNCHANGED <<loop, listed, marked>>
    BY <1>5 DEF Protects, HearsOf
  <2>2. /\ awaited' = {d \in Closers : pc'[d] # "idle"}
        /\ \A d \in awaited' : pc'[d] = pc[d] /\ target'[d] = target[d] /\ reason'[d] = reason[d]
        /\ UNCHANGED state
    BY <2>1, RoundsCollect DEF rows
  <2>3. awaited' \subseteq awaited /\ OpenOnes' = OpenOnes
    BY <2>1, <2>2 DEF OpenOnes
  <2>4. /\ listed' \cap marked' = {}
        /\ listed' \cup marked' \subseteq OpenOnes'
        /\ \A d \in awaited' : target'[d] \notin listed' \cup marked'
    BY <2>1, <2>2, <2>3 DEF Rounds
  <2>5. \A d \in awaited' :
          /\ pc'[d] # "thrown" /\ reason'[d] \in {"PROTECTIVE", "LIQUIDATION"}
          /\ pc'[d] \in Before => state'[target'[d]] = "OPEN"
          /\ \A e \in awaited' : target'[d] = target'[e] => d = e
    BY <2>2, <2>3 DEF Rounds
  <2> QED BY <2>1, <2>2, <2>4, <2>5 DEF Rounds
<1>6. ASSUME NEW c \in Closers, Liquidated(c) PROVE Rounds'
  <2>1. c \in awaited /\ Collect(c) /\ awaited' = {} /\ loop = "await" /\ loop' = "liquidate"
    BY <1>6 DEF Liquidated, HearsOf
  <2>2. awaited = {c}
    BY <2>1 DEF Rounds
  <2>3. {d \in Closers : pc'[d] # "idle"} = awaited \ {c}
    BY <2>1, RoundsCollect
  <2> QED BY <2>1, <2>2, <2>3 DEF Rounds
<1>7. ASSUME NEW c \in Closers, Aborts(c) PROVE FALSE
  BY <1>7 DEF Aborts, HearsOf, Rounds
<1>8. ASSUME awaited = {}, UNCHANGED local, EndRound PROVE Rounds'
  BY <1>8 DEF EndRound, local, Rounds
<1>9. CASE Assess
  <2>1. awaited = {} /\ UNCHANGED local
    BY <1>9 DEF Assess, vars
  <2>2. CASE loop' = "liquidate" /\ UNCHANGED awaited
    BY <2>1, <2>2 DEF local, Rounds
  <2> QED BY <1>8, <1>9, <2>1, <2>2 DEF Assess
<1>10. CASE Liquidate
  <2>1. awaited = {} /\ loop = "liquidate" /\ UNCHANGED <<state, listed, marked>>
    BY <1>10 DEF Liquidate, Rounds, rows
  <2>2. CASE UNCHANGED <<local, loop, awaited>>
    BY <2>1, <2>2 DEF local, Rounds
  <2>3. ASSUME NEW c \in Closers, NEW p \in Worst(queue), Begin(c, p, "LIQUIDATION"),
               awaited' = {c}, loop' = "await"
        PROVE  Rounds'
    <3>1. p \in OpenOnes
      BY <2>3 DEF Begin, Worst, OpenOnes
    <3>2. /\ pc'[c] = "quote" /\ target'[c] = p /\ reason'[c] = "LIQUIDATION"
          /\ awaited' = {d \in Closers : pc'[d] # "idle"}
      BY <2>1, <2>3, <3>1, RoundsBegin
    <3> QED BY <2>1, <2>3, <3>1, <3>2 DEF Rounds, OpenOnes
  <2> QED BY <1>10, <2>2, <2>3 DEF Liquidate
<1>11. CASE LiquidationEnds
  BY <1>8, <1>11 DEF LiquidationEnds, Rounds, vars
<1> QED BY <1>1, <1>2, <1>3, <1>4, <1>5, <1>6, <1>7, <1>9, <1>10, <1>11 DEF EngineStep

\* A step of a call moves that call, and a position at its commit only.
LEMMA CloserMoves ==
  ASSUME EngineTypeOK, Rounds, NEW c \in Closers, CloserStep(c)
  PROVE  /\ c \in awaited
         /\ pc[c] \in Before \cup {"after"}
         /\ UNCHANGED <<target, reason>>
         /\ \A d \in Closers \ {c} : pc'[d] = pc[d]
         /\ pc'[c] \in {"live", "account", "commit", "after", "null", "closed"}
         /\ pc'[c] \in Before => pc[c] \in Before /\ UNCHANGED state
         /\ \A p \in Positions \ {target[c]} : state'[p] = state[p]
<1> USE DEF EngineTypeOK, TypeOK
<1>1. pc[c] \in Before \cup {"after"} /\ c \in awaited
  BY DEF CloserStep, ReadQuote, ReadPosition, ReadAccount, Commit, After, Before, Rounds
<1>2. reason[c] # "MANUAL" /\ (pc[c] \in Before => state[target[c]] = "OPEN")
  BY <1>1 DEF Rounds
<1>3. UNCHANGED <<target, reason>>
  BY DEF CloserStep, ReadQuote, ReadPosition, ReadAccount, Commit, After, Leave
<1>4. /\ \A d \in Closers \ {c} : pc'[d] = pc[d]
      /\ pc'[c] \in {"live", "account", "commit", "after", "null", "closed"}
  BY <1>2 DEF CloserStep, ReadQuote, ReadPosition, ReadAccount, Commit, After, Leave, Goto,
              StillOpen, Before
<1>5. CASE Commit(c)
  BY <1>1, <1>3, <1>4, <1>5, StateAfterCommit DEF Commit, Goto, Before
<1>6. CASE ReadQuote(c) \/ ReadPosition(c) \/ ReadAccount(c) \/ After(c)
  <2>1. UNCHANGED state
    BY <1>6 DEF ReadQuote, ReadPosition, ReadAccount, After, rows
  <2>2. pc'[c] \in Before => pc[c] \in Before
    BY <1>6 DEF ReadQuote, ReadPosition, ReadAccount, After, Before, Leave, Goto
  <2> QED BY <1>1, <1>3, <1>4, <2>1, <2>2
<1> QED BY <1>5, <1>6 DEF CloserStep

LEMMA RoundsCloser ==
  ASSUME EngineTypeOK, Rounds, NEW c \in Closers, CloserStep(c), UNCHANGED engine
  PROVE  Rounds'
<1> USE DEF EngineTypeOK, TypeOK
<1>1. UNCHANGED <<loop, listed, marked, awaited>>
  BY DEF engine
<1>2. awaited' = {d \in Closers : pc'[d] # "idle"}
  <2>1. c \in awaited /\ pc'[c] # "idle" /\ \A d \in Closers \ {c} : pc'[d] = pc[d]
    BY CloserMoves
  <2>2. awaited = {d \in Closers : pc[d] # "idle"}
    BY DEF Rounds
  <2>3. \A d \in Closers : d \in awaited <=> pc'[d] # "idle"
    BY <2>1, <2>2
  <2> QED BY <1>1, <2>3
<1>3. \A d \in awaited' :
        /\ pc'[d] # "thrown" /\ reason'[d] \in {"PROTECTIVE", "LIQUIDATION"}
        /\ \A e \in awaited' : target'[d] = target'[e] => d = e
  <2>1. UNCHANGED <<target, reason>> /\ pc'[c] # "thrown" /\ \A d \in Closers \ {c} : pc'[d] = pc[d]
    BY CloserMoves
  <2>2. \A d \in awaited :
          /\ pc[d] # "thrown" /\ reason[d] \in {"PROTECTIVE", "LIQUIDATION"}
          /\ \A e \in awaited : target[d] = target[e] => d = e
    BY DEF Rounds
  <2>3. awaited \subseteq Closers
    OBVIOUS
  <2> QED BY <1>1, <2>1, <2>2, <2>3
<1>4. ASSUME NEW d \in awaited', pc'[d] \in Before
      PROVE  state'[target'[d]] = "OPEN"
  <2>1. target'[d] = target[d] /\ d \in awaited
    BY <1>1, CloserMoves
  <2>2. CASE d = c
    <3>1. pc[c] \in Before /\ UNCHANGED state
      BY <1>4, <2>2, CloserMoves
    <3> QED BY <2>1, <2>2, <3>1 DEF Rounds
  <2>3. CASE d # c
    <3>1. pc[d] = pc'[d] /\ target[d] # target[c] /\ target[d] \in Positions
      BY <1>1, <2>1, <2>3, CloserMoves DEF Rounds
    <3>2. state[target[d]] = "OPEN"
      BY <1>4, <2>1, <3>1 DEF Rounds
    <3>3. state'[target[d]] = state[target[d]]
      BY <3>1, CloserMoves
    <3> QED BY <2>1, <3>2, <3>3
  <2> QED BY <2>2, <2>3
<1>5. loop = "mark" => listed \cup marked \subseteq OpenOnes'
  BY CloserMoves DEF Rounds, OpenOnes
<1>6. UNCHANGED target
  BY CloserMoves
<1>7. /\ loop \in {"idle", "liquidate"} => awaited = {}
      /\ loop = "idle" => marked = {}
      /\ loop = "await" => \A d, e \in awaited : d = e
      /\ loop = "mark" => /\ listed \cap marked = {}
                          /\ \A d \in awaited : target[d] \notin listed \cup marked
  BY DEF Rounds
<1> HIDE DEF EngineTypeOK, TypeOK
<1>8. loop' = "mark" =>
        /\ listed' \cap marked' = {}
        /\ listed' \cup marked' \subseteq OpenOnes'
        /\ \A d \in awaited' : target'[d] \notin listed' \cup marked'
  BY <1>1, <1>5, <1>6, <1>7
<1>9. /\ loop' \in {"idle", "liquidate"} => awaited' = {}
      /\ loop' = "idle" => marked' = {}
      /\ loop' = "await" => \A d, e \in awaited' : d = e
  BY <1>1, <1>7
<1> QED BY <1>2, <1>3, <1>4, <1>8, <1>9 DEF Rounds

LEMMA RoundsNext ==
  ASSUME Callers = {}, EngineTypeOK, faults = 0 => Rounds, [EngineNext]_allVars
  PROVE  faults' = 0 => Rounds'
<1> SUFFICES ASSUME faults' = 0 PROVE Rounds'
  OBVIOUS
<1>1. Rounds
  BY Faultless
<1>2. CASE EngineStep
  BY <1>1, <1>2, RoundsStep
<1>3. ASSUME NEW c \in Closers, CloserStep(c) /\ UNCHANGED engine PROVE Rounds'
  BY <1>1, <1>3, RoundsCloser
<1>4. ASSUME NEW c \in Closers \ awaited, Collect(c) PROVE FALSE
  BY <1>1, <1>4 DEF Rounds, Collect, Outcomes
<1>5. CASE UNCHANGED <<rows, local, engine>> \/ (OtherFunds /\ UNCHANGED engine)
  BY <1>1, <1>5 DEF OtherFunds, rows, local, engine, Rounds, OpenOnes
<1> QED BY <1>2, <1>3, <1>4, <1>5, Faultless
\* What the engine's own steps leave alone.
LEMMA EngineLeaves ==
  ASSUME EngineStep
  PROVE  /\ UNCHANGED <<state, balance, ledger>>
         /\ UNCHANGED pnl \/ \E p \in Positions : Mark(p)
BY DEF EngineStep, StartRound, Skip, Trigger, Mark, Protects, Liquidated, Aborts, HearsOf, Collect,
       Assess, Liquidate, LiquidationEnds, vars, rows

LEMMA EnginePosts ==
  ASSUME [EngineNext]_allVars
  PROVE  Posts
<1>1. ASSUME EngineStep PROVE Posts
  BY <1>1, EngineLeaves DEF Posts
<1>2. ASSUME RoundFails PROVE Posts
  BY <1>2 DEF RoundFails, rows, Posts
<1>3. ASSUME [Next]_vars PROVE Posts
  BY <1>3, WhoPosts
<1>4. UNCHANGED allVars => UNCHANGED vars
  BY DEF allVars
<1>5. [EngineNext]_allVars => EngineStep \/ RoundFails \/ [Next]_vars
  BY <1>4 DEF EngineNext, Next
<1> QED BY <1>1, <1>2, <1>3, <1>5

LEMMA EngineEntered == EngineSpec => []ClosedIffEntered
<1>1. EngineInit => ClosedIffEntered
  BY DEF EngineInit, Init, ClosedIffEntered, Trades
<1>2. EngineTypeOK /\ ClosedIffEntered /\ [EngineNext]_allVars => ClosedIffEntered'
  BY EnteredKept, EnginePosts DEF EngineTypeOK
<1> QED BY <1>1, <1>2, EngineTypeCorrect, PTL DEF EngineSpec

\* While nothing but closes moves the balance, the ledger's last entry states
\* it, whatever the engine closes at once and whatever fails.
THEOREM EngineLastEntryMatches ==
  ASSUME Moves = {}
  PROVE  EngineSpec => []LastEntryMatchesBalance
<1>1. EngineInit => LastEntryMatchesBalance
  BY DEF EngineInit, Init, LastEntryMatchesBalance
<1>2. EngineTypeOK /\ LastEntryMatchesBalance /\ [EngineNext]_allVars => LastEntryMatchesBalance'
  BY LastEntryKept, EnginePosts DEF EngineTypeOK
<1> QED BY <1>1, <1>2, EngineTypeCorrect, PTL DEF EngineSpec

-----------------------------------------------------------------------------
(***************************************************************************)
(* The engine: each position has one result, and keeps it                  *)
(***************************************************************************)
Realized  == \A p \in Positions : state[p] = "CLOSED" =>
               \E i \in Trades(p) : pnl[p] = ledger[i].change

\* A commit of a position that was open.
LEMMA ResultsCommit ==
  ASSUME TypeOK, ClosedIffEntered, OneResult, Realized, NEW c \in Closers, Commit(c),
         state[target[c]] = "OPEN"
  PROVE  OneResult' /\ Realized'
<1> DEFINE t == target[c]
<1>1. Trades(t) = {} /\ t \in Positions
  BY DEF ClosedIffEntered, TypeOK
<1>2. OneResult'
  <2> SUFFICES ASSUME NEW p \in Positions PROVE \A i, j \in Trades(p)' : i = j
    BY DEF OneResult
  <2>1. CASE p = t
    BY <1>1, <2>1, TradesAfterCommit
  <2>2. CASE p # t
    BY <2>2, TradesAfterCommit DEF OneResult
  <2> QED BY <2>1, <2>2
<1>3. PICK new \in Seq(Entry) :
        /\ ledger' = ledger \o new
        /\ Len(new) \in {1, 2}
        /\ new[1].change = Pnl(t, priced[c])
  BY CommitEntries
<1>4. /\ \A i \in DOMAIN ledger : ledger'[i] = ledger[i]
      /\ ledger'[Len(ledger) + 1].change = Pnl(t, priced[c])
  <2>1. ledger \in Seq(Entry) /\ Len(new) \in Nat /\ Len(new) >= 1
    BY <1>3 DEF TypeOK
  <2>2. ledger'[Len(ledger) + 1] = new[1]
    BY <1>3, <2>1
  <2> QED BY <1>3, <2>1, <2>2
<1>5. pnl' = [pnl EXCEPT ![t] = Pnl(t, priced[c])]
  BY DEF Commit
<1>6. Realized'
  <2> SUFFICES ASSUME NEW p \in Positions, state'[p] = "CLOSED"
               PROVE  \E i \in Trades(p)' : pnl'[p] = ledger'[i].change
    BY DEF Realized
  <2>1. CASE p = t
    <3>1. Len(ledger) + 1 \in Trades(p)'
      BY <2>1, TradesAfterCommit
    <3>2. pnl'[p] = Pnl(t, priced[c])
      BY <1>1, <1>5, <2>1 DEF TypeOK
    <3> QED BY <1>4, <3>1, <3>2
  <2>2. CASE p # t
    <3>1. state[p] = "CLOSED" /\ Trades(p)' = Trades(p)
      <4>1. state'[p] = state[p]
        BY <2>2, StateAfterCommit
      <4>2. Trades(p)' = Trades(p) \cup {}
        BY <2>2, TradesAfterCommit
      <4> QED BY <4>1, <4>2
    <3>2. PICK i \in Trades(p) : pnl[p] = ledger[i].change
      BY <3>1 DEF Realized
    <3>3. i \in DOMAIN ledger /\ pnl'[p] = pnl[p]
      BY <1>1, <1>5, <2>2 DEF Trades, TypeOK
    <3> QED BY <1>4, <3>1, <3>2, <3>3
  <2> QED BY <2>1, <2>2
<1> QED BY <1>2, <1>6

LEMMA ResultsSame ==
  ASSUME OneResult, Realized, UNCHANGED <<state, ledger>>,
         \A p \in Positions : state[p] = "CLOSED" => pnl'[p] = pnl[p]
  PROVE  OneResult' /\ Realized'
<1>1. \A p \in Positions : Trades(p)' = Trades(p)
  BY DEF Trades
<1> QED BY <1>1 DEF OneResult, Realized

LEMMA ResultsNext ==
  ASSUME Callers = {}, EngineTypeOK, ClosedIffEntered, [EngineNext]_allVars,
         faults = 0 => Rounds /\ OneResult /\ Realized
  PROVE  faults' = 0 => OneResult' /\ Realized'
<1> SUFFICES ASSUME faults' = 0 PROVE OneResult' /\ Realized'
  OBVIOUS
<1>1. Rounds /\ OneResult /\ Realized /\ TypeOK
  BY Faultless DEF EngineTypeOK
<1>2. CASE EngineStep
  <2>1. ASSUME NEW p \in Positions, Mark(p)
        PROVE  \A q \in Positions : state[q] = "CLOSED" => pnl'[q] = pnl[q]
    <3>1. state[p] = "OPEN"
      BY <1>1, <2>1 DEF Mark, Rounds, OpenOnes
    <3>2. \A q \in Positions \ {p} : pnl'[q] = pnl[q]
      BY <1>1, <2>1 DEF Mark, TypeOK
    <3> QED BY <3>1, <3>2
  <2> QED BY <1>1, <1>2, <2>1, EngineLeaves, ResultsSame
<1>3. ASSUME NEW c \in Closers, CloserStep(c) /\ UNCHANGED engine
      PROVE  OneResult' /\ Realized'
  <2>1. CASE Commit(c)
    <3>1. state[target[c]] = "OPEN"
      BY <1>1, <2>1 DEF Rounds, Commit, Before
    <3> QED BY <1>1, <2>1, <3>1, ResultsCommit
  <2>2. CASE ReadQuote(c) \/ ReadPosition(c) \/ ReadAccount(c) \/ After(c)
    <3>1. UNCHANGED <<state, ledger, pnl>>
      BY <2>2 DEF ReadQuote, ReadPosition, ReadAccount, After, rows
    <3> QED BY <1>1, <3>1, ResultsSame
  <2> QED BY <1>3, <2>1, <2>2 DEF CloserStep
<1>4. ASSUME NEW c \in Closers \ awaited, Collect(c)
      PROVE  OneResult' /\ Realized'
  BY <1>1, <1>4, ResultsSame DEF Collect, rows
<1>5. CASE UNCHANGED <<rows, local, engine>> \/ (OtherFunds /\ UNCHANGED engine)
  BY <1>1, <1>5, ResultsSame DEF OtherFunds, rows
<1> QED BY <1>2, <1>3, <1>4, <1>5, Faultless

\* While the engine alone closes positions and no call fails, each position has
\* one result, and its row keeps the PnL that was posted: neither the round's
\* other closes nor the marks of this round and the next touch it again.
THEOREM EngineResultsKept ==
  ASSUME Callers = {}
  PROVE  EngineSpec => []EngineKeepsResults
<1> DEFINE Kept == faults = 0 => Rounds /\ OneResult /\ Realized
<1>1. EngineInit => Kept
  BY RoundsInit DEF EngineInit, Init, OneResult, Realized, Trades
<1>2. EngineTypeOK /\ ClosedIffEntered /\ Kept /\ [EngineNext]_allVars => Kept'
  BY RoundsNext, ResultsNext
<1>3. EngineTypeOK /\ Kept => EngineKeepsResults
  BY OneResultIsSettledOnce DEF EngineKeepsResults, RealizedPnlIsKept, EngineSettlesOnce, Realized
<1> QED BY <1>1, <1>2, <1>3, EngineTypeCorrect, EngineEntered, PTL DEF EngineSpec
-----------------------------------------------------------------------------
(***************************************************************************)
(* The engine: its book of the account                                     *)
(***************************************************************************)

\* What the book is about: the positions of the round that are still open.
Counted == OpenOnes \cap marked

Totals(S) == account.pnl = PnlOf(S, seen) /\ account.margin = MarginOf(S)

\* Between two liquidations the book is right; during one it lacks what the
\* call has committed and the engine has not heard of.
Book ==
  /\ loop \in {"liquidate", "await"} => queue \subseteq marked
  /\ loop = "liquidate" => account.balance = balance /\ Totals(Counted)
  /\ loop = "await" => \A c \in awaited :
       /\ target[c] \in marked
       /\ pc[c] \in Before \cup {"null"} => account.balance = balance /\ Totals(Counted)
       /\ pc[c] \in {"after", "closed"} =>
            /\ state[target[c]] # "OPEN"
            /\ account.balance + Pnl(target[c], priced[c]) = balance
            /\ Totals(Counted \cup {target[c]})
       /\ pc[c] = "commit" => held[c] = balance

\* A call whose loss exceeds the balance leaves a correction, for good.
LEMMA ForgivenStays ==
  ASSUME TypeOK, Posts, Forgiven
  PROVE  Forgiven'
<1>1. CASE UNCHANGED ledger
  BY <1>1 DEF Forgiven
<1>2. ASSUME NEW c \in Closers, Commit(c) PROVE Forgiven'
  <2>1. PICK new \in Seq(Entry) : ledger' = ledger \o new
    BY <1>2, CommitEntries
  <2>2. \A i \in DOMAIN ledger : i \in DOMAIN ledger' /\ ledger'[i] = ledger[i]
    BY <2>1 DEF TypeOK
  <2> QED BY <2>2 DEF Forgiven
<1> QED BY <1>1, <1>2 DEF Posts, OtherFunds

LEMMA CommitForgives ==
  ASSUME TypeOK, NEW c \in Closers, Commit(c), ~Forgiven'
  PROVE  balance' = held[c] + Pnl(target[c], priced[c])
<1> DEFINE p == target[c]
           raw == held[c] + Pnl(p, priced[c])
<1>1. raw \in Int /\ balance' = Protected(raw)
  <2>1. held[c] \in Int /\ Pnl(p, priced[c]) \in Int
    BY CommitType DEF TypeOK
  <2> QED BY <2>1 DEF Commit
<1> SUFFICES ASSUME raw < 0 PROVE FALSE
  BY <1>1 DEF Protected
<1> DEFINE first == [kind |-> IF Pnl(p, priced[c]) >= 0 THEN "TRADE_CLOSE_GAIN" ELSE "TRADE_CLOSE_LOSS",
                     position |-> p, change |-> Pnl(p, priced[c]), after |-> Protected(raw)]
           second == [kind |-> "CORRECTION", position |-> p, change |-> -raw, after |-> 0]
<1>2. ledger' = ledger \o (<<first>> \o <<second>>)
  BY DEF Commit, CloseEntries, Correction
<1>3. second.kind = "CORRECTION" /\ second \in Entry /\ first \in Entry
  <2>1. Protected(raw) = 0 /\ -raw \in Int
    BY <1>1 DEF Protected
  <2> QED BY <2>1, CommitType DEF Entry, Kinds
<1> HIDE DEF first, second
<1>4. Len(ledger) + 2 \in DOMAIN ledger' /\ ledger'[Len(ledger) + 2] = second
  BY <1>2, <1>3 DEF TypeOK
<1> QED BY <1>3, <1>4 DEF Forgiven

LEMMA BookStep ==
  ASSUME EngineTypeOK, Rounds, Book, EngineStep
  PROVE  Book'
<1> USE DEF EngineTypeOK, TypeOK
<1>1. ASSUME loop' \in {"idle", "mark"} PROVE Book'
  BY <1>1 DEF Book
<1>2. ASSUME StartRound \/ LiquidationEnds
             \/ \E p \in Positions : Skip(p) \/ Trigger(p) \/ Mark(p)
      PROVE  Book'
  BY <1>1, <1>2 DEF StartRound, LiquidationEnds, EndRound, Skip, Trigger, Mark
<1>3. ASSUME NEW c \in Closers, Protects(c) \/ Aborts(c) PROVE Book'
  BY <1>1, <1>3 DEF Protects, Aborts, EndRound
<1>4. CASE Assess
  <2>1. CASE EndRound
    BY <1>1, <2>1 DEF EndRound
  <2>2. CASE /\ loop' = "liquidate" /\ queue' = marked
             /\ account' = [balance |-> balance, pnl |-> PnlOf(marked, seen),
                            margin |-> MarginOf(marked)]
             /\ UNCHANGED <<listed, stored, marked, seen, awaited>>
    <3>1. UNCHANGED <<state, balance>>
      BY <1>4 DEF Assess, vars, rows
    <3>2. Counted' = marked
      BY <1>4, <2>2, <3>1 DEF Assess, Rounds, Counted, OpenOnes
    <3> QED BY <2>2, <3>1, <3>2 DEF Book, Totals
  <2> QED BY <1>4, <2>1, <2>2 DEF Assess
<1>5. CASE Liquidate
  <2>1. /\ loop = "liquidate" /\ queue' \subseteq queue
        /\ UNCHANGED <<state, balance, marked, seen, account>>
    BY <1>5 DEF Liquidate, rows
  <2>2. /\ queue' \subseteq marked' /\ account'.balance = balance'
        /\ account'.pnl = PnlOf(Counted', seen') /\ account'.margin = MarginOf(Counted')
    BY <2>1 DEF Book, Totals, Counted, OpenOnes
  <2>3. CASE UNCHANGED loop
    BY <2>1, <2>2, <2>3 DEF Book, Totals
  <2>4. ASSUME NEW p \in Worst(queue), NEW c \in Closers, Begin(c, p, "LIQUIDATION"),
               awaited' = {c}, loop' = "await"
        PROVE  Book'
    <3>1. pc'[c] = "quote" /\ target'[c] = p /\ p \in marked'
      BY <2>1, <2>4 DEF Begin, Goto, Worst, Book
    <3> QED BY <2>2, <2>4, <3>1 DEF Book, Totals
  <2> QED BY <1>5, <2>3, <2>4 DEF Liquidate
<1>6. ASSUME NEW c \in Closers, Liquidated(c) PROVE Book'
  <2>1. /\ loop = "await" /\ c \in awaited /\ pc[c] \in {"closed", "null"} /\ loop' = "liquidate"
        /\ UNCHANGED <<state, balance, marked, seen, queue>>
    BY <1>6 DEF Liquidated, HearsOf, Collect, rows
  <2>2. Counted' = Counted /\ queue' \subseteq marked'
    BY <2>1 DEF Counted, OpenOnes, Book
  <2>3. CASE pc[c] = "null"
    <3>1. account' = account /\ account.balance = balance /\ Totals(Counted)
      BY <1>6, <2>1, <2>3 DEF Liquidated, Book
    <3> QED BY <2>1, <2>2, <3>1 DEF Book, Totals
  <2>4. CASE pc[c] = "closed"
    <3> DEFINE t == target[c]
    <3>1. /\ state[t] # "OPEN"
          /\ account.balance + Pnl(t, priced[c]) = balance
          /\ account.pnl = PnlOf(Counted \cup {t}, seen)
          /\ account.margin = MarginOf(Counted \cup {t})
      BY <2>1, <2>4 DEF Book, Totals
    <3>2. account' = AfterLiquidation(t, Pnl(t, priced[c]))
      BY <1>6, <2>4 DEF Liquidated
    <3>3. (Counted \cup {t}) \ {t} = Counted /\ Counted \cup {t} \subseteq Positions
      BY <3>1 DEF Counted, OpenOnes
    <3>4. /\ PnlOf(Counted \cup {t}, seen)
               = Pnl(t, seen[Terms[t].symbol]) + PnlOf((Counted \cup {t}) \ {t}, seen)
          /\ Pnl(t, seen[Terms[t].symbol]) \in Int /\ PnlOf(Counted, seen) \in Int
      <4>1. t \in Counted \cup {t} /\ Counted \in SUBSET Positions /\ seen \in [Symbols -> Quotes]
        BY <3>3
      <4> HIDE DEF t
      <4> QED BY <3>3, <4>1, PnlOfTake
    <3>5. /\ MarginOf(Counted \cup {t}) = Terms[t].margin + MarginOf((Counted \cup {t}) \ {t})
          /\ Terms[t].margin \in Int /\ MarginOf(Counted) \in Int
      <4>1. t \in Counted \cup {t} /\ Counted \in SUBSET Positions
        BY <3>3
      <4> HIDE DEF t
      <4> QED BY <3>3, <4>1, MarginOfTake
    <3> HIDE DEF t
    <3>6. /\ account'.balance = account.balance + Pnl(t, priced[c])
          /\ account'.pnl = account.pnl - Pnl(t, seen[Terms[t].symbol])
          /\ account'.margin = account.margin - Terms[t].margin
      BY <3>2 DEF AfterLiquidation
    <3>7. account'.pnl = PnlOf(Counted, seen)
      <4>1. account.pnl = Pnl(t, seen[Terms[t].symbol]) + PnlOf(Counted, seen)
        BY <3>1, <3>3, <3>4, Zenon
      <4> QED BY <3>4, <3>6, <4>1
    <3>8. account'.margin = MarginOf(Counted)
      <4>1. account.margin = Terms[t].margin + MarginOf(Counted)
        BY <3>1, <3>3, <3>5, Zenon
      <4> QED BY <3>5, <3>6, <4>1
    <3> QED BY <2>1, <2>2, <3>1, <3>6, <3>7, <3>8 DEF Book, Totals
  <2> QED BY <2>1, <2>3, <2>4
<1> QED BY <1>2, <1>3, <1>4, <1>5, <1>6 DEF EngineStep

LEMMA BookCloser ==
  ASSUME EngineTypeOK, Rounds, Book, NEW c \in Closers, CloserStep(c), UNCHANGED engine,
         ~Forgiven'
  PROVE  Book'
<1> USE DEF EngineTypeOK, TypeOK
<1>1. /\ c \in awaited
      /\ UNCHANGED <<loop, marked, awaited, queue, account, seen, target>>
  BY CloserMoves DEF engine
<1>2. loop # "await" => Book'
  <2>1. loop # "liquidate"
    BY <1>1 DEF Rounds
  <2> QED BY <1>1, <2>1 DEF Book
<1> SUFFICES ASSUME loop = "await" PROVE Book'
  BY <1>2
<1>3. awaited = {c} /\ target[c] \in marked /\ queue \subseteq marked
  <2>1. \A d \in awaited : d = c
    BY <1>1 DEF Rounds
  <2> QED BY <1>1, <2>1 DEF Book
<1>4. CASE ReadQuote(c) \/ ReadPosition(c) \/ ReadAccount(c)
  <2>1. /\ UNCHANGED <<state, balance>>
        /\ pc[c] \in Before /\ pc'[c] \in Before \cup {"null"}
    BY <1>4, CloserMoves
       DEF ReadQuote, ReadPosition, ReadAccount, rows, Before, Leave, Goto
  <2>2. pc'[c] = "commit" => held'[c] = balance'
    BY <1>4 DEF ReadQuote, ReadPosition, ReadAccount, rows, Leave, Goto
  <2>3. account.balance = balance /\ Totals(Counted)
    BY <1>3, <2>1 DEF Book
  <2>4. Counted' = Counted
    BY <1>1, <2>1 DEF Counted, OpenOnes
  <2> QED BY <1>1, <1>3, <2>1, <2>2, <2>3, <2>4 DEF Book, Totals, Before
<1>5. CASE Commit(c)
  <2> DEFINE t == target[c]
  <2>1. /\ pc[c] = "commit" /\ pc'[c] = "after" /\ priced'[c] = priced[c]
        /\ state[t] = "OPEN" /\ t \in Positions
    BY <1>1, <1>5 DEF Commit, Goto, Rounds, Before
  <2>2. /\ account.balance = balance /\ held[c] = balance
        /\ account.pnl = PnlOf(Counted, seen) /\ account.margin = MarginOf(Counted)
    BY <1>3, <2>1 DEF Book, Before, Totals
  <2>3. balance' = balance + Pnl(t, priced[c])
    BY <1>5, <2>2, CommitForgives
  <2>4. \A p \in Positions : state'[p] = IF p = t THEN "CLOSED" ELSE state[p]
    BY <1>5, StateAfterCommit
  <2>5. Counted' \cup {t} = Counted /\ state'[t] # "OPEN"
    BY <1>1, <1>3, <2>1, <2>4 DEF Counted, OpenOnes
  <2>6. /\ target'[c] = t
        /\ account'.balance + Pnl(target'[c], priced'[c]) = balance'
        /\ account'.pnl = PnlOf(Counted' \cup {target'[c]}, seen')
        /\ account'.margin = MarginOf(Counted' \cup {target'[c]})
    BY <1>1, <2>1, <2>2, <2>3, <2>5
  <2> QED BY <1>1, <1>3, <2>1, <2>5, <2>6 DEF Book, Totals, Before
<1>6. CASE After(c)
  <2>1. /\ UNCHANGED <<state, balance, priced>>
        /\ pc[c] = "after" /\ pc'[c] = "closed"
    BY <1>6 DEF After, Leave, Goto
  <2>2. Counted' = Counted
    BY <1>1, <2>1 DEF Counted, OpenOnes
  <2> QED BY <1>1, <1>3, <2>1, <2>2 DEF Book, Totals, Before
<1> QED BY <1>4, <1>5, <1>6 DEF CloserStep

LEMMA BookNext ==
  ASSUME Callers = {}, Moves = {}, EngineTypeOK, [EngineNext]_allVars, faults = 0 => Rounds,
         faults = 0 /\ ~Forgiven => Book
  PROVE  faults' = 0 /\ ~Forgiven' => Book'
<1> SUFFICES ASSUME faults' = 0, ~Forgiven' PROVE Book'
  OBVIOUS
<1>1. Rounds /\ Book
  BY Faultless, ForgivenStays, EnginePosts DEF EngineTypeOK
<1>2. CASE EngineStep
  BY <1>1, <1>2, BookStep
<1>3. ASSUME NEW c \in Closers, CloserStep(c) /\ UNCHANGED engine PROVE Book'
  BY <1>1, <1>3, BookCloser
<1>4. ASSUME NEW c \in Closers \ awaited, Collect(c) PROVE FALSE
  BY <1>1, <1>4 DEF Rounds, Collect, Outcomes
<1>5. CASE UNCHANGED <<rows, local, engine>>
  BY <1>1, <1>5 DEF rows, local, engine, Book, Totals, Counted, OpenOnes
<1>6. ~OtherFunds
  BY DEF OtherFunds
<1> QED BY <1>2, <1>3, <1>4, <1>5, <1>6, Faultless

LEMMA OnlyLiquidates ==
  ASSUME Callers = {}, EngineTypeOK, EngineNext, NEW c \in Closers,
         pc[c] = "idle", pc'[c] = "quote", reason'[c] = "LIQUIDATION"
  PROVE  Liquidate
<1> USE DEF EngineTypeOK, TypeOK
<1>1. ~UNCHANGED local
  BY DEF local
<1>2. ASSUME NEW d \in Closers, CloserStep(d) \/ CallFails(d) \/ Collect(d) PROVE FALSE
  <2>1. \A e \in Closers \ {d} : pc'[e] = pc[e]
    BY <1>2 DEF CloserStep, ReadQuote, ReadPosition, ReadAccount, Commit, After, CallFails,
                Collect, Leave, Goto
  <2>2. Collect(d) => pc'[d] = "idle"
    BY DEF Collect, Goto
  <2>3. ~Collect(d) => pc[d] # "idle"
    BY <1>2 DEF CloserStep, ReadQuote, ReadPosition, ReadAccount, Commit, After, CallFails
  <2> QED BY <2>1, <2>2, <2>3
<1>3. ASSUME NEW p \in Positions, Trigger(p) PROVE FALSE
  <2>1. PICK d \in Closers : Begin(d, p, "PROTECTIVE")
    BY <1>1, <1>3 DEF Trigger
  <2>2. reason'[d] = "PROTECTIVE" /\ \A e \in Closers \ {d} : pc'[e] = pc[e]
    BY <2>1 DEF Begin, Goto
  <2> QED BY <2>2
<1>4. ~Crash
  BY DEF Crash
<1>5. ~OtherFunds /\ ~MarketTick /\ ~RoundFails
  BY <1>1 DEF OtherFunds, MarketTick, RoundFails
<1>6. ~StartRound /\ ~Assess /\ ~LiquidationEnds /\ \A p \in Positions : ~Skip(p) /\ ~Mark(p)
  BY <1>1 DEF StartRound, Assess, LiquidationEnds, Skip, Mark, vars
<1>7. \A d \in Closers : ~Protects(d) /\ ~Liquidated(d) /\ ~Aborts(d)
  BY <1>2 DEF Protects, Liquidated, Aborts, HearsOf
<1> QED BY <1>2, <1>3, <1>4, <1>5, <1>6, <1>7 DEF EngineNext, EngineStep

\* While the engine alone moves the account, no call fails and every open
\* position counts, none is liquidated once the account is above the stop-out
\* level: the book the engine goes by, kept from the results of its calls, is
\* what the account and its open positions amount to.
THEOREM LiquidatesAtStopOut ==
  ASSUME Callers = {}, Moves = {}
  PROVE  EngineSpec => LiquidatesOnlyAtStopOut
<1> DEFINE Orderly == (faults = 0 => Rounds) /\ (faults = 0 /\ ~Forgiven => Book)
           Right == \A c \in Closers :
                      /\ faults = 0 /\ ~Forgiven
                      /\ OpenOnes \subseteq marked
                      /\ pc[c] = "idle" /\ pc'[c] = "quote" /\ reason'[c] = "LIQUIDATION"
                      => AccountAtStopOut
<1>1. EngineInit => Orderly
  BY RoundsInit DEF EngineInit, Book
<1>2. EngineTypeOK /\ Orderly /\ [EngineNext]_allVars => Orderly'
  BY RoundsNext, BookNext
<1>3. EngineTypeOK /\ Orderly /\ [EngineNext]_allVars => [Right]_allVars
  <2> SUFFICES ASSUME EngineTypeOK, Orderly, EngineNext, NEW c \in Closers,
                      faults = 0, ~Forgiven, OpenOnes \subseteq marked,
                      pc[c] = "idle", pc'[c] = "quote", reason'[c] = "LIQUIDATION"
               PROVE  AccountAtStopOut
    OBVIOUS
  <2>1. Liquidate
    BY OnlyLiquidates
  <2>2. Book /\ loop = "liquidate" /\ Level50
    BY <2>1 DEF Liquidate
  <2>3. Counted = OpenOnes
    BY DEF Counted
  <2> QED BY <2>2, <2>3 DEF Book, Totals, Level50, AccountAtStopOut
<1> QED BY <1>1, <1>2, <1>3, EngineTypeCorrect, PTL DEF EngineSpec, LiquidatesOnlyAtStopOut
=============================================================================
