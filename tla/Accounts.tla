------------------------------- MODULE Accounts -------------------------------
(***************************************************************************)
(* The trading accounts of one user (accounts.service.ts): creating,       *)
(* choosing the default, closing, the repair of a missing default, the     *)
(* legacy wallet that mirrors one account, and the suspension by an        *)
(* administrator (admin.service.ts). An account is known by its place in   *)
(* the order of createdAt. A request is one step per statement that        *)
(* another request can come between.                                       *)
(***************************************************************************)
EXTENDS Integers, FiniteSets

CONSTANTS
  MaxAccounts, \* bound
  Devices,     \* of the user; each has one request on the way
  Admins,
  MaxFaults    \* bound: requests cut off before they end

Ids == 1 .. MaxAccounts

VARIABLES
  account,   \* rows: their status, "none" before, and isDefault
  wallet,    \* the account the legacy wallet mirrors, 0 before
  request,
  cutOff,
  mode       \* one request at a time, one of the user at a time, or any

vars == <<account, wallet, request, cutOff, mode>>

Idle == [pc |-> "idle", id |-> 0, other |-> 0]

Init ==
  /\ account = [a \in Ids |-> [status |-> "none", default |-> FALSE]]
  /\ wallet = 0
  /\ request = [d \in Devices \cup Admins |-> Idle]
  /\ cutOff = 0
  /\ mode \in {"serial", "one device", "free"}

Open     == {a \in Ids : account[a].status \notin {"none", "CLOSED"}}
Active   == {a \in Ids : account[a].status = "ACTIVE"}
Defaults == {a \in Ids : account[a].default}
First(S) == CHOOSE a \in S : \A b \in S : a <= b

Begins(d, pc, a, b) ==
  /\ request[d] = Idle
  /\ \A e \in Devices \cup Admins : request[e] = Idle \/ mode = "free"
       \/ (mode = "one device" /\ {d, e} \cap Admins # {})
  /\ request' = [request EXCEPT ![d] = [pc |-> pc, id |-> a, other |-> b]]
  /\ UNCHANGED <<account, wallet, cutOff, mode>>

At(d, pc) == request[d].pc = pc /\ UNCHANGED <<cutOff, mode>>
Becomes(d, r) == request' = [request EXCEPT ![d] = r]
Syncs(d, a) == Becomes(d, [pc |-> "sync", id |-> a, other |-> 0])

\* createAccount: the open accounts are counted, ...
StartCreate(d) == Begins(d, "create", 0, Cardinality(Open))

\* ... and the first of them becomes the default.
Create(d) ==
  /\ At(d, "create")
  /\ LET default == request[d].other = 0
     IN  \E a \in Ids :
           /\ account[a].status = "none" /\ \A b \in Ids : account[b].status = "none" => a <= b
           /\ account' = [account EXCEPT ![a] = [status |-> "ACTIVE", default |-> default]]
           /\ IF default THEN Syncs(d, a) ELSE Becomes(d, Idle)
  /\ UNCHANGED wallet

\* setDefaultAccount
StartSetDefault(d, a) == a \in Active /\ Begins(d, "default", a, 0)

\* Mutant: the former default is not reset.
AddDefault(d) ==
  /\ At(d, "default")
  /\ account' = [account EXCEPT ![request[d].id].default = TRUE]
  /\ Syncs(d, request[d].id)
  /\ UNCHANGED wallet

SetDefault(d) ==
  /\ At(d, "default")
  /\ account' = [a \in Ids |-> [account[a] EXCEPT !.default = (a = request[d].id)]]
  /\ Syncs(d, request[d].id)
  /\ UNCHANGED wallet

\* closeAccount, up to its transaction: no open position is found (positions
\* are not followed here: any account may have none), and the oldest other
\* active account is to be the next default.
StartClose(d, a) ==
  /\ a \in Open
  /\ LET others == Active \ {a}
     IN  Begins(d, "close", a,
                IF account[a].default /\ others # {} THEN First(others) ELSE 0)

\* Mutant: the closed account stays the default.
CloseOnly(d) ==
  /\ At(d, "close")
  /\ account' = [account EXCEPT ![request[d].id].status = "CLOSED"]
  /\ Becomes(d, Idle)
  /\ UNCHANGED wallet

Close(d) ==
  /\ At(d, "close")
  /\ LET a == request[d].id
         b == request[d].other
     IN  /\ account' = [x \in Ids |->
              IF x = a THEN [status |-> "CLOSED", default |-> FALSE]
              ELSE IF x = b THEN [account[x] EXCEPT !.default = TRUE] ELSE account[x]]
         /\ IF b = 0 THEN Becomes(d, Idle) ELSE Syncs(d, b)
  /\ UNCHANGED wallet

\* getDefaultAccountOrThrow finds no open default and makes the oldest open
\* account one.
StartRepair(d) ==
  /\ Open # {} /\ Open \cap Defaults = {}
  /\ Begins(d, "repair", First(Open), 0)

Repair(d) ==
  /\ At(d, "repair")
  /\ account' = [account EXCEPT ![request[d].id].default = TRUE]
  /\ Becomes(d, Idle)
  /\ UNCHANGED wallet

\* Mutant: the wallet is left to the next change of the balance.
NoSync(d) == At(d, "sync") /\ Becomes(d, Idle) /\ UNCHANGED <<account, wallet>>

\* syncLegacyWalletSnapshot
Sync(d) ==
  /\ At(d, "sync")
  /\ wallet' = request[d].id
  /\ Becomes(d, Idle)
  /\ UNCHANGED account

CutOff(d) ==
  /\ request[d] # Idle /\ cutOff < MaxFaults
  /\ cutOff' = cutOff + 1
  /\ Becomes(d, Idle)
  /\ UNCHANGED <<account, wallet, mode>>

\* setUserAccountStatus: the accounts are read for the snapshot at the end, ...
StartSetStatus(x) ==
  /\ Open # {}
  /\ Begins(x, "status", First(IF Open \cap Defaults # {} THEN Open \cap Defaults ELSE Open), 0)

\* Mutant: closed accounts are not left out.
SetAllStatus(x) ==
  /\ At(x, "status")
  /\ \E s \in {"ACTIVE", "SUSPENDED"} : account' = [a \in Ids |->
       IF account[a].status = "none" THEN account[a] ELSE [account[a] EXCEPT !.status = s]]
  /\ Syncs(x, request[x].id)
  /\ UNCHANGED wallet

\* ... and every open account is updated.
SetStatus(x) ==
  /\ At(x, "status")
  /\ \E s \in {"ACTIVE", "SUSPENDED"} : account' = [a \in Ids |->
       IF a \in Open THEN [account[a] EXCEPT !.status = s] ELSE account[a]]
  /\ Syncs(x, request[x].id)
  /\ UNCHANGED wallet

Next ==
  \/ \E d \in Devices :
       \/ StartCreate(d) \/ Create(d) \/ SetDefault(d) \/ Close(d)
       \/ \E a \in Ids : StartSetDefault(d, a) \/ StartClose(d, a)
       \/ StartRepair(d) \/ Repair(d)
  \/ \E x \in Admins : StartSetStatus(x) \/ SetStatus(x)
  \/ \E d \in Devices \cup Admins : Sync(d) \/ CutOff(d)

Spec == Init /\ [][Next]_vars

-----------------------------------------------------------------------------
TypeOK ==
  /\ account \in [Ids -> [status : {"none", "ACTIVE", "SUSPENDED", "CLOSED"}, default : BOOLEAN]]
  /\ wallet \in Ids \cup {0}
  /\ request \in [Devices \cup Admins ->
       [pc : {"idle", "create", "default", "close", "repair", "status", "sync"},
        id : Ids \cup {0}, other : Ids \cup {0}]]
  /\ cutOff \in 0 .. MaxFaults

\* As long as the user sends one request at a time, at most one account is the
\* default, and it is not closed, whatever administrators do meanwhile.
OneOpenDefault ==
  mode # "free" => Cardinality(Defaults) <= 1 /\ Defaults \subseteq Open

\* A closed account stays closed, for every interleaving of requests.
ClosedIsFinal ==
  [][\A a \in Ids : account[a].status = "CLOSED" => account'[a].status = "CLOSED"]_vars

\* When requests come one at a time and none was cut off, the legacy wallet
\* mirrors the default account, unless the account it mirrors was closed and
\* there was no active one to follow it.
WalletFollowsDefault ==
  (mode = "serial" /\ cutOff = 0 /\ \A d \in DOMAIN request : request[d] = Idle) =>
    \A a \in Defaults : a = wallet \/ (wallet # 0 /\ account[wallet].status = "CLOSED")
=============================================================================
