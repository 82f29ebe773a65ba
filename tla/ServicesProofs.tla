----------------------------- MODULE ServicesProofs -----------------------------
(***************************************************************************)
(* Theorems about Services, for any constants: the safety of each of its   *)
(* parts.                                                                  *)
(***************************************************************************)
EXTENDS Services, FiniteSetTheorems, FunctionTheorems,
        SequenceTheorems, SumProofs

-----------------------------------------------------------------------------
\* A set with no two members is finite and has one member at most.
LEMMA AtMostOne ==
  ASSUME NEW set, \A x, y \in set : x = y
  PROVE  IsFiniteSet(set) /\ Cardinality(set) <= 1
<1>1. CASE set = {}
  BY <1>1, FS_EmptySet
<1>2. ASSUME NEW x \in set PROVE IsFiniteSet(set) /\ Cardinality(set) <= 1
  <2>1. set = {x}
    OBVIOUS
  <2>2. IsFiniteSet({x}) /\ Cardinality({x}) = 1
    BY FS_Singleton
  <2> QED BY <2>1, <2>2
<1> QED BY <1>1, <1>2

\* What follows the first member of a sequence
LEMMA TailOf ==
  ASSUME NEW set, NEW q \in Seq(set), q # <<>>
  PROVE  /\ Len(q) > 0 /\ Tail(q) \in Seq(set) /\ Len(Tail(q)) = Len(q) - 1
         /\ \A i \in 1 .. Len(q) - 1 : i + 1 \in 1 .. Len(q) /\ Tail(q)[i] = q[i + 1]
         /\ \A j \in 1 .. Len(q) : j # 1 =>
              j - 1 \in 1 .. Len(q) - 1 /\ Tail(q)[j - 1] = q[j]
<1>1. Len(q) \in Nat /\ Len(q) > 0
  OBVIOUS
<1>2. /\ Tail(q) \in Seq(set) /\ Len(Tail(q)) = Len(q) - 1
      /\ \A i \in 1 .. Len(q) - 1 : Tail(q)[i] = q[i + 1]
  OBVIOUS
<1>3. \A j \in 1 .. Len(q) : j # 1 => j - 1 \in 1 .. Len(q) - 1 /\ (j - 1) + 1 = j
  BY <1>1
<1> QED BY <1>1, <1>2, <1>3

-----------------------------------------------------------------------------
(***************************************************************************)
(* Accounts: unless any number of requests may come together, those of the *)
(* user come one at a time, and what one has read still holds when it      *)
(* writes, whatever administrators do meanwhile. If all requests come one  *)
(* at a time, the wallet is up to date but for a request on its way to it. *)
(***************************************************************************)
LEMMA AccountsConstants ==
  /\ MaxAccounts \in Nat
  /\ MaxFaults \in Nat
  /\ Devices \cap AccountAdmins = {}
  BY ServicesAssumption

Clerks == Devices \cup AccountAdmins
Resting(d) == accountRequest[d] = A!Idle

\* What a request of the user relies on when it writes
StillRight(d) ==
  LET r == accountRequest[d]
  IN  /\ r.pc = "create" /\ r.other = 0 => A!Open = {}
      /\ r.pc \in {"default", "close", "repair"} => r.id \in A!Open
      /\ r.pc = "close" /\ r.other # 0 =>
           r.id \in A!Defaults /\ r.other \in A!Open /\ r.other # r.id
      /\ r.pc = "repair" => A!Defaults = {}

\* The account the wallet has to mirror
MirrorIs(a, defaults, usable) ==
  defaults = {a} \/ (defaults = {} /\ usable # {} /\ a = A!First(usable))
Mirrored(a) == MirrorIs(a, A!Defaults, A!Open)

WalletIsRight ==
  A!Open = {} \/ Mirrored(wallet) \/ (wallet # 0 /\ account[wallet].status = "CLOSED")

\* ... and when no other request is on its way
AloneRight(d) ==
  LET r == accountRequest[d]
  IN  /\ r.pc \in {"sync", "status"} => Mirrored(r.id)
      /\ r.pc = "create" /\ r.other # 0 => A!Open # {}
      /\ r.pc = "repair" => r.id = A!First(A!Open)

UserInv ==
  mode # "free" =>
    /\ \A d, e \in Devices : ~Resting(d) /\ ~Resting(e) => d = e
    /\ \A a, b \in A!Defaults : a = b
    /\ A!Defaults \subseteq A!Open
    /\ \A d \in Devices : StillRight(d)

SerialInv ==
  mode = "serial" =>
    /\ \A d, e \in Clerks : ~Resting(d) /\ ~Resting(e) => d = e
    /\ accountsCut = 0 =>
         /\ (\A d \in Clerks : accountRequest[d].pc # "sync") => WalletIsRight
         /\ \A d \in Clerks : AloneRight(d)

RequestsInv ==
  /\ \A a, b \in A!Ids : a <= b /\ account[a].status = "none" => account[b].status = "none"
  /\ \A d \in Devices : accountRequest[d].pc # "status"
  /\ \A x \in AccountAdmins : accountRequest[x].pc \in {"idle", "status", "sync"}
  /\ \A d \in Clerks :
       /\ accountRequest[d].pc = "idle" => Resting(d)
       /\ accountRequest[d].pc \notin {"idle", "create"} => accountRequest[d].id \in A!Ids
       /\ accountRequest[d].pc = "close" => account[accountRequest[d].id].status # "none"

AccountsInv ==
  /\ A!TypeOK /\ mode \in {"serial", "one device", "free"}
  /\ RequestsInv /\ UserInv /\ SerialInv

LEMMA FirstIsFirst ==
  ASSUME NEW set \in SUBSET A!Ids, set # {}
  PROVE  /\ A!First(set) \in set /\ \A b \in set : A!First(set) <= b
         /\ \A a \in set : (\A b \in set : a <= b) => a = A!First(set)
<1>1. set \subseteq Nat
  BY DEF A!Ids
<1>2. \E a \in set : \A b \in set : a <= b
  BY <1>1, Least
<1>3. A!First(set) \in set /\ \A b \in set : A!First(set) <= b
  BY <1>2 DEF A!First
<1>4. ASSUME NEW a \in set, \A b \in set : a <= b
      PROVE  a = A!First(set)
  <2>1. A!First(set) \in set
    BY <1>3
  <2>2. a \in Nat /\ A!First(set) \in Nat
    <3> DEFINE first == A!First(set)
    <3> HIDE DEF first
    <3>1. first \in Nat /\ a \in Nat
      BY <1>1, <2>1 DEF first
    <3> QED BY <3>1 DEF first
  <2>3. a <= A!First(set) /\ A!First(set) <= a
    BY <1>3, <1>4, <2>1
  <2> QED BY <2>2, <2>3
<1> QED BY <1>3, <1>4

LEMMA AccountsCounted ==
  ASSUME NEW set \in SUBSET A!Ids
  PROVE  A!Cardinality(set) \in A!Ids \cup {0} /\ (A!Cardinality(set) = 0 <=> set = {})
<1>1. A!Cardinality(set) = Cardinality(set)
  BY DEF A!Cardinality, Cardinality
<1>2. IsFiniteSet(1 .. MaxAccounts) /\ Cardinality(1 .. MaxAccounts) = MaxAccounts
  BY AccountsConstants, FS_Interval
<1>3. IsFiniteSet(set) /\ Cardinality(set) <= MaxAccounts
  BY <1>2, FS_Subset DEF A!Ids
<1>4. Cardinality(set) \in Nat
  BY <1>3, FS_CardinalityType
<1>5. Cardinality(set) = 0 <=> set = {}
  BY <1>3, FS_EmptySet
<1>6. Cardinality(set) \in 1 .. MaxAccounts \cup {0}
  BY <1>3, <1>4, AccountsConstants
<1> QED BY <1>1, <1>5, <1>6 DEF A!Ids

LEMMA IdleTyped ==
  A!Idle \in [pc : {"idle", "create", "default", "close", "repair", "status", "sync"},
             id : A!Ids \cup {0}, other : A!Ids \cup {0}]
  BY DEF A!Idle

LEMMA AccountsInit == A!Init => AccountsInv
<1> SUFFICES ASSUME A!Init PROVE AccountsInv
  OBVIOUS
<1>1. A!Open = {} /\ A!Defaults = {} /\ \A a \in A!Ids : account[a].status = "none"
  BY DEF A!Init, A!Open, A!Defaults
<1>2. A!TypeOK
  <2>1. accountsCut = 0 /\ wallet = 0 /\ MaxFaults \in Nat
    BY AccountsConstants DEF A!Init
  <2>2. account \in [A!Ids -> [status : {"none", "ACTIVE", "SUSPENDED", "CLOSED"},
                              default : BOOLEAN]]
    BY DEF A!Init
  <2>3. accountRequest \in [Devices \cup AccountAdmins ->
         [pc : {"idle", "create", "default", "close", "repair", "status", "sync"},
          id : A!Ids \cup {0}, other : A!Ids \cup {0}]]
    BY IdleTyped DEF A!Init
  <2> QED BY <2>1, <2>2, <2>3 DEF A!TypeOK
<1>3. \A d \in Clerks : Resting(d) /\ accountRequest[d].pc = "idle"
  BY DEF A!Init, A!Idle, Clerks, Resting
<1>4. mode \in {"serial", "one device", "free"}
  BY DEF A!Init
<1>5. RequestsInv
  BY <1>1, <1>3 DEF RequestsInv, Clerks
<1>6. UserInv
  BY <1>1, <1>3 DEF UserInv, Clerks, StillRight
<1>7. SerialInv
  BY <1>1, <1>3 DEF SerialInv, AloneRight, WalletIsRight
<1> QED BY <1>2, <1>4, <1>5, <1>6, <1>7 DEF AccountsInv

LEMMA ClerksAre ==
  /\ Devices \subseteq Clerks /\ AccountAdmins \subseteq Clerks
  /\ Devices \cap AccountAdmins = {} /\ A!Idle.pc = "idle" /\ A!Idle.id = 0 /\ A!Idle.other = 0
  BY AccountsConstants DEF Clerks, A!Idle

\* What a request begins with
LEMMA AccountsBegin ==
  ASSUME AccountsInv, NEW d \in Clerks, NEW pc, NEW a \in A!Ids \cup {0}, NEW b \in A!Ids \cup {0},
         A!Begins(d, pc, a, b),
         \/ d \in Devices /\ pc \in {"create", "default", "close", "repair"}
         \/ d \in AccountAdmins /\ pc = "status",
         pc # "create" => a \in A!Ids,
         pc = "close" => account[a].status # "none",
         mode # "free" =>
           /\ pc = "create" /\ b = 0 => A!Open = {}
           /\ pc \in {"default", "close", "repair"} => a \in A!Open
           /\ pc = "close" /\ b # 0 => a \in A!Defaults /\ b \in A!Open /\ b # a
           /\ pc = "repair" => A!Defaults = {},
         mode = "serial" =>
           /\ pc = "status" => Mirrored(a)
           /\ pc = "create" /\ b # 0 => A!Open # {}
           /\ pc = "repair" => a = A!First(A!Open)
  PROVE  AccountsInv'
<1> DEFINE r == [pc |-> pc, id |-> a, other |-> b]
<1>1. /\ accountRequest[d] = A!Idle
      /\ \A e \in Clerks : \/ accountRequest[e] = A!Idle \/ mode = "free"
                           \/ (mode = "one device" /\ {d, e} \cap AccountAdmins # {})
      /\ accountRequest' = [accountRequest EXCEPT ![d] = r]
      /\ UNCHANGED <<account, wallet, accountsCut, mode>>
  BY DEF A!Begins, Clerks
<1>2. A!TypeOK'
  BY <1>1 DEF AccountsInv, A!TypeOK, A!Ids, Clerks
<1>3. /\ \A e \in Clerks : e # d => accountRequest'[e] = accountRequest[e]
      /\ accountRequest'[d] = r
  BY <1>1 DEF AccountsInv, A!TypeOK, Clerks, A!Idle
<1>4. r.pc = pc /\ r.id = a /\ r.other = b /\ r # A!Idle
  BY ClerksAre
<1> HIDE DEF r
<1>5. A!Open' = A!Open /\ A!Defaults' = A!Defaults /\ WalletIsRight' = WalletIsRight
  BY <1>1 DEF A!Open, A!Defaults, A!Ids, WalletIsRight, Mirrored, MirrorIs
<1>6. mode = "serial" => \A e \in Clerks : Resting(e)
  BY <1>1 DEF Resting
<1>7. mode # "free" /\ d \in Devices => \A e \in Devices : Resting(e)
  BY ZenonT(30), <1>1, ClerksAre DEF Resting
<1>8. \A e \in Clerks : e # d => Resting(e)' = Resting(e)
  BY <1>3 DEF Resting
<1>9. \A e \in Clerks : e # d => StillRight(e)' = StillRight(e) /\ AloneRight(e)' = AloneRight(e)
  <2> SUFFICES ASSUME NEW e \in Clerks, e # d
               PROVE  StillRight(e)' = StillRight(e) /\ AloneRight(e)' = AloneRight(e)
    OBVIOUS
  <2>1. accountRequest'[e] = accountRequest[e]
    BY <1>3
  <2>2. StillRight(e)' = StillRight(e)
    BY <1>5, <2>1 DEF StillRight
  <2>3. AloneRight(e)' = AloneRight(e)
    BY <1>1, <1>5, <2>1 DEF AloneRight, Mirrored, MirrorIs
  <2> QED BY <2>2, <2>3
<1>10. mode # "free" => StillRight(d)'
  BY <1>3, <1>4, <1>5 DEF StillRight
<1>11. mode = "serial" => AloneRight(d)'
  BY <1>1, <1>3, <1>4, <1>5 DEF AloneRight, Mirrored, MirrorIs
<1>12. UserInv'
  BY <1>1, <1>5, <1>7, <1>8, <1>9, <1>10, ClerksAre DEF AccountsInv, UserInv
<1>13. SerialInv'
  BY <1>1, <1>3, <1>4, <1>5, <1>6, <1>8, <1>9, <1>11, ClerksAre
     DEF AccountsInv, SerialInv, Resting
<1>14. RequestsInv'
  BY <1>1, <1>3, <1>4, <1>8, ClerksAre DEF AccountsInv, RequestsInv
<1> QED BY <1>1, <1>2, <1>12, <1>13, <1>14 DEF AccountsInv

\* What a request ends with, or leaves to the wallet
LEMMA AccountsEnd ==
  ASSUME AccountsInv, NEW d \in Clerks, accountRequest[d].pc # "idle", NEW r,
         accountRequest' = [accountRequest EXCEPT ![d] = r], mode' = mode,
         r = A!Idle \/ \E a \in A!Ids : r = [pc |-> "sync", id |-> a, other |-> 0],
         account' \in [A!Ids -> [status : {"none", "ACTIVE", "SUSPENDED", "CLOSED"},
                                default : BOOLEAN]],
         wallet' \in A!Ids \cup {0}, accountsCut' \in 0 .. MaxFaults,
         accountsCut' = 0 => accountsCut = 0,
         \A a, b \in A!Ids : a <= b /\ account'[a].status = "none" => account'[b].status = "none",
         \A a \in A!Ids : account'[a].status = "none" => account[a].status = "none",
         mode # "free" => (\A a, b \in A!Defaults' : a = b) /\ A!Defaults' \subseteq A!Open',
         d \in Devices \/ (A!Open' = A!Open /\ A!Defaults' = A!Defaults),
         mode = "serial" /\ accountsCut' = 0 =>
           IF r = A!Idle THEN WalletIsRight' ELSE MirrorIs(r.id, A!Defaults', A!Open')
  PROVE  AccountsInv'
<1>1. /\ accountRequest'[d] = r
      /\ \A e \in Clerks : e # d => accountRequest'[e] = accountRequest[e]
  BY DEF AccountsInv, A!TypeOK, Clerks
<1>2. r.pc \in {"idle", "sync"} /\ (r.pc = "idle" => r = A!Idle) /\ (r.pc = "sync" => r.id \in A!Ids)
  BY ClerksAre
<1>3. ~Resting(d)
  BY ClerksAre DEF Resting
<1>4. A!TypeOK'
  <2>1. r \in [pc : {"idle", "create", "default", "close", "repair", "status", "sync"},
              id : A!Ids \cup {0}, other : A!Ids \cup {0}]
    BY IdleTyped
  <2>2. accountRequest' \in [Devices \cup AccountAdmins ->
          [pc : {"idle", "create", "default", "close", "repair", "status", "sync"},
           id : A!Ids \cup {0}, other : A!Ids \cup {0}]]
    BY <2>1 DEF AccountsInv, A!TypeOK
  <2> QED BY <2>2 DEF A!TypeOK
<1>5. \A e \in Clerks : e # d => Resting(e)' = Resting(e)
  BY <1>1 DEF Resting
<1>6. RequestsInv'
  <2>1. \A e \in Clerks : accountRequest'[e].pc = "idle" => Resting(e)'
    <3> SUFFICES ASSUME NEW e \in Clerks, accountRequest'[e].pc = "idle" PROVE Resting(e)'
      OBVIOUS
    <3>1. CASE e = d
      BY <1>1, <1>2, <3>1 DEF Resting
    <3>2. CASE e # d
      <4>1. accountRequest'[e] = accountRequest[e] /\ Resting(e)
        BY <1>1, <3>2 DEF AccountsInv, RequestsInv
      <4> QED BY <4>1 DEF Resting
    <3> QED BY <3>1, <3>2
  <2>2. /\ \A e \in Devices : accountRequest'[e].pc # "status"
        /\ \A x \in AccountAdmins : accountRequest'[x].pc \in {"idle", "status", "sync"}
    <3>1. \A e \in Clerks : accountRequest'[e] = accountRequest[e] \/ accountRequest'[e].pc \in {"idle", "sync"}
      BY <1>1, <1>2
    <3>2. /\ \A e \in Devices : e \in Clerks /\ accountRequest[e].pc # "status"
          /\ \A x \in AccountAdmins :
               x \in Clerks /\ accountRequest[x].pc \in {"idle", "status", "sync"}
      BY ClerksAre DEF AccountsInv, RequestsInv
    <3> QED BY <3>1, <3>2
  <2>3. \A e \in Clerks :
          accountRequest'[e].pc \notin {"idle", "create"} => accountRequest'[e].id \in A!Ids
    BY <1>1, <1>2 DEF AccountsInv, RequestsInv
  <2>4. ASSUME NEW e \in Clerks, accountRequest'[e].pc = "close"
        PROVE  account'[accountRequest'[e].id].status # "none"
    <3>1. e # d /\ accountRequest'[e] = accountRequest[e]
      BY <1>1, <1>2, <2>4
    <3>2. accountRequest[e].id \in A!Ids /\ account[accountRequest[e].id].status # "none"
      BY ZenonT(30), <2>4, <3>1 DEF AccountsInv, RequestsInv
    <3> QED BY <3>1, <3>2
  <2> QED BY <2>1, <2>2, <2>3, <2>4 DEF RequestsInv
<1>7. UserInv'
  <2> SUFFICES ASSUME mode # "free" PROVE UserInv'
    BY DEF UserInv
  <2>1. \A e, f \in Devices : ~Resting(e)' /\ ~Resting(f)' => e = f
    BY <1>3, <1>5, ClerksAre DEF AccountsInv, UserInv
  <2>2. ASSUME NEW e \in Devices PROVE StillRight(e)'
    <3>1. CASE accountRequest'[e].pc \in {"idle", "sync"}
      BY <3>1 DEF StillRight
    <3>2. CASE accountRequest'[e].pc \notin {"idle", "sync"}
      <4>1. e # d /\ ~Resting(e)
        BY <1>1, <1>2, <3>2, ClerksAre DEF Resting
      <4>2. d \notin Devices
        BY <1>3, <4>1 DEF AccountsInv, UserInv
      <4>3. StillRight(e) /\ accountRequest'[e] = accountRequest[e]
        BY <1>1, <4>1, ClerksAre DEF AccountsInv, UserInv
      <4> QED BY <4>2, <4>3 DEF StillRight
    <3> QED BY <3>1, <3>2
  <2> QED BY <2>1, <2>2 DEF UserInv
<1>8. SerialInv'
  <2> SUFFICES ASSUME mode = "serial" PROVE SerialInv'
    BY DEF SerialInv
  <2>1. \A e \in Clerks : e # d => Resting(e)' /\ accountRequest'[e].pc = "idle"
    BY <1>1, <1>3, <1>5, ClerksAre DEF AccountsInv, SerialInv, Resting
  <2>2. ASSUME accountsCut' = 0, \A e \in Clerks : accountRequest'[e].pc # "sync"
        PROVE  WalletIsRight'
    BY <1>1, <1>2, <2>2
  <2>3. ASSUME accountsCut' = 0, NEW e \in Clerks PROVE AloneRight(e)'
    <3>1. CASE accountRequest'[e].pc = "idle"
      BY <3>1 DEF AloneRight
    <3>2. CASE accountRequest'[e].pc # "idle"
      <4>1. e = d /\ r.pc = "sync" /\ r # A!Idle /\ accountRequest'[e] = r
        BY <1>1, <1>2, <2>1, <3>2, ClerksAre
      <4>2. MirrorIs(r.id, A!Defaults', A!Open')
        BY <2>3, <4>1
      <4> QED BY <4>1, <4>2 DEF AloneRight, Mirrored, MirrorIs
    <3> QED BY <3>1, <3>2
  <2> QED BY <2>1, <2>2, <2>3 DEF SerialInv
<1> QED BY <1>4, <1>6, <1>7, <1>8 DEF AccountsInv

LEMMA AccountsNext == AccountsInv /\ [A!Next]_(A!vars) => AccountsInv'
<1> SUFFICES ASSUME AccountsInv, [A!Next]_(A!vars) PROVE AccountsInv'
  OBVIOUS
<1> DEFINE Rows == [A!Ids -> [status : {"none", "ACTIVE", "SUSPENDED", "CLOSED"},
                              default : BOOLEAN]]
<1>0. /\ account \in Rows /\ wallet \in A!Ids \cup {0} /\ accountsCut \in 0 .. MaxFaults
      /\ A!Ids \subseteq Nat /\ 0 \notin A!Ids
      /\ A!Open \subseteq A!Ids /\ A!Active \subseteq A!Open /\ A!Defaults \subseteq A!Ids
      /\ \A d \in Clerks : accountRequest[d].other \in A!Ids \cup {0}
  <2>1. /\ account \in Rows /\ wallet \in A!Ids \cup {0} /\ accountsCut \in 0 .. MaxFaults
        /\ \A d \in Clerks : accountRequest[d].other \in A!Ids \cup {0}
    BY DEF AccountsInv, A!TypeOK, Clerks
  <2>2. A!Ids \subseteq Nat /\ 0 \notin A!Ids
    BY DEF A!Ids
  <2>3. A!Open \subseteq A!Ids /\ A!Active \subseteq A!Open /\ A!Defaults \subseteq A!Ids
    BY DEF A!Open, A!Active, A!Defaults
  <2> QED BY <2>1, <2>2, <2>3
<1> HIDE DEF Rows
<1>1. CASE UNCHANGED A!vars
  <2>1. /\ \A d \in Clerks : /\ Resting(d)' = Resting(d) /\ StillRight(d)' = StillRight(d)
                              /\ AloneRight(d)' = AloneRight(d)
        /\ A!Open' = A!Open /\ A!Defaults' = A!Defaults /\ WalletIsRight' = WalletIsRight
    BY <1>1 DEF A!vars, Resting, StillRight, AloneRight, Mirrored, MirrorIs, WalletIsRight, A!Open, A!Defaults
  <2> QED BY <1>1, <2>1, ClerksAre DEF A!vars, AccountsInv, A!TypeOK, RequestsInv, UserInv, SerialInv
<1>2. ASSUME NEW d \in Devices, A!StartCreate(d)
      PROVE  AccountsInv'
  <2>1. A!Begins(d, "create", 0, A!Cardinality(A!Open))
    BY <1>2 DEF A!StartCreate
  <2>2. /\ A!Cardinality(A!Open) \in A!Ids \cup {0}
        /\ A!Cardinality(A!Open) = 0 <=> A!Open = {}
    BY <1>0, AccountsCounted
  <2> QED BY <2>1, <2>2, AccountsBegin, ClerksAre
<1>3. ASSUME NEW d \in Devices, NEW a \in A!Ids, A!StartSetDefault(d, a)
      PROVE  AccountsInv'
  <2>1. A!Begins(d, "default", a, 0) /\ a \in A!Open
    BY <1>0, <1>3 DEF A!StartSetDefault
  <2> QED BY <2>1, AccountsBegin, ClerksAre
<1>4. ASSUME NEW d \in Devices, NEW a \in A!Ids, A!StartClose(d, a)
      PROVE  AccountsInv'
  <2> DEFINE set == A!Active \ {a}
             b == IF account[a].default /\ set # {} THEN A!First(set) ELSE 0
  <2>1. A!Begins(d, "close", a, b) /\ a \in A!Open
    BY <1>4 DEF A!StartClose
  <2>2. b # 0 => b \in A!Open /\ b # a /\ a \in A!Defaults /\ b \in A!Ids
    <3> SUFFICES ASSUME account[a].default, set # {}
                 PROVE  b \in A!Open /\ b # a /\ a \in A!Defaults /\ b \in A!Ids
      OBVIOUS
    <3>1. A!First(set) \in set
      BY <1>0, FirstIsFirst
    <3>2. b = A!First(set)
      OBVIOUS
    <3>3. a \in A!Defaults
      BY DEF A!Defaults
    <3> QED BY <1>0, <3>1, <3>2, <3>3
  <2>3. b \in A!Ids \cup {0} /\ account[a].status # "none"
    BY <2>1, <2>2 DEF A!Open
  <2> HIDE DEF b
  <2> QED BY <2>1, <2>2, <2>3, AccountsBegin, ClerksAre
<1>5. ASSUME NEW d \in Devices, A!StartRepair(d)
      PROVE  AccountsInv'
  <2>1. /\ A!Open # {} /\ A!Open \cap A!Defaults = {}
        /\ A!Begins(d, "repair", A!First(A!Open), 0)
    BY <1>5 DEF A!StartRepair
  <2>2. A!First(A!Open) \in A!Open
    BY <1>0, <2>1, FirstIsFirst
  <2>3. mode # "free" => A!Defaults = {}
    BY <2>1 DEF AccountsInv, UserInv
  <2>4. A!First(A!Open) \in A!Ids
    BY <1>0, <2>2
  <2> QED BY <2>1, <2>2, <2>3, <2>4, AccountsBegin, ClerksAre
<1>6. ASSUME NEW x \in AccountAdmins, A!StartSetStatus(x)
      PROVE  AccountsInv'
  <2> DEFINE set == IF A!Open \cap A!Defaults # {} THEN A!Open \cap A!Defaults ELSE A!Open
  <2>1. A!Open # {} /\ A!Begins(x, "status", A!First(set), 0)
    BY <1>6 DEF A!StartSetStatus
  <2>2. A!First(set) \in set /\ set \subseteq A!Ids
    <3>1. set \in SUBSET A!Ids /\ set # {}
      BY <1>0, <2>1
    <3> HIDE DEF set
    <3> QED BY <3>1, FirstIsFirst
  <2>3. mode = "serial" => Mirrored(A!First(set))
    <3> SUFFICES ASSUME mode = "serial" PROVE Mirrored(A!First(set))
      OBVIOUS
    <3>1. A!Defaults \subseteq A!Open /\ \A a, b \in A!Defaults : a = b
      BY DEF AccountsInv, UserInv
    <3>2. CASE A!Defaults = {}
      BY <2>1, <3>2 DEF Mirrored, MirrorIs
    <3>3. CASE A!Defaults # {}
      <4>1. set = A!Defaults
        BY <3>1, <3>3
      <4>2. A!First(set) \in A!Defaults
        BY <2>2, <4>1
      <4> QED BY <3>1, <4>2 DEF Mirrored, MirrorIs
    <3> QED BY <3>2, <3>3
  <2>4. A!First(set) \in A!Ids
    BY <2>2
  <2> HIDE DEF set
  <2> QED BY <2>1, <2>3, <2>4, AccountsBegin, ClerksAre
<1>7. ASSUME NEW d \in Devices, A!Create(d)
      PROVE  AccountsInv'
  <2> DEFINE first == accountRequest[d].other = 0
  <2>1. PICK a \in A!Ids :
          /\ account[a].status = "none" /\ \A b \in A!Ids : account[b].status = "none" => a <= b
          /\ account' = [account EXCEPT ![a] = [status |-> "ACTIVE", default |-> first]]
          /\ IF first THEN A!Syncs(d, a) ELSE A!Becomes(d, A!Idle)
    BY <1>7 DEF A!Create
  <2>2. accountRequest[d].pc = "create" /\ UNCHANGED <<wallet, accountsCut, mode>>
    BY <1>7 DEF A!Create, A!At
  <2> DEFINE r == IF first THEN [pc |-> "sync", id |-> a, other |-> 0] ELSE A!Idle
  <2>3. accountRequest' = [accountRequest EXCEPT ![d] = r]
    BY <2>1 DEF A!Syncs, A!Becomes
  <2>4. account' \in Rows /\ account'[a].status = "ACTIVE" /\ account'[a].default = first
    BY <1>0, <2>1 DEF Rows
  <2>5. \A b \in A!Ids : b # a => account'[b] = account[b]
    BY <1>0, <2>1 DEF Rows
  <2>6. A!Open' = A!Open \cup {a} /\ a \notin A!Open
    BY <2>1, <2>4, <2>5 DEF A!Open
  <2>7. A!Defaults' = (A!Defaults \ {a}) \cup (IF first THEN {a} ELSE {})
    BY <2>4, <2>5 DEF A!Defaults
  <2>8. \A b, c \in A!Ids : b <= c /\ account'[b].status = "none" => account'[c].status = "none"
    <3> SUFFICES ASSUME NEW b \in A!Ids, NEW c \in A!Ids, b <= c, account'[b].status = "none"
                 PROVE  account'[c].status = "none"
      OBVIOUS
    <3>1. b # a /\ account[b].status = "none"
      BY <2>4, <2>5
    <3>2. a <= b /\ account[c].status = "none"
      BY <2>1, <3>1 DEF AccountsInv, RequestsInv
    <3>3. c # a
      BY <1>0, <3>1, <3>2
    <3> QED BY <2>5, <3>2, <3>3
  <2>9. \A b \in A!Ids : account'[b].status = "none" => account[b].status = "none"
    BY <2>4, <2>5
  <2>10. mode # "free" => /\ \A b, c \in A!Defaults' : b = c
                          /\ A!Defaults' \subseteq A!Open'
                          /\ first => A!Defaults' = {a}
    <3> SUFFICES ASSUME mode # "free" PROVE /\ \A b, c \in A!Defaults' : b = c
                                            /\ A!Defaults' \subseteq A!Open'
                                            /\ first => A!Defaults' = {a}
      OBVIOUS
    <3>1. /\ \A b, c \in A!Defaults : b = c
          /\ A!Defaults \subseteq A!Open /\ (first => A!Open = {})
      BY <2>2 DEF AccountsInv, UserInv, StillRight
    <3> QED BY <2>6, <2>7, <3>1
  <2>11. mode = "serial" /\ accountsCut' = 0 =>
           IF r = A!Idle THEN WalletIsRight' ELSE MirrorIs(r.id, A!Defaults', A!Open')
    <3> SUFFICES ASSUME mode = "serial", accountsCut' = 0
                 PROVE  IF r = A!Idle THEN WalletIsRight' ELSE MirrorIs(r.id, A!Defaults', A!Open')
      OBVIOUS
    <3>1. CASE first
      <4>1. r # A!Idle /\ r.id = a
        BY <3>1, ClerksAre
      <4> QED BY <2>10, <3>1, <4>1 DEF Mirrored, MirrorIs
    <3>2. CASE ~first
      <4>1. r = A!Idle /\ A!Defaults' = A!Defaults
        BY <2>6, <2>7, <3>2 DEF AccountsInv, UserInv
      <4>2. A!Open # {} /\ \A e \in Clerks : accountRequest[e].pc # "sync"
        BY <2>2, <3>2, ClerksAre DEF AccountsInv, SerialInv, AloneRight, Resting
      <4>3. WalletIsRight
        BY <2>2, <4>2 DEF AccountsInv, SerialInv
      <4>4. A!First(A!Open') = A!First(A!Open)
        <5>1. A!First(A!Open) \in A!Open /\ \A b \in A!Open : A!First(A!Open) <= b
          BY <1>0, <4>2, FirstIsFirst
        <5>2. A!First(A!Open) <= a
          <6> DEFINE m == A!First(A!Open)
          <6>1. ~(a <= m)
            BY <1>0, <2>1, <5>1 DEF AccountsInv, RequestsInv, A!Open
          <6>2. a \in Nat /\ m \in Nat
            BY <1>0, <5>1
          <6> HIDE DEF m
          <6>3. m <= a
            BY <6>1, <6>2
          <6> QED BY <6>3 DEF m
        <5>3. A!Open' \in SUBSET A!Ids /\ A!First(A!Open) \in A!Open'
          BY <1>0, <2>6, <5>1
        <5>4. \A b \in A!Open' : A!First(A!Open) <= b
          BY <2>6, <5>1, <5>2
        <5> QED BY <5>3, <5>4, FirstIsFirst
      <4>5. CASE Mirrored(wallet)
        BY <2>2, <2>6, <4>1, <4>2, <4>4, <4>5 DEF Mirrored, MirrorIs, WalletIsRight
      <4>6. CASE wallet # 0 /\ account[wallet].status = "CLOSED"
        <5>1. wallet \in A!Ids /\ wallet # a
          BY <1>0, <2>1, <4>6
        <5> QED BY <2>2, <2>5, <4>1, <4>6, <5>1 DEF WalletIsRight
      <4> QED BY <4>2, <4>3, <4>5, <4>6 DEF WalletIsRight
    <3> QED BY <3>1, <3>2
  <2>12. r = A!Idle \/ \E b \in A!Ids : r = [pc |-> "sync", id |-> b, other |-> 0]
    OBVIOUS
  <2> HIDE DEF r
  <2> QED BY <1>0, <2>2, <2>3, <2>4, <2>8, <2>9, <2>10, <2>11, <2>12, AccountsEnd, ClerksAre
          DEF Rows
<1>8. ASSUME NEW d \in Devices, A!SetDefault(d)
      PROVE  AccountsInv'
  <2> DEFINE a == accountRequest[d].id
             r == [pc |-> "sync", id |-> a, other |-> 0]
  <2>1. /\ accountRequest[d].pc = "default" /\ UNCHANGED <<wallet, accountsCut, mode>>
        /\ account' = [b \in A!Ids |-> [account[b] EXCEPT !.default = (b = a)]]
        /\ accountRequest' = [accountRequest EXCEPT ![d] = r]
    BY <1>8 DEF A!SetDefault, A!At, A!Syncs, A!Becomes
  <2>2. a \in A!Ids /\ (mode # "free" => a \in A!Open)
    BY <2>1, ClerksAre DEF AccountsInv, RequestsInv, UserInv, StillRight
  <2> HIDE DEF a
  <2>3. account' \in Rows /\ \A b \in A!Ids : /\ account'[b].status = account[b].status
                                             /\ account'[b].default = (b = a)
    BY <1>0, <2>1 DEF Rows
  <2>4. A!Open' = A!Open /\ A!Defaults' = {a}
    BY <2>2, <2>3 DEF A!Open, A!Defaults
  <2>5. MirrorIs(a, A!Defaults', A!Open')
    BY <2>4 DEF Mirrored, MirrorIs
  <2>6. /\ \A b, c \in A!Ids : b <= c /\ account'[b].status = "none" => account'[c].status = "none"
        /\ \A b \in A!Ids : account'[b].status = "none" => account[b].status = "none"
    BY ZenonT(30), <2>3 DEF AccountsInv, RequestsInv
  <2>7. r # A!Idle /\ r.id = a /\ \E b \in A!Ids : r = [pc |-> "sync", id |-> b, other |-> 0]
    BY <2>2, ClerksAre
  <2>8. mode # "free" => (\A b, c \in A!Defaults' : b = c) /\ A!Defaults' \subseteq A!Open'
    BY <2>2, <2>4
  <2> HIDE DEF r
  <2> QED BY <1>0, <2>1, <2>3, <2>5, <2>6, <2>7, <2>8, AccountsEnd, ClerksAre DEF Rows
<1>9. ASSUME NEW d \in Devices, A!Close(d)
      PROVE  AccountsInv'
  <2> DEFINE a == accountRequest[d].id
             b == accountRequest[d].other
             r == IF b = 0 THEN A!Idle ELSE [pc |-> "sync", id |-> b, other |-> 0]
  <2>1. /\ accountRequest[d].pc = "close" /\ UNCHANGED <<wallet, accountsCut, mode>>
        /\ account' = [x \in A!Ids |->
              IF x = a THEN [status |-> "CLOSED", default |-> FALSE]
              ELSE IF x = b THEN [account[x] EXCEPT !.default = TRUE] ELSE account[x]]
        /\ accountRequest' = [accountRequest EXCEPT ![d] = r]
    BY <1>9 DEF A!Close, A!At, A!Syncs, A!Becomes
  <2>2. /\ a \in A!Ids /\ b \in A!Ids \cup {0} /\ account[a].status # "none"
        /\ mode # "free" => a \in A!Open /\ (b # 0 => a \in A!Defaults /\ b \in A!Open /\ b # a)
    BY <1>0, <2>1, ClerksAre DEF AccountsInv, RequestsInv, UserInv, StillRight
  <2> HIDE DEF a, b
  <2>3. /\ account' \in Rows /\ account'[a].status = "CLOSED" /\ account'[a].default = FALSE
        /\ \A x \in A!Ids : x # a => account'[x].status = account[x].status
        /\ \A x \in A!Ids : x # a /\ x # b => account'[x].default = account[x].default
        /\ b \in A!Ids /\ b # a => account'[b].default = TRUE
    BY ZenonT(30), <1>0, <2>1, <2>2 DEF Rows
  <2>4. A!Open' = A!Open \ {a}
    BY <2>3 DEF A!Open
  <2>5. A!Defaults' = (A!Defaults \ {a}) \cup (IF b # 0 /\ b # a THEN {b} ELSE {})
    <3>1. A!Defaults' = {x \in A!Ids : account'[x].default}
      BY DEF A!Defaults, A!Ids
    <3>2. ASSUME NEW x \in A!Ids
          PROVE  account'[x].default <=>
                   (x # a /\ x \in A!Defaults) \/ (b # 0 /\ b # a /\ x = b)
      <4>1. CASE x = a
        BY <2>3, <4>1
      <4>2. CASE x # a /\ x = b
        BY <1>0, <2>2, <2>3, <4>2
      <4>3. CASE x # a /\ x # b
        <5>1. account'[x].default = account[x].default
          BY <2>3, <4>3
        <5> QED BY <4>3, <5>1 DEF A!Defaults
      <4> QED BY <4>1, <4>2, <4>3
    <3> QED BY <1>0, <2>2, <3>1, <3>2
  <2>6. /\ \A x, y \in A!Ids : x <= y /\ account'[x].status = "none" => account'[y].status = "none"
        /\ \A x \in A!Ids : account'[x].status = "none" => account[x].status = "none"
    <3>1. \A x \in A!Ids : account'[x].status = "none" <=> account[x].status = "none"
      BY <2>2, <2>3
    <3> QED BY <3>1 DEF AccountsInv, RequestsInv
  <2>7. mode # "free" => /\ \A x, y \in A!Defaults : x = y
                         /\ A!Defaults \subseteq A!Open
    BY DEF AccountsInv, UserInv
  <2>8. mode # "free" /\ b # 0 => A!Defaults' = {b}
    BY <2>2, <2>5, <2>7
  <2>9. mode # "free" => (\A x, y \in A!Defaults' : x = y) /\ A!Defaults' \subseteq A!Open'
    BY <2>2, <2>4, <2>5, <2>7
  <2>10. r = A!Idle \/ \E x \in A!Ids : r = [pc |-> "sync", id |-> x, other |-> 0]
    BY <2>2
  <2>11. mode = "serial" /\ accountsCut' = 0 =>
           IF r = A!Idle THEN WalletIsRight' ELSE MirrorIs(r.id, A!Defaults', A!Open')
    <3> SUFFICES ASSUME mode = "serial", accountsCut' = 0
                 PROVE  IF r = A!Idle THEN WalletIsRight' ELSE MirrorIs(r.id, A!Defaults', A!Open')
      OBVIOUS
    <3>1. CASE b # 0
      <4>1. r # A!Idle /\ r.id = b
        BY <3>1, ClerksAre
      <4> QED BY <2>8, <3>1, <4>1 DEF Mirrored, MirrorIs
    <3>2. CASE b = 0
      <4>1. r = A!Idle /\ A!Defaults' = A!Defaults \ {a}
        BY <2>5, <3>2
      <4>2. \A e \in Clerks : accountRequest[e].pc # "sync"
        BY <2>1, ClerksAre DEF AccountsInv, SerialInv, Resting
      <4>3. WalletIsRight /\ A!Open # {}
        BY <2>1, <2>2, <4>2 DEF AccountsInv, SerialInv
      <4>4. wallet \in A!Ids \cup {0} /\ wallet' = wallet
        BY <1>0, <2>1
      <4>5. CASE wallet = a
        BY <1>0, <2>2, <2>3, <4>1, <4>4, <4>5 DEF WalletIsRight
      <4>6. CASE wallet # a /\ Mirrored(wallet)
        <5>1. CASE A!Defaults = {wallet}
          BY <4>1, <4>4, <4>6, <5>1 DEF WalletIsRight, Mirrored, MirrorIs
        <5>2. CASE A!Defaults = {} /\ wallet = A!First(A!Open)
          <6>1. wallet \in A!Open /\ \A x \in A!Open : wallet <= x
            BY <1>0, <4>3, <5>2, FirstIsFirst
          <6>2. A!Open' \in SUBSET A!Ids /\ wallet \in A!Open'
            BY <1>0, <2>4, <4>6, <6>1
          <6>3. wallet = A!First(A!Open')
            BY <2>4, <6>1, <6>2, FirstIsFirst
          <6> QED BY <4>1, <4>4, <5>2, <6>2, <6>3 DEF WalletIsRight, Mirrored, MirrorIs
        <5> QED BY <4>6, <5>1, <5>2 DEF Mirrored, MirrorIs
      <4>7. CASE wallet # a /\ wallet # 0 /\ account[wallet].status = "CLOSED"
        BY <2>3, <4>1, <4>4, <4>7 DEF WalletIsRight
      <4> QED BY <4>3, <4>5, <4>6, <4>7 DEF WalletIsRight
    <3> QED BY <3>1, <3>2
  <2> HIDE DEF r
  <2> QED BY <1>0, <2>1, <2>3, <2>6, <2>9, <2>10, <2>11, AccountsEnd, ClerksAre DEF Rows
<1>10. ASSUME NEW d \in Devices, A!Repair(d)
       PROVE  AccountsInv'
  <2> DEFINE a == accountRequest[d].id
  <2>1. /\ accountRequest[d].pc = "repair" /\ UNCHANGED <<wallet, accountsCut, mode>>
        /\ account' = [account EXCEPT ![a].default = TRUE]
        /\ accountRequest' = [accountRequest EXCEPT ![d] = A!Idle]
    BY <1>10 DEF A!Repair, A!At, A!Becomes
  <2>2. a \in A!Ids /\ (mode # "free" => a \in A!Open /\ A!Defaults = {})
    BY <2>1, ClerksAre DEF AccountsInv, RequestsInv, UserInv, StillRight
  <2>3. mode = "serial" /\ accountsCut = 0 =>
          /\ a = A!First(A!Open) /\ WalletIsRight
    BY <2>1, ClerksAre DEF AccountsInv, SerialInv, AloneRight, Resting
  <2> HIDE DEF a
  <2>4. /\ account' \in Rows /\ account'[a].default = TRUE
        /\ \A b \in A!Ids : account'[b].status = account[b].status
        /\ \A b \in A!Ids : b # a => account'[b].default = account[b].default
    BY <1>0, <2>1, <2>2 DEF Rows
  <2>5. A!Open' = A!Open /\ A!Defaults' = A!Defaults \cup {a}
    BY <2>2, <2>4 DEF A!Open, A!Defaults
  <2>6. /\ \A b, c \in A!Ids : b <= c /\ account'[b].status = "none" => account'[c].status = "none"
        /\ \A b \in A!Ids : account'[b].status = "none" => account[b].status = "none"
    BY <2>4 DEF AccountsInv, RequestsInv
  <2>7. mode # "free" => (\A b, c \in A!Defaults' : b = c) /\ A!Defaults' \subseteq A!Open'
    BY <2>2, <2>5
  <2>8. mode = "serial" /\ accountsCut' = 0 => WalletIsRight'
    <3> SUFFICES ASSUME mode = "serial", accountsCut' = 0 PROVE WalletIsRight'
      OBVIOUS
    <3>1. A!Defaults' = {a} /\ A!Defaults = {} /\ a = A!First(A!Open) /\ WalletIsRight
      BY <2>1, <2>2, <2>3, <2>5
    <3>2. CASE Mirrored(wallet)
      BY <2>1, <3>1, <3>2 DEF Mirrored, MirrorIs, WalletIsRight
    <3>3. CASE wallet # 0 /\ account[wallet].status = "CLOSED"
      BY <1>0, <2>1, <2>4, <3>3 DEF WalletIsRight
    <3> QED BY <2>2, <3>1, <3>2, <3>3 DEF WalletIsRight
  <2> QED BY <1>0, <2>1, <2>4, <2>6, <2>7, <2>8, AccountsEnd, ClerksAre DEF Rows
<1>11. ASSUME NEW x \in AccountAdmins, A!SetStatus(x)
       PROVE  AccountsInv'
  <2> DEFINE a == accountRequest[x].id
             r == [pc |-> "sync", id |-> a, other |-> 0]
  <2>1. PICK s \in {"ACTIVE", "SUSPENDED"} : account' = [b \in A!Ids |->
          IF b \in A!Open THEN [account[b] EXCEPT !.status = s] ELSE account[b]]
    BY <1>11 DEF A!SetStatus
  <2>2. /\ accountRequest[x].pc = "status" /\ UNCHANGED <<wallet, accountsCut, mode>>
        /\ accountRequest' = [accountRequest EXCEPT ![x] = r]
    BY <1>11 DEF A!SetStatus, A!At, A!Syncs, A!Becomes
  <2>3. a \in A!Ids /\ (mode = "serial" /\ accountsCut = 0 => Mirrored(a))
    BY <2>2, ClerksAre DEF AccountsInv, RequestsInv, SerialInv, AloneRight
  <2> HIDE DEF a
  <2>4. /\ account' \in Rows
        /\ \A b \in A!Ids : account'[b].default = account[b].default
        /\ \A b \in A!Ids : account'[b].status = IF b \in A!Open THEN s ELSE account[b].status
    BY <1>0, <2>1 DEF Rows
  <2>5. A!Open' = A!Open /\ A!Defaults' = A!Defaults
    BY <2>4 DEF A!Open, A!Defaults
  <2>6. /\ \A b, c \in A!Ids : b <= c /\ account'[b].status = "none" => account'[c].status = "none"
        /\ \A b \in A!Ids : account'[b].status = "none" => account[b].status = "none"
    <3>1. \A b \in A!Ids : account'[b].status = "none" <=> account[b].status = "none"
      BY <2>4 DEF A!Open
    <3> QED BY <3>1 DEF AccountsInv, RequestsInv
  <2>7. mode # "free" => (\A b, c \in A!Defaults' : b = c) /\ A!Defaults' \subseteq A!Open'
    BY <2>5 DEF AccountsInv, UserInv
  <2>8. r # A!Idle /\ r.id = a /\ \E b \in A!Ids : r = [pc |-> "sync", id |-> b, other |-> 0]
    BY <2>3, ClerksAre
  <2>9. mode = "serial" /\ accountsCut' = 0 => MirrorIs(a, A!Defaults', A!Open')
    BY <2>2, <2>3, <2>5 DEF Mirrored, MirrorIs
  <2> HIDE DEF r
  <2> QED BY <1>0, <2>2, <2>4, <2>5, <2>6, <2>7, <2>8, <2>9, AccountsEnd, ClerksAre DEF Rows
<1>12. ASSUME NEW d \in Clerks, A!Sync(d)
       PROVE  AccountsInv'
  <2> DEFINE a == accountRequest[d].id
  <2>1. /\ accountRequest[d].pc = "sync" /\ UNCHANGED <<account, accountsCut, mode>>
        /\ wallet' = a /\ accountRequest' = [accountRequest EXCEPT ![d] = A!Idle]
    BY <1>12 DEF A!Sync, A!At, A!Becomes
  <2>2. a \in A!Ids /\ (mode = "serial" /\ accountsCut = 0 => Mirrored(a))
    BY <2>1 DEF AccountsInv, RequestsInv, SerialInv, AloneRight
  <2> HIDE DEF a
  <2>3. A!Open' = A!Open /\ A!Defaults' = A!Defaults
    BY <2>1 DEF A!Open, A!Defaults
  <2>4. mode = "serial" /\ accountsCut' = 0 => WalletIsRight'
    BY <2>1, <2>2, <2>3 DEF WalletIsRight, Mirrored, MirrorIs
  <2>5. mode # "free" => (\A b, c \in A!Defaults' : b = c) /\ A!Defaults' \subseteq A!Open'
    BY <2>3 DEF AccountsInv, UserInv
  <2>6. /\ \A b, c \in A!Ids : b <= c /\ account'[b].status = "none" => account'[c].status = "none"
        /\ \A b \in A!Ids : account'[b].status = "none" => account[b].status = "none"
    BY <2>1 DEF AccountsInv, RequestsInv
  <2> QED BY <1>0, <2>1, <2>2, <2>3, <2>4, <2>5, <2>6, AccountsEnd DEF Rows
<1>13. ASSUME NEW d \in Clerks, A!CutOff(d)
       PROVE  AccountsInv'
  <2>1. /\ accountRequest[d] # A!Idle /\ accountsCut < MaxFaults /\ accountsCut' = accountsCut + 1
        /\ UNCHANGED <<account, wallet, mode>>
        /\ accountRequest' = [accountRequest EXCEPT ![d] = A!Idle]
    BY <1>13 DEF A!CutOff, A!Becomes
  <2>2. accountRequest[d].pc # "idle"
    BY <2>1 DEF AccountsInv, RequestsInv, Resting
  <2>3. A!Open' = A!Open /\ A!Defaults' = A!Defaults
    BY <2>1 DEF A!Open, A!Defaults
  <2>4. accountsCut' \in 0 .. MaxFaults /\ accountsCut' # 0
    BY <1>0, <2>1, AccountsConstants
  <2>5. mode # "free" => (\A b, c \in A!Defaults' : b = c) /\ A!Defaults' \subseteq A!Open'
    BY <2>3 DEF AccountsInv, UserInv
  <2>6. /\ \A b, c \in A!Ids : b <= c /\ account'[b].status = "none" => account'[c].status = "none"
        /\ \A b \in A!Ids : account'[b].status = "none" => account[b].status = "none"
    BY <2>1 DEF AccountsInv, RequestsInv
  <2> QED BY <1>0, <2>1, <2>2, <2>3, <2>4, <2>5, <2>6, AccountsEnd DEF Rows
<1> QED BY <1>1, <1>2, <1>3, <1>4, <1>5, <1>6, <1>7, <1>8, <1>9, <1>10, <1>11, <1>12, <1>13
        DEF A!Next, Clerks

LEMMA AccountsHolds ==
  AccountsInv => A!TypeOK /\ A!OneOpenDefault /\ A!WalletFollowsDefault
<1> SUFFICES ASSUME AccountsInv PROVE A!TypeOK /\ A!OneOpenDefault /\ A!WalletFollowsDefault
  OBVIOUS
<1>1. A!OneOpenDefault
  <2> SUFFICES ASSUME mode # "free" PROVE A!Cardinality(A!Defaults) <= 1 /\ A!Defaults \subseteq A!Open
    BY DEF A!OneOpenDefault
  <2>1. Cardinality(A!Defaults) <= 1
    BY AtMostOne DEF AccountsInv, UserInv
  <2>2. A!Cardinality(A!Defaults) = Cardinality(A!Defaults)
    BY DEF A!Cardinality, Cardinality
  <2> QED BY <2>1, <2>2 DEF AccountsInv, UserInv
<1>2. A!WalletFollowsDefault
  <2> SUFFICES ASSUME mode = "serial", accountsCut = 0,
                      \A d \in DOMAIN accountRequest : accountRequest[d] = A!Idle,
                      NEW a \in A!Defaults
               PROVE  a = wallet \/ (wallet # 0 /\ account[wallet].status = "CLOSED")
    BY DEF A!WalletFollowsDefault
  <2>1. \A d \in Clerks : accountRequest[d].pc = "idle"
    BY ClerksAre DEF AccountsInv, A!TypeOK, Clerks
  <2>2. WalletIsRight
    BY <2>1 DEF AccountsInv, SerialInv
  <2>3. A!Open # {}
    BY DEF AccountsInv, UserInv
  <2> QED BY <2>2, <2>3 DEF WalletIsRight, Mirrored, MirrorIs
<1> QED BY <1>1, <1>2 DEF AccountsInv

\* ClosedIsFinal of one step
LEMMA AccountsStay ==
  AccountsInv /\ [A!Next]_(A!vars) =>
    [\A a \in A!Ids : account[a].status = "CLOSED" => account'[a].status = "CLOSED"]_(A!vars)
<1> SUFFICES ASSUME AccountsInv, A!Next, NEW a \in A!Ids, account[a].status = "CLOSED"
             PROVE  account'[a].status = "CLOSED"
  OBVIOUS
<1> USE DEF AccountsInv, A!TypeOK
<1>1. ASSUME NEW d \in Devices, A!Create(d) PROVE account'[a].status = "CLOSED"
  BY <1>1 DEF A!Create
<1>2. ASSUME NEW d \in Devices, A!SetDefault(d) PROVE account'[a].status = "CLOSED"
  BY <1>2 DEF A!SetDefault
<1>3. ASSUME NEW d \in Devices, A!Close(d) PROVE account'[a].status = "CLOSED"
  BY <1>3 DEF A!Close
<1>4. ASSUME NEW d \in Devices, A!Repair(d) PROVE account'[a].status = "CLOSED"
  BY ZenonT(30), <1>4 DEF A!Repair
<1>5. ASSUME NEW x \in AccountAdmins, A!SetStatus(x) PROVE account'[a].status = "CLOSED"
  BY <1>5 DEF A!SetStatus, A!Open
<1>6. CASE UNCHANGED account
  BY <1>6
<1> QED BY <1>1, <1>2, <1>3, <1>4, <1>5, <1>6
        DEF A!Next, A!StartCreate, A!StartSetDefault, A!StartClose, A!StartRepair,
            A!StartSetStatus, A!Begins, A!Sync, A!CutOff

-----------------------------------------------------------------------------
(***************************************************************************)
(* Kyc: the log lacks nothing but what a request is about to write or a    *)
(* cut left out. With one request on each side, a submission that is about *)
(* to be written was found decided, and a decision was found pending.      *)
(***************************************************************************)
LEMMA KycConstants ==
  /\ MaxFaults \in Nat
  /\ Devices \cap Admins = {}
  BY ServicesAssumption

KycInv ==
  /\ K!TypeOK
  /\ \A a \in K!Actors : kycRequest[a].pc = "log" => kycRequest[a].to # "NOT_SUBMITTED"
  /\ kycCut = 0 =>
       \/ kycStatus \in logged \cup {"NOT_SUBMITTED"}
       \/ \E a \in K!Actors : kycRequest[a].pc = "log" /\ kycRequest[a].to = kycStatus
  /\ onePerSide =>
       /\ \A a, b \in Devices : kycRequest[a] # K!Idle /\ kycRequest[b] # K!Idle => a = b
       /\ \A a, b \in Admins : kycRequest[a] # K!Idle /\ kycRequest[b] # K!Idle => a = b
       /\ \A a \in K!Actors :
            /\ kycRequest[a].pc = "submit" => a \in Devices /\ kycStatus = kycRequest[a].from
            /\ kycRequest[a].pc = "decide" =>
                 a \in Admins /\ kycStatus = "PENDING" /\ kycRequest[a].to # "PENDING"

LEMMA KycInit == K!Init => KycInv
  BY KycConstants DEF K!Init, KycInv, K!TypeOK, K!Idle, K!Decisions, K!Actors

LEMMA KycNext == KycInv /\ [K!Next]_(K!vars) => KycInv'
<1> SUFFICES ASSUME KycInv, [K!Next]_(K!vars) PROVE KycInv'
  OBVIOUS
<1> USE KycConstants DEF KycInv, K!TypeOK, K!Idle, K!Decisions, K!Actors
<1>1. CASE UNCHANGED K!vars
  BY <1>1 DEF K!vars
<1>2. ASSUME NEW d \in Devices, K!StartSubmit(d)
      PROVE  KycInv'
  BY <1>2 DEF K!StartSubmit, K!Begins
<1>3. ASSUME NEW d \in Devices, K!Submit(d)
      PROVE  KycInv'
  BY <1>3 DEF K!Submit, K!Ends, K!Logs
<1>4. ASSUME NEW x \in Admins, K!Decide(x)
      PROVE  KycInv'
  BY <1>4 DEF K!Decide, K!Logs
<1>5. ASSUME NEW x \in Admins, NEW to \in K!Decisions, K!StartDecide(x, to)
      PROVE  KycInv'
  BY <1>5 DEF K!StartDecide, K!Begins
<1>6. ASSUME NEW a \in K!Actors, K!Log(a)
      PROVE  KycInv'
<2> USE <1>6 DEF K!Log, K!Ends
<2>1. K!TypeOK'
  <3>1. kycRequest[a] \in [pc : {"decide", "log"}, to : K!Decisions \cup {"PENDING"}]
    OBVIOUS
  <3>2. logged' = logged \cup {kycRequest[a].to} /\ kycRequest' = [kycRequest EXCEPT ![a] = K!Idle]
    OBVIOUS
  <3>3. logged' \subseteq K!Decisions \cup {"PENDING"}
    BY <3>1, <3>2
  <3> QED BY <3>2, <3>3
<2>2. (kycCut = 0 =>
       \/ kycStatus \in logged \cup {"NOT_SUBMITTED"}
       \/ \E b \in K!Actors : kycRequest[b].pc = "log" /\ kycRequest[b].to = kycStatus)'
  <3> SUFFICES ASSUME kycCut = 0, kycStatus \notin logged' \cup {"NOT_SUBMITTED"}
               PROVE  \E b \in K!Actors : kycRequest'[b].pc = "log" /\ kycRequest'[b].to = kycStatus
    OBVIOUS
  <3>1. PICK b \in K!Actors : kycRequest[b].pc = "log" /\ kycRequest[b].to = kycStatus
    OBVIOUS
  <3> QED BY <3>1
<2> QED BY <2>1, <2>2
<1>7. ASSUME NEW a \in K!Actors, K!CutOff(a)
      PROVE  KycInv'
  BY <1>7 DEF K!CutOff, K!Ends
<1> QED BY <1>1, <1>2, <1>3, <1>4, <1>5, <1>6, <1>7 DEF K!Next


LEMMA KycHolds == KycInv => K!TypeOK /\ K!StatusIsLogged
  BY KycConstants DEF KycInv, K!TypeOK, K!StatusIsLogged, K!Idle, K!Actors

\* A step of the submission's life: FollowsLife of one step.
LEMMA KycFollows ==
  KycInv /\ [K!Next]_(K!vars) =>
    [onePerSide /\ kycStatus' # kycStatus =>
       <<kycStatus, kycStatus'>> \in
         {<<"NOT_SUBMITTED", "PENDING">>, <<"REJECTED", "PENDING">>,
          <<"PENDING", "APPROVED">>, <<"PENDING", "REJECTED">>}]_kycStatus
  BY KycConstants DEF KycInv, K!TypeOK, K!Idle, K!Decisions, K!Actors, K!Next,
     K!StartSubmit, K!Begins, K!Submit, K!Ends, K!Logs, K!Decide, K!StartDecide, K!Log,
     K!CutOff, K!vars

-----------------------------------------------------------------------------
(***************************************************************************)
(* Complaints: as long as administrators act one at a time, a request on   *)
(* the way found the complaint undecided, and a compensation that no       *)
(* decision followed yet is that of a request on the way or was cut off.   *)
(***************************************************************************)
LEMMA ComplaintsConstants ==
  /\ MaxFaults \in Nat
  BY ServicesAssumption

ComplaintsInv ==
  /\ C!TypeOK
  /\ complaintRequest \in [Admins -> {C!Idle} \cup [pc : {"acknowledge"}]
                             \cup [pc : {"credit", "decide"}, to : C!Decided]]
  /\ complaintStatus = "none" => \A x \in Admins : complaintRequest[x] = C!Idle
  /\ serial =>
       /\ \A x, y \in Admins :
            complaintRequest[x] # C!Idle /\ complaintRequest[y] # C!Idle => x = y
       /\ \A x \in Admins :
            complaintRequest[x] # C!Idle => complaintStatus \notin C!Decided
       /\ credits <= 1 + complaintCut
       /\ (/\ complaintStatus \notin C!Decided
           /\ \A x \in Admins : complaintRequest[x].pc # "decide") => credits <= complaintCut

LEMMA ComplaintsInit == C!Init => ComplaintsInv
  BY ComplaintsConstants DEF C!Init, ComplaintsInv, C!TypeOK, C!Idle, C!Decided

LEMMA ComplaintsNext == ComplaintsInv /\ [C!Next]_(C!vars) => ComplaintsInv'
<1> SUFFICES ASSUME ComplaintsInv, [C!Next]_(C!vars) PROVE ComplaintsInv'
  OBVIOUS
<1> USE ComplaintsConstants DEF ComplaintsInv, C!TypeOK, C!Idle, C!Decided
<1>1. CASE UNCHANGED C!vars
  BY <1>1 DEF C!vars
<1>2. CASE C!Create
  BY <1>2 DEF C!Create
<1>3. ASSUME NEW x \in Admins, C!StartAcknowledge(x)
      PROVE  ComplaintsInv'
  BY <1>3 DEF C!StartAcknowledge, C!Begins
<1>4. ASSUME NEW x \in Admins, C!Acknowledge(x)
      PROVE  ComplaintsInv'
  BY <1>4 DEF C!Acknowledge, C!Becomes
<1>5. ASSUME NEW x \in Admins, C!Credit(x)
      PROVE  ComplaintsInv'
  BY <1>5 DEF C!Credit, C!Becomes
<1>6. ASSUME NEW x \in Admins, C!Decide(x)
      PROVE  ComplaintsInv'
  BY <1>6 DEF C!Decide, C!Becomes
<1>7. ASSUME NEW x \in Admins, C!CutOff(x)
      PROVE  ComplaintsInv'
  BY <1>7 DEF C!CutOff, C!Becomes
<1>8. ASSUME NEW x \in Admins, NEW d \in C!Decided, NEW paid \in BOOLEAN,
             C!StartResolve(x, d, paid)
      PROVE  ComplaintsInv'
  BY <1>8 DEF C!StartResolve, C!Begins
<1> QED BY <1>1, <1>2, <1>3, <1>4, <1>5, <1>6, <1>7, <1>8 DEF C!Next

LEMMA ComplaintsHolds == ComplaintsInv => C!TypeOK /\ C!CreditedOncePerRequest
  BY DEF ComplaintsInv, C!TypeOK, C!CreditedOncePerRequest

\* DecisionIsFinal of one step
LEMMA ComplaintsStay ==
  ComplaintsInv /\ [C!Next]_(C!vars) =>
    [serial /\ complaintStatus \in C!Decided => complaintStatus' = complaintStatus]_complaintStatus
  BY DEF ComplaintsInv, C!TypeOK, C!Idle, C!Decided, C!Next, C!Create, C!StartAcknowledge,
     C!Begins, C!Acknowledge, C!Becomes, C!Credit, C!Decide, C!CutOff, C!StartResolve, C!vars

-----------------------------------------------------------------------------
(***************************************************************************)
(* The dealing desk: as long as passes do not overlap and one              *)
(* administrator decides at a time, a pass that is about to suggest still  *)
(* finds no live action, and a decision is about one that still waits.     *)
(***************************************************************************)
LEMMA DeskConstants ==
  /\ MaxActions \in Nat
  BY ServicesAssumption

DeskInv ==
  /\ D!TypeOK
  /\ hedgeRequest \in [Admins -> {D!Idle} \cup
                         [pc : {"decide"}, row : D!Actions, to : {"APPROVED", "REJECTED"}]]
  /\ single =>
       /\ \A p, q \in Passes : pass[p] # "idle" /\ pass[q] # "idle" => p = q
       /\ \A x, y \in Admins : hedgeRequest[x] # D!Idle /\ hedgeRequest[y] # D!Idle => x = y
       /\ \A p \in Passes : pass[p] = "create" => D!Live = {}
       /\ \A x \in Admins : hedgeRequest[x] # D!Idle => action[hedgeRequest[x].row] = "SUGGESTED"
       /\ \A m, n \in D!Live : m = n

LEMMA DeskInit == D!Init => DeskInv
<1> SUFFICES ASSUME D!Init PROVE DeskInv
  OBVIOUS
<1> USE DeskConstants DEF D!Init, D!Idle
<1>1. D!TypeOK /\ D!Live = {}
  BY DEF D!TypeOK, D!Live
<1>2. hedgeRequest \in [Admins -> {D!Idle}] /\ \A p \in Passes : pass[p] = "idle"
  OBVIOUS
<1> QED BY <1>1, <1>2 DEF DeskInv

LEMMA DeskNext == DeskInv /\ [D!Next]_(D!vars) => DeskInv'
<1> SUFFICES ASSUME DeskInv, [D!Next]_(D!vars) PROVE DeskInv'
  OBVIOUS
<1> USE DeskConstants DEF DeskInv, D!TypeOK, D!Idle, D!Live
<1>1. CASE UNCHANGED D!vars
  BY <1>1 DEF D!vars
<1>2. CASE D!ExposureChanges
  BY <1>2 DEF D!ExposureChanges
<1>3. ASSUME NEW p \in Passes, D!StartPass(p)
      PROVE  DeskInv'
  BY <1>3 DEF D!StartPass, D!PassAt
<1>4. ASSUME NEW p \in Passes, D!Look(p)
      PROVE  DeskInv'
  BY <1>4 DEF D!Look, D!PassAt
<1>5. ASSUME NEW p \in Passes, D!Suggest(p)
      PROVE  DeskInv'
  BY <1>5 DEF D!Suggest, D!PassAt, D!Free
<1>6. ASSUME NEW x \in Admins, D!Decide(x)
      PROVE  DeskInv'
  BY <1>6 DEF D!Decide
<1>7. ASSUME NEW x \in Admins, NEW n \in D!Actions, NEW to \in {"APPROVED", "REJECTED"},
             D!StartDecide(x, n, to)
      PROVE  DeskInv'
  BY <1>7 DEF D!StartDecide
<1> QED BY <1>1, <1>2, <1>3, <1>4, <1>5, <1>6, <1>7 DEF D!Next

LEMMA DeskHolds == DeskInv => D!TypeOK /\ D!OneLiveAction
<1> SUFFICES ASSUME DeskInv, single PROVE D!Cardinality(D!Live) <= 1
  BY DEF DeskInv, D!OneLiveAction
<1>1. Cardinality(D!Live) <= 1
  BY AtMostOne DEF DeskInv
<1>2. D!Cardinality(D!Live) = Cardinality(D!Live)
  BY DEF D!Cardinality, Cardinality
<1> QED BY <1>1, <1>2

-----------------------------------------------------------------------------
(***************************************************************************)
(* Sessions: the client holds the token that is stored or is about to be   *)
(* answered it; what was not used yet is valid at most, and a link or code *)
(* that is gone was used once, unless two requests have read the code.     *)
(***************************************************************************)
LEMMA SessionsConstants ==
  /\ MaxToken \in Nat \ {0}
  /\ Links \cap Codes = {}
  BY ServicesAssumption

Answering(r, s) == sessionRequest[r].pc = "answer" /\ sessionRequest[r].of = s

SessionsInv ==
  /\ S!TypeOK
  /\ sessionRequest \in [Requests -> {S!Idle}
         \cup [pc : {"rotate"}, of : SessionIds]
         \cup [pc : {"answer"}, of : SessionIds, token : 0 .. MaxToken]
         \cup [pc : {"use"}, of : S!Tokens]]
  /\ \A r \in Requests : sessionRequest[r].pc \in {"rotate", "answer"} =>
       session[sessionRequest[r].of].status # "none"
  /\ \A t \in S!Tokens : once[t] # "gone" => uses[t] = 0
  /\ \A t \in Links : uses[t] <= 1
  /\ oneTab =>
       /\ \A q, r \in Requests :
            /\ sessionRequest[q] # S!Idle /\ sessionRequest[r] # S!Idle
            /\ sessionRequest[q].of = sessionRequest[r].of
            => q = r
       /\ \A s \in SessionIds :
            /\ \A r \in Requests : Answering(r, s) => sessionRequest[r].token = session[s].token
            /\ (\A r \in Requests : ~Answering(r, s)) => held[s] = session[s].token
       /\ \A t \in Codes : uses[t] <= 1
       /\ \A r \in Requests : sessionRequest[r].pc = "use" => once[sessionRequest[r].of] = "valid"

LEMMA SessionsInit == S!Init => SessionsInv
  BY SessionsConstants DEF S!Init, SessionsInv, S!TypeOK, S!Idle, S!Tokens, Answering

LEMMA SessionsNext == SessionsInv /\ [S!Next]_(S!vars) => SessionsInv'
<1> SUFFICES ASSUME SessionsInv, [S!Next]_(S!vars) PROVE SessionsInv'
  OBVIOUS
<1> USE SessionsConstants DEF SessionsInv, S!TypeOK, S!Idle, S!Tokens, Answering
<1>1. CASE UNCHANGED S!vars
  BY <1>1 DEF S!vars
<1>2. ASSUME NEW s \in SessionIds, S!Login(s)
      PROVE  SessionsInv'
  BY <1>2 DEF S!Login
<1>3. ASSUME NEW set \in SUBSET SessionIds, S!Revoke(set)
      PROVE  SessionsInv'
  BY <1>3 DEF S!Revoke
<1>4. ASSUME NEW t \in S!Tokens, S!Issue(t)
      PROVE  SessionsInv'
  BY <1>4 DEF S!Issue
<1>5. ASSUME NEW r \in Requests, NEW s \in SessionIds, S!StartRefresh(r, s)
      PROVE  SessionsInv'
  BY <1>5 DEF S!StartRefresh, S!Begins, S!Busy
<1>6. ASSUME NEW r \in Requests, S!Rotate(r)
      PROVE  SessionsInv'
  <2> DEFINE s == sessionRequest[r].of
             n == session[s].token + 1
  <2>1. /\ sessionRequest[r].pc = "rotate" /\ s \in SessionIds
        /\ n \in 1 .. MaxToken
        /\ session' = [session EXCEPT ![s].token = n]
        /\ sessionRequest' =
             [sessionRequest EXCEPT ![r] = [pc |-> "answer", of |-> s, token |-> n]]
        /\ UNCHANGED <<held, once, uses, oneTab>>
    BY <1>6 DEF S!Rotate, S!Becomes
  <2> HIDE DEF n
  <2>2. /\ session' \in [SessionIds -> [status : {"none", "live", "revoked"},
                                        token : 0 .. MaxToken]]
        /\ \A i \in SessionIds : session'[i].status = session[i].status
        /\ session'[s].token = n
        /\ \A i \in SessionIds : i # s => session'[i] = session[i]
    BY <2>1
  <2>3. oneTab => \A q \in Requests :
          sessionRequest[q] # S!Idle /\ sessionRequest[q].of = s => q = r
    BY <2>1
  <2>4. /\ \A q \in Requests : q # r => sessionRequest'[q] = sessionRequest[q]
        /\ sessionRequest'[r] = [pc |-> "answer", of |-> s, token |-> n]
    BY <2>1
  <2>5. oneTab => \A i \in SessionIds :
          /\ \A q \in Requests : Answering(q, i)' => sessionRequest'[q].token = session'[i].token
          /\ (\A q \in Requests : ~Answering(q, i)') => held'[i] = session'[i].token
    BY <2>1, <2>2, <2>3, <2>4
  <2>6. S!TypeOK' /\ (\A t \in S!Tokens : once'[t] # "gone" => uses'[t] = 0)
    BY <2>1, <2>2, <2>4
  <2>7. sessionRequest' \in [Requests -> {S!Idle}
           \cup [pc : {"rotate"}, of : SessionIds]
           \cup [pc : {"answer"}, of : SessionIds, token : 0 .. MaxToken]
           \cup [pc : {"use"}, of : S!Tokens]]
    BY <2>1
  <2> QED BY SMTT(30), <2>1, <2>2, <2>3, <2>4, <2>5, <2>6, <2>7
<1>7. ASSUME NEW r \in Requests, S!Answer(r)
      PROVE  SessionsInv'
  BY <1>7 DEF S!Answer, S!Becomes
<1>8. ASSUME NEW r \in Requests, NEW t \in S!Tokens, S!StartUse(r, t)
      PROVE  SessionsInv'
  BY <1>8 DEF S!StartUse, S!Begins, S!Busy
<1>9. ASSUME NEW r \in Requests, S!UseLink(r)
      PROVE  SessionsInv'
  <2>1. sessionRequest[r].of \in Links /\ sessionRequest' = [sessionRequest EXCEPT ![r] = S!Idle]
    BY <1>9 DEF S!UseLink, S!Becomes
  <2>2. CASE once[sessionRequest[r].of] = "valid"
    <3> DEFINE t == sessionRequest[r].of
    <3>1. /\ once' = [once EXCEPT ![t] = "gone"]
          /\ uses' = [uses EXCEPT ![t] = IF @ = 2 THEN 2 ELSE @ + 1]
          /\ UNCHANGED <<session, held, oneTab>>
      BY <1>9, <2>2 DEF S!UseLink, S!Used
    <3>2. uses'[t] = 1 /\ t \notin Codes /\ uses' \in [S!Tokens -> 0 .. 2]
      BY <2>1, <2>2, <3>1
    <3>3. /\ \A i \in S!Tokens : once'[i] # "gone" => uses'[i] = 0
          /\ \A i \in Links : uses'[i] <= 1
          /\ oneTab => \A i \in Codes : uses'[i] <= 1
      BY <3>1, <3>2
    <3>4. oneTab => \A q \in Requests :
            sessionRequest'[q].pc = "use" => once'[sessionRequest'[q].of] = "valid"
      BY <1>9, <2>1, <3>1 DEF S!UseLink
    <3> QED BY SMTT(30), <1>9, <2>1, <3>1, <3>2, <3>3, <3>4 DEF S!UseLink
  <2>3. CASE once[sessionRequest[r].of] # "valid"
    BY <1>9, <2>1, <2>3 DEF S!UseLink
  <2> QED BY <2>2, <2>3
<1>10. ASSUME NEW r \in Requests, S!UseCode(r)
       PROVE  SessionsInv'
  BY <1>10 DEF S!UseCode, S!Used, S!Becomes
<1> QED BY <1>1, <1>2, <1>3, <1>4, <1>5, <1>6, <1>7, <1>8, <1>9, <1>10
        DEF S!Next, S!LogoutAll

LEMMA SessionsHolds ==
  SessionsInv => S!TypeOK /\ S!ClientCanRefresh /\ S!TokensWorkOnce
  BY DEF SessionsInv, S!TypeOK, S!ClientCanRefresh, S!TokensWorkOnce, S!Busy, S!Idle, Answering

\* RevokedIsFinal of one step
LEMMA SessionsStay ==
  SessionsInv /\ [S!Next]_(S!vars) =>
    [\A s \in SessionIds :
       session[s].status = "revoked" => session'[s].status = "revoked"]_session
<1> SUFFICES ASSUME SessionsInv, S!Next, NEW s \in SessionIds, session[s].status = "revoked"
             PROVE  session'[s].status = "revoked"
  BY DEF S!vars
<1> USE DEF SessionsInv, S!TypeOK
<1>1. ASSUME NEW i \in SessionIds, S!Login(i) PROVE session'[s].status = "revoked"
  BY <1>1 DEF S!Login
<1>2. ASSUME NEW set \in SUBSET SessionIds, S!Revoke(set) PROVE session'[s].status = "revoked"
  BY <1>2 DEF S!Revoke
<1>3. ASSUME NEW r \in Requests, S!Rotate(r) PROVE session'[s].status = "revoked"
  BY <1>3 DEF S!Rotate
<1>4. CASE UNCHANGED session
  BY <1>4
<1> QED BY <1>1, <1>2, <1>3, <1>4
        DEF S!Next, S!LogoutAll, S!Issue, S!StartRefresh, S!StartUse, S!Begins, S!Answer,
            S!UseLink, S!UseCode

-----------------------------------------------------------------------------
(***************************************************************************)
(* Administrators: as long as requests come one at a time, what a request  *)
(* is about to write may still be written to what the target is by then.   *)
(***************************************************************************)
LEMMA AdministratorsConstants ==
  /\ Seeded \in Configured
  /\ Configured \subseteq Staff
  BY ServicesAssumption

AdministratorsInv ==
  /\ R!TypeOK
  /\ form \in [Forms -> {R!Blank} \cup [pc : {"open"}, by : Staff] \cup
                 [pc : {"write"}, by : Staff, of : Staff,
                  new : [role : R!Roles, active : BOOLEAN]]]
  /\ queued =>
       /\ \A f, g \in Forms : form[f] # R!Blank /\ form[g] # R!Blank => f = g
       /\ \A f \in Forms : form[f].pc = "write" =>
            /\ form[f].of \in Configured => admin[form[f].of] = R!Super
            /\ R!CanModify(form[f].by, form[f].of, admin[form[f].of], form[f].new)

LEMMA AdministratorsInit == R!Init => AdministratorsInv
  BY AdministratorsConstants
     DEF R!Init, AdministratorsInv, R!TypeOK, R!Blank, R!Super, R!Roles

\* What findById returns and leaves, of one administrator and of the others
LEMMA FindKeeps ==
  ASSUME R!TypeOK, NEW a \in Staff
  PROVE  /\ R!Find(a) \in [Staff -> [role : R!Roles \cup {"none"}, active : BOOLEAN]]
         /\ \A b \in Staff : R!Find(a)[b] # admin[b] =>
              b = a /\ a \in Configured /\ R!Find(a)[b] = R!Super
         /\ a \in Configured => R!Find(a)[a] = R!Super
  BY DEF R!TypeOK, R!Find, R!Super, R!Roles

LEMMA AdministratorsNext == AdministratorsInv /\ [R!Next]_(R!vars) => AdministratorsInv'
<1> SUFFICES ASSUME AdministratorsInv, [R!Next]_(R!vars) PROVE AdministratorsInv'
  OBVIOUS
<1> USE AdministratorsConstants DEF AdministratorsInv, R!TypeOK, R!Blank
<1>1. CASE UNCHANGED R!vars
  BY <1>1 DEF R!vars, R!CanModify
<1>2. ASSUME NEW a \in Staff, R!Comes(a)
      PROVE  AdministratorsInv'
  <2>1. R!TypeOK'
    BY <1>2, FindKeeps DEF R!Comes
  <2>2. \A b \in Staff : admin'[b] # admin[b] => b \in Configured /\ admin'[b] = R!Super
    BY <1>2, FindKeeps DEF R!Comes
  <2> QED BY <1>2, <2>1, <2>2 DEF R!Comes, R!CanModify
<1>3. ASSUME NEW f \in Forms, R!Write(f)
      PROVE  AdministratorsInv'
  BY <1>3 DEF R!Write, R!Becomes, R!CanModify
<1>4. ASSUME NEW f \in Forms, NEW a \in Staff, R!Start(f, a)
      PROVE  AdministratorsInv'
  BY <1>4, FindKeeps DEF R!Start, R!Becomes, R!CanModify
<1>5. ASSUME NEW f \in Forms, NEW a \in Staff, NEW role \in R!Roles, R!Create(f, a, role)
      PROVE  AdministratorsInv'
  BY <1>5 DEF R!Create, R!Becomes, R!CanModify
<1>6. ASSUME NEW f \in Forms, NEW a \in Staff,
             NEW what \in [role : R!Roles] \cup [active : BOOLEAN], R!Look(f, a, what)
      PROVE  AdministratorsInv'
  <2> DEFINE old == R!Find(a)[a]
             new == [key \in DOMAIN old |-> IF key \in DOMAIN what THEN what[key] ELSE old[key]]
  <2>1. old \in [role : R!Roles, active : BOOLEAN]
    BY <1>6 DEF R!Look, R!Find, R!Super, R!Roles
  <2>2. new \in [role : R!Roles, active : BOOLEAN]
    <3>1. DOMAIN old = {"role", "active"}
      BY <2>1
    <3> QED BY <2>1, <3>1
  <2> HIDE DEF old, new
  <2>3. /\ form[f].pc = "open" /\ admin' = R!Find(a) /\ queued' = queued
        /\ form' = [form EXCEPT ![f] =
                      IF R!CanModify(form[f].by, a, old, new)
                      THEN [pc |-> "write", by |-> form[f].by, of |-> a, new |-> new]
                      ELSE R!Blank]
    BY <1>6 DEF R!Look, R!Becomes, old, new
  <2>4. R!TypeOK'
    BY <2>2, <2>3, FindKeeps
  <2> QED BY <2>2, <2>3, <2>4, FindKeeps DEF R!CanModify, old
<1> QED BY <1>1, <1>2, <1>3, <1>4, <1>5, <1>6 DEF R!Next

\* TakenDownByRight of one step
LEMMA AdministratorsStay ==
  AdministratorsInv /\ [R!Next]_(R!vars) =>
    [queued => \A a \in Staff :
       R!IsSuper(a) /\ (admin'[a].role # "SUPER_ADMIN"
                        \/ (admin[a].active /\ ~admin'[a].active))
       => Seeded \in R!Writes(a) \/ (a \in R!Writes(a) /\ admin'[a].active)]_<<admin, form>>
<1> SUFFICES ASSUME AdministratorsInv, R!Next, queued, NEW a \in Staff, R!IsSuper(a),
                    admin'[a].role # "SUPER_ADMIN" \/ (admin[a].active /\ ~admin'[a].active)
             PROVE  Seeded \in R!Writes(a) \/ (a \in R!Writes(a) /\ admin'[a].active)
  BY DEF R!vars
<1> USE DEF AdministratorsInv, R!TypeOK, R!IsSuper
<1>1. admin' # admin /\ \A b \in Staff : admin' # R!Find(b)
  BY FindKeeps DEF R!Super
<1>2. PICK f \in Forms : R!Write(f)
  BY ZenonT(30), <1>1 DEF R!Next, R!Comes, R!Start, R!Create, R!Look
<1>3. form[f].pc = "write" /\ form[f].of = a /\ admin'[a] = form[f].new
  BY <1>2 DEF R!Write, R!Blank
<1>4. form[f].by \in R!Writes(a)
  BY <1>3 DEF R!Writes
<1> QED BY <1>3, <1>4 DEF R!CanModify

LEMMA AdministratorsHolds == AdministratorsInv => R!TypeOK
  BY DEF AdministratorsInv

-----------------------------------------------------------------------------
(***************************************************************************)
(* Credentials: as long as resets do not overlap and nothing breaks, a     *)
(* reset can put back a password that is known; a code was verified of the *)
(* secret that a confirmation is about to enable.                          *)
(***************************************************************************)
LEMMA CredentialsConstants ==
  /\ MaxFaults \in Nat
  /\ MaxSecret \in Nat
  /\ MaxPassword \in Nat \ {0}
  BY ServicesAssumption

CredentialsInv ==
  /\ P!TypeOK
  /\ screen \in [Screens -> {P!Closed}
         \cup [pc : {"store"}, topic : {"reset"}, old : 1 .. MaxPassword]
         \cup [pc : {"mail", "restore"}, topic : {"reset"}, old : 1 .. MaxPassword,
               new : 1 .. MaxPassword]
         \cup [pc : {"change"}, topic : {"change"}]
         \cup [pc : {"confirm", "disable"}, topic : {"factor"}]]
  /\ \A s \in Screens : screen[s].pc = "mail" => screen[s].new <= made
  /\ calm =>
       /\ \A s, t \in Screens :
            screen[s].topic = screen[t].topic /\ screen[s].topic \in {"reset", "factor"} => s = t
       /\ factor.on \/ (\E s \in Screens : screen[s].pc = "confirm") =>
            factor.secret # 0 /\ factor.secret = proved
  /\ calm /\ credentialFaults = 0 =>
       /\ (\A s \in Screens : screen[s].pc \notin {"mail", "restore"}) => password \in known
       /\ \A s \in Screens :
            /\ screen[s].topic = "reset" => screen[s].old \in known
            /\ screen[s].pc = "mail" => password \in known \cup {screen[s].new}

LEMMA CredentialsInit == P!Init => CredentialsInv
  BY CredentialsConstants DEF P!Init, CredentialsInv, P!TypeOK, P!Closed

LEMMA CredentialsNext == CredentialsInv /\ [P!Next]_(P!vars) => CredentialsInv'
<1> SUFFICES ASSUME CredentialsInv, [P!Next]_(P!vars) PROVE CredentialsInv'
  OBVIOUS
<1> USE CredentialsConstants DEF CredentialsInv, P!TypeOK, P!Closed, P!At, P!Becomes
<1>1. CASE UNCHANGED P!vars
  BY <1>1 DEF P!vars
<1>2. CASE P!Setup
  BY <1>2 DEF P!Setup, P!Under
<1>3. ASSUME NEW s \in Screens, P!StartReset(s)
      PROVE  CredentialsInv'
  BY <1>3 DEF P!StartReset, P!Under
<1>4. ASSUME NEW s \in Screens, P!StoreReset(s)
      PROVE  CredentialsInv'
  BY <1>4 DEF P!StoreReset
<1>5. ASSUME NEW s \in Screens, P!Mailed(s)
      PROVE  CredentialsInv'
  <2>1. screen[s].new \in 1 .. made /\ known' = known \cup {screen[s].new}
    BY <1>5 DEF P!Mailed
  <2>2. known' \subseteq 1 .. made
    BY <2>1
  <2> QED BY <1>5, <2>1, <2>2 DEF P!Mailed
<1>6. ASSUME NEW s \in Screens, P!MailFails(s)
      PROVE  CredentialsInv'
  BY <1>6 DEF P!MailFails
<1>7. ASSUME NEW s \in Screens, P!Restore(s)
      PROVE  CredentialsInv'
  BY <1>7 DEF P!Restore
<1>8. ASSUME NEW s \in Screens, P!LogFails(s)
      PROVE  CredentialsInv'
  <2>1. screen[s].new \in 1 .. made /\ known' = known \cup {screen[s].new}
    BY <1>8 DEF P!LogFails
  <2>2. known' \subseteq 1 .. made
    BY <2>1
  <2> QED BY <1>8, <2>1, <2>2 DEF P!LogFails
<1>9. ASSUME NEW s \in Screens, P!Break(s)
      PROVE  CredentialsInv'
  BY <1>9 DEF P!Break
<1>10. ASSUME NEW s \in Screens, P!StartChange(s)
       PROVE  CredentialsInv'
  BY <1>10 DEF P!StartChange
<1>11. ASSUME NEW s \in Screens, P!Change(s)
       PROVE  CredentialsInv'
  <2>1. known' = known \cup {made + 1} /\ made' = made + 1 /\ made < MaxPassword
    BY <1>11 DEF P!Change
  <2>2. known' \subseteq 1 .. made'
    <3> SUFFICES ASSUME NEW k \in known' PROVE k \in 1 .. made'
      OBVIOUS
    <3>1. made \in 1 .. MaxPassword /\ (k \in 1 .. made \/ k = made + 1)
      BY <2>1
    <3> QED BY <2>1, <3>1
  <2> QED BY <1>11, <2>1, <2>2 DEF P!Change
<1>12. ASSUME NEW s \in Screens, NEW to \in {"confirm", "disable"}, P!StartFactor(s, to)
       PROVE  CredentialsInv'
  BY <1>12 DEF P!StartFactor, P!Under
<1>13. ASSUME NEW s \in Screens, P!Confirm(s)
       PROVE  CredentialsInv'
  BY <1>13 DEF P!Confirm
<1>14. ASSUME NEW s \in Screens, P!Disable(s)
       PROVE  CredentialsInv'
  <2>1. factor' = [on |-> FALSE, secret |-> 0, made |-> factor.made]
    BY <1>14 DEF P!Disable
  <2>2. /\ screen[s] = [pc |-> "disable", topic |-> "factor"]
        /\ screen' = [screen EXCEPT ![s] = P!Closed]
        /\ UNCHANGED <<password, known, made, proved, calm, credentialFaults>>
    BY <1>14 DEF P!Disable
  <2>3. P!TypeOK'
    BY <2>1, <2>2
  <2>4. calm => ~factor'.on /\ \A t \in Screens : screen'[t].pc # "confirm"
    BY <2>1, <2>2
  <2>5. \A t \in Screens : screen'[t] = P!Closed \/ screen'[t] = screen[t]
    BY <2>2
  <2> QED BY <2>2, <2>3, <2>4, <2>5
<1> QED BY <1>1, <1>2, <1>3, <1>4, <1>5, <1>6, <1>7, <1>8, <1>9, <1>10, <1>11, <1>12,
           <1>13, <1>14 DEF P!Next

LEMMA CredentialsHolds ==
  CredentialsInv => P!TypeOK /\ P!PasswordIsKnown /\ P!FactorIsProved
  BY DEF CredentialsInv, P!TypeOK, P!PasswordIsKnown, P!FactorIsProved, P!Under, P!Closed

-----------------------------------------------------------------------------
(***************************************************************************)
(* Presence: who is counted is connected or has left too early, and who is *)
(* connected is counted.                                                   *)
(***************************************************************************)
LEMMA PresenceConstants ==
  /\ OwnerOf \in [Sockets -> Operators]
  BY ServicesAssumption

PresenceInv ==
  /\ O!TypeOK
  /\ \A a \in Operators : \A s \in online[a] :
       OwnerOf[s] = a /\ (socket[s] = "joined" \/ s \in hasty)
  /\ \A s \in Sockets : socket[s] = "joined" => s \in online[OwnerOf[s]]

LEMMA PresenceInit == O!Init => PresenceInv
  BY DEF O!Init, PresenceInv, O!TypeOK

LEMMA PresenceNext == PresenceInv /\ [O!Next]_(O!vars) => PresenceInv'
<1> SUFFICES ASSUME PresenceInv, [O!Next]_(O!vars) PROVE PresenceInv'
  OBVIOUS
<1> USE PresenceConstants DEF PresenceInv, O!TypeOK
<1>1. CASE UNCHANGED O!vars
  BY <1>1 DEF O!vars
<1>2. ASSUME NEW s \in Sockets, O!Connect(s)
      PROVE  PresenceInv'
  BY <1>2 DEF O!Connect
<1>3. ASSUME NEW s \in Sockets, O!Refused(s)
      PROVE  PresenceInv'
  BY <1>3 DEF O!Refused
<1>4. ASSUME NEW s \in Sockets, O!Verified(s)
      PROVE  PresenceInv'
  BY <1>4 DEF O!Verified
<1>5. ASSUME NEW s \in Sockets, O!Disconnect(s)
      PROVE  PresenceInv'
  BY <1>5 DEF O!Disconnect, O!Remaining
<1> QED BY <1>1, <1>2, <1>3, <1>4, <1>5 DEF O!Next

LEMMA PresenceHolds == PresenceInv => O!TypeOK /\ O!OnlineIffConnected
  BY PresenceConstants DEF PresenceInv, O!TypeOK, O!OnlineIffConnected

-----------------------------------------------------------------------------
(***************************************************************************)
(* Webhooks: a row that waits counts every post but those a fault kept it  *)
(* from counting, and was answered only before a fault. The row the pass   *)
(* is at was read before its post.                                         *)
(***************************************************************************)
LEMMA WebhooksConstants ==
  /\ MaxDeliveryFaults \in Nat
  /\ RateLimit \in Nat
  /\ MaxAttempts \in Nat \ {0}
  BY ServicesAssumption

Working == work.pc \in {"delivered", "tell", "failed"}

WebhooksInv ==
  /\ W!TypeOK
  /\ posts \in [Deliveries -> Nat] /\ accepted \in [Deliveries -> Nat]
  /\ work \in {W!Rest, [pc |-> "next"]} \cup
       [pc : {"delivered", "tell", "failed"}, of : Deliveries,
        attempts : 0 .. MaxAttempts - 1, permanent : BOOLEAN]
  /\ work = W!Rest => left = {}
  /\ ~endpoint => \A d \in Deliveries : row[d] = W!Gone
  /\ Working =>
       /\ work.of \notin left /\ posts[work.of] > 0
       /\ row[work.of] # W!Gone =>
            posts[work.of] <= work.attempts + 1 + deliveryFaults
       /\ row[work.of] = W!Gone \/ row[work.of] \in
            [status : IF work.pc = "delivered" THEN {"pending"}
                      ELSE IF work.pc = "tell" THEN {"delivered"} ELSE {"pending", "delivered"},
             attempts : {work.attempts, work.attempts + 1}]
       /\ row[work.of].status = "pending" => row[work.of].attempts = work.attempts
       /\ work.pc = "failed" /\ row[work.of] # W!Gone => accepted[work.of] <= deliveryFaults
  /\ \A d \in Deliveries :
       /\ d \in left => row[d].status = "pending" \/ (row[d] = W!Gone /\ ~endpoint)
       /\ row[d].status = "pending" => row[d].attempts < MaxAttempts
       /\ accepted[d] <= posts[d]
       /\ accepted[d] <= 1 + deliveryFaults /\ posts[d] <= MaxAttempts + deliveryFaults
       /\ (d \in left \/ row[d].status = "pending") /\ ~(Working /\ work.of = d) =>
            /\ accepted[d] <= deliveryFaults
            /\ posts[d] < MaxAttempts + deliveryFaults
            /\ row[d].status = "pending" => posts[d] <= row[d].attempts + deliveryFaults

LEMMA WebhooksInit == W!Init => WebhooksInv
  BY WebhooksConstants DEF W!Init, WebhooksInv, W!TypeOK, W!Rest, W!Gone, W!Pending, Working

LEMMA WebhooksNext == WebhooksInv /\ [W!Next]_(W!vars) => WebhooksInv'
<1> SUFFICES ASSUME WebhooksInv, [W!Next]_(W!vars) PROVE WebhooksInv'
  OBVIOUS
<1> USE WebhooksConstants
    DEF WebhooksInv, W!TypeOK, W!Rest, W!Gone, W!Pending, Working, W!PassFails
<1>1. CASE UNCHANGED W!vars
  BY <1>1 DEF W!vars
<1>2. CASE W!Delete
  <2>1. /\ row' \in [Deliveries -> {W!Gone}] /\ endpoint' = FALSE /\ due' = {} /\ recent' = {}
        /\ UNCHANGED <<left, work, posts, accepted, deliveryFaults>>
    BY <1>2 DEF W!Delete
  <2>2. W!Gone \in [status : {"none", "pending", "delivered", "failed"}, attempts : 0 .. MaxAttempts]
    OBVIOUS
  <2>3. W!TypeOK'
    <3>1. row' \in [Deliveries -> [status : {"none", "pending", "delivered", "failed"},
                                  attempts : 0 .. MaxAttempts]]
      BY <2>1, <2>2
    <3>2. endpoint' \in BOOLEAN /\ due' \subseteq W!Pending' /\ recent' \subseteq Deliveries
      BY <2>1
    <3>3. /\ left' \subseteq Deliveries /\ deliveryFaults' \in 0 .. MaxDeliveryFaults
          /\ work'.pc \in {"rest", "next", "delivered", "tell", "failed"}
      BY <2>1
    <3> QED BY <3>1, <3>2, <3>3
  <2>4. \A d \in Deliveries : row'[d] = W!Gone
    BY <2>1
  <2> QED BY <2>1, <2>3, <2>4
<1>3. CASE W!StartPass
  BY <1>3 DEF W!StartPass
<1>4. CASE W!EndPass
  BY <1>4 DEF W!EndPass
<1>5. CASE W!Delivered
  BY <1>5 DEF W!Delivered, W!Writes
<1>6. CASE W!Tell
  BY <1>6 DEF W!Tell
<1>7. CASE W!WriteFails
  BY <1>7 DEF W!WriteFails
<1>8. CASE W!Failed
  <2>1. CASE row[work.of] = W!Gone
    BY <1>8, <2>1 DEF W!Failed
  <2>2. CASE row[work.of] # W!Gone
    <3>1. PICK s \in {"failed", "pending"} :
            /\ s = "pending" => work.attempts + 1 < MaxAttempts
            /\ W!Writes(work.of, s)
      BY <1>8, <2>2 DEF W!Failed, W!IsPermanent
    <3>2. /\ work.of \in Deliveries /\ work.attempts \in 0 .. MaxAttempts - 1
          /\ work.of \notin left /\ Working /\ posts[work.of] > 0
          /\ posts[work.of] <= work.attempts + 1 + deliveryFaults
          /\ accepted[work.of] <= deliveryFaults
      BY <1>8, <2>2 DEF W!Failed
    <3>3. /\ work' = [pc |-> "next"] /\ ~Working'
          /\ UNCHANGED <<left, endpoint, posts, accepted, deliveryFaults>>
      BY <1>8, <2>2 DEF W!Failed
    <3>4. /\ row'[work.of] = [status |-> s, attempts |-> work.attempts + 1]
          /\ \A d \in Deliveries : d # work.of => row'[d] = row[d]
      BY <3>1, <3>2 DEF W!Writes
    <3>5. W!TypeOK'
      <4>1. [status |-> s, attempts |-> work.attempts + 1] \in
              [status : {"none", "pending", "delivered", "failed"}, attempts : 0 .. MaxAttempts]
        BY <3>2
      <4>2. row' \in [Deliveries -> [status : {"none", "pending", "delivered", "failed"},
                                    attempts : 0 .. MaxAttempts]]
        BY <3>1, <3>2, <4>1 DEF W!Writes
      <4>3. due' \subseteq W!Pending' /\ recent' \subseteq Deliveries
        BY <3>1, <3>2, <3>4 DEF W!Writes
      <4> QED BY <3>3, <4>2, <4>3
    <3>6. endpoint
      BY <2>2, <3>2
    <3> QED BY <2>2, <3>1, <3>2, <3>3, <3>4, <3>5, <3>6
  <2> QED BY <2>1, <2>2
<1>9. CASE W!Breaks
  BY <1>9 DEF W!Breaks
<1>10. CASE W!Crash
  BY <1>10 DEF W!Crash
<1>11. ASSUME NEW d \in Deliveries, W!Fire(d)
       PROVE  WebhooksInv'
  BY <1>11 DEF W!Fire
<1>12. ASSUME NEW d \in Deliveries, W!Forget(d)
       PROVE  WebhooksInv'
  BY <1>12 DEF W!Forget
<1>13. ASSUME NEW d \in Deliveries, W!ComesDue(d)
       PROVE  WebhooksInv'
  BY <1>13 DEF W!ComesDue
<1>14. ASSUME NEW d \in Deliveries, W!Postpone(d)
       PROVE  WebhooksInv'
  BY <1>14 DEF W!Postpone
<1>15. ASSUME NEW d \in Deliveries, W!Post(d)
       PROVE  WebhooksInv'
  BY <1>15 DEF W!Post
<1>16. ASSUME NEW d \in Deliveries, W!Cleanup(d)
       PROVE  WebhooksInv'
  BY <1>16 DEF W!Cleanup
<1> QED BY <1>1, <1>2, <1>3, <1>4, <1>5, <1>6, <1>7, <1>8, <1>9, <1>10, <1>11, <1>12,
           <1>13, <1>14, <1>15, <1>16 DEF W!Next

LEMMA WebhooksHolds == WebhooksInv => W!TypeOK /\ W!RepeatsNeedFaults
  BY DEF WebhooksInv, W!RepeatsNeedFaults

-----------------------------------------------------------------------------
(***************************************************************************)
(* Alerts: as long as checks do not overlap and closed alerts are left     *)
(* alone, a check that is about to raise an alert still finds none that is *)
(* unresolved.                                                             *)
(***************************************************************************)
LEMMA AlertsConstants ==
  /\ MaxAlerts \in Nat
  BY ServicesAssumption

AlertsInv ==
  /\ L!TypeOK
  /\ tidy =>
       /\ \A c, d \in Checks : check[c] # "idle" /\ check[d] # "idle" => c = d
       /\ \A c \in Checks : check[c] = "create" => L!Unresolved = {}
       /\ \A m, n \in L!Unresolved : m = n

LEMMA AlertsInit == L!Init => AlertsInv
  BY AlertsConstants DEF L!Init, AlertsInv, L!TypeOK, L!Unresolved

LEMMA AlertsNext == AlertsInv /\ [L!Next]_(L!vars) => AlertsInv'
<1> SUFFICES ASSUME AlertsInv, [L!Next]_(L!vars) PROVE AlertsInv'
  OBVIOUS
<1> USE AlertsConstants DEF AlertsInv, L!TypeOK, L!Unresolved
<1>1. CASE UNCHANGED L!vars
  BY <1>1 DEF L!vars
<1>2. ASSUME NEW c \in Checks, L!Suspect(c)
      PROVE  AlertsInv'
  BY <1>2 DEF L!Suspect, L!CheckAt
<1>3. ASSUME NEW c \in Checks, L!FindUnresolved(c)
      PROVE  AlertsInv'
  BY <1>3 DEF L!FindUnresolved, L!CheckAt
<1>4. ASSUME NEW c \in Checks, L!Create(c)
      PROVE  AlertsInv'
  BY <1>4 DEF L!Create, L!CheckAt, L!Raised
<1>5. ASSUME NEW n \in L!Rows, NEW to \in {"ACKNOWLEDGED", "CLOSED"}, L!Decide(n, to)
      PROVE  AlertsInv'
  BY <1>5 DEF L!Decide, L!Raised
<1> QED BY <1>1, <1>2, <1>3, <1>4, <1>5 DEF L!Next

LEMMA AlertsHolds == AlertsInv => L!TypeOK /\ L!OneUnresolved
<1> SUFFICES ASSUME AlertsInv, tidy PROVE L!Cardinality(L!Unresolved) <= 1
  BY DEF AlertsInv, L!OneUnresolved
<1>1. Cardinality(L!Unresolved) <= 1
  BY AtMostOne DEF AlertsInv
<1>2. L!Cardinality(L!Unresolved) = Cardinality(L!Unresolved)
  BY DEF L!Cardinality, Cardinality
<1> QED BY <1>1, <1>2

-----------------------------------------------------------------------------
(***************************************************************************)
(* Candles: as long as prices bear the time of the clock, every chart      *)
(* there is, also one that a load has read, is in the order of time and    *)
(* ends by now; as long as no price came while candles were loaded, the    *)
(* chart in memory is the one in Redis once it is loaded, and prices go on *)
(* with its last candle.                                                   *)
(***************************************************************************)
LEMMA CandlesConstants ==
  /\ MaxCandles \in Nat \ {0}
  /\ Buckets \in Nat \ {0}
  /\ MaxStarts \in Nat \ {0}
  /\ Prices \subseteq Nat
  BY ServicesAssumption

Charts == {c \in Seq(G!Candle) : Len(c) <= MaxCandles}
InTime(c, n) == G!Ordered(c) /\ \A i \in DOMAIN c : c[i].at <= n

CandlesInv ==
  /\ now \in 1 .. Buckets
  /\ current = G!NoCandle \/ current \in G!Candle
  /\ history \in Charts /\ cache \in Charts
  /\ load \in [G!Loads -> [pc : {"off", "due", "done"}] \cup [pc : {"read"}, candles : Charts]]
  /\ punctual \in BOOLEAN /\ raced \in BOOLEAN /\ starts \in 1 .. MaxStarts
  /\ load["start"].pc # "off"
  /\ punctual =>
       /\ InTime(history, now) /\ InTime(cache, now)
       /\ \A l \in G!Loads : load[l].pc = "read" => InTime(load[l].candles, now)
  /\ punctual /\ ~raced =>
       /\ \A l \in G!Loads : load[l].pc = "read" => load[l].candles = cache
       /\ load["start"].pc # "done" => current = G!NoCandle
       /\ load["start"].pc = "done" =>
            /\ history = cache
            /\ history # <<>> /\ history[Len(history)].at = now =>
                 current = history[Len(history)]

LEMMA CandleOf ==
  ASSUME NEW h \in Seq(G!Candle), NEW i \in 1 .. Len(h)
  PROVE  /\ h[i] \in G!Candle
         /\ h[i].at \in Nat \ {0} /\ h[i].open \in Prices /\ h[i].high \in Prices /\ h[i].high \in Nat
<1>1. h[i] \in G!Candle
  OBVIOUS
<1> DEFINE c == h[i]
<1> HIDE DEF c
<1>2. c.at \in 1 .. Buckets /\ c.open \in Prices /\ c.high \in Prices
  BY <1>1 DEF c, G!Candle
<1>3. c.at \in Nat \ {0}
  BY <1>2, CandlesConstants
<1>4. c.high \in Nat
  BY <1>2, CandlesConstants
<1> QED BY <1>1, <1>2, <1>3, <1>4 DEF c

LEMMA InTimeLater ==
  ASSUME NEW h \in Charts, NEW m \in Nat, NEW n \in Nat, m <= n, InTime(h, m)
  PROVE  InTime(h, n)
<1>1. h \in Seq(G!Candle)
  BY DEF Charts
<1>2. \A i \in DOMAIN h : h[i].at \in Nat
  BY <1>1, CandleOf
<1> QED BY <1>2 DEF InTime

LEMMA EmptyInTime == <<>> \in Charts /\ \A n \in Nat : InTime(<<>>, n)
  BY CandlesConstants DEF Charts, InTime, G!Ordered

\* The largest of two numbers
LEMMA LargerOfTwo ==
  ASSUME NEW a \in Int, NEW b \in Int
  PROVE  G!Larger(a, b) = IF a >= b THEN a ELSE b
  BY DEF G!Larger

\* The candle is the last one, and what precedes it stays.
LEMMA PutKeeps ==
  ASSUME NEW h \in Seq(G!Candle), NEW c \in G!Candle
  PROVE  LET p == G!Put(h, c)
         IN  /\ p \in Seq(G!Candle)
             /\ Len(p) = IF h # <<>> /\ h[Len(h)].at = c.at THEN Len(h) ELSE Len(h) + 1
             /\ Len(p) > 0 /\ p[Len(p)] = c
             /\ \A i \in 1 .. Len(p) - 1 : i \in 1 .. Len(h) /\ p[i] = h[i]
<1> DEFINE p == G!Put(h, c)
<1> HIDE DEF p
<1>1. CASE h # <<>> /\ h[Len(h)].at = c.at
  <2>1. p = [h EXCEPT ![Len(h)] = c]
    BY <1>1 DEF p, G!Put, G!Last
  <2>2. Len(h) \in 1 .. Len(h)
    BY <1>1
  <2> QED BY <1>1, <2>1, <2>2 DEF p
<1>2. CASE ~(h # <<>> /\ h[Len(h)].at = c.at)
  <2>1. p = Append(h, c)
    BY <1>2 DEF p, G!Put, G!Last
  <2> QED BY <1>2, <2>1 DEF p
<1> QED BY <1>1, <1>2 DEF p

\* Trimming leaves the last candles.
LEMMA TrimmedKeeps ==
  ASSUME NEW p \in Seq(G!Candle), Len(p) > 0
  PROVE  LET t == G!Trimmed(p)
         IN  /\ t \in Charts /\ Len(t) > 0
             /\ \E k \in Nat : Len(t) = Len(p) - k /\ \A i \in 1 .. Len(t) : t[i] = p[i + k]
<1> USE CandlesConstants
<1> DEFINE t == G!Trimmed(p)
<1> HIDE DEF t
<1> DEFINE n == Len(p) - MaxCandles + 1
           k == IF 1 >= n THEN 0 ELSE n - 1
<1>1. k \in Nat /\ k + 1 <= Len(p) /\ Len(p) - k <= MaxCandles /\ n \in Int
  OBVIOUS
<1>2. G!Larger(1, n) = k + 1
  BY <1>1, LargerOfTwo
<1>3. t = SubSeq(p, k + 1, Len(p))
  BY <1>2 DEF t, G!Trimmed
<1> HIDE DEF k, n
<1>4. t \in Seq(G!Candle) /\ Len(t) = Len(p) - k /\ \A i \in 1 .. Len(p) - k : t[i] = p[i + k]
  BY <1>1, <1>3
<1>5. Len(t) > 0 /\ Len(t) <= MaxCandles
  BY <1>1, <1>4
<1>6. t \in Charts
  BY <1>4, <1>5 DEF Charts
<1>7. Len(t) = Len(p) - k /\ \A i \in 1 .. Len(t) : t[i] = p[i + k]
  BY <1>4
<1> QED BY <1>1, <1>5, <1>6, <1>7 DEF t

\* A chart after a price of this bucket: it is still in the order of time.
LEMMA PricedInTime ==
  ASSUME NEW h \in Charts, InTime(h, now), now \in Nat, NEW c \in G!Candle, c.at = now
  PROVE  InTime(G!Trimmed(G!Put(h, c)), now)
<1>0. h \in Seq(G!Candle)
  BY DEF Charts
<1> DEFINE p == G!Put(h, c)
<1>1. /\ p \in Seq(G!Candle) /\ Len(p) > 0 /\ p[Len(p)] = c
      /\ Len(p) = IF h # <<>> /\ h[Len(h)].at = c.at THEN Len(h) ELSE Len(h) + 1
      /\ \A i \in 1 .. Len(p) - 1 : i \in 1 .. Len(h) /\ p[i] = h[i]
  BY ZenonT(30), <1>0, PutKeeps
<1> HIDE DEF p
<1> DEFINE t == G!Trimmed(p)
<1> HIDE DEF t
<1>2. PICK k \in Nat : Len(t) = Len(p) - k /\ \A i \in 1 .. Len(t) : t[i] = p[i + k]
  BY <1>1, TrimmedKeeps DEF t
<1>3. t \in Seq(G!Candle)
  BY <1>1, TrimmedKeeps DEF t, Charts
<1>4. h \in Seq(G!Candle) /\ \A i \in 1 .. Len(h) : h[i].at \in Nat /\ h[i].at <= now
  BY <1>0, CandleOf DEF InTime
<1>5. \A i, j \in 1 .. Len(h) : i < j => h[i].at < h[j].at
  BY <1>4 DEF InTime, G!Ordered
<1>6. \A i, j \in 1 .. Len(p) : i < j => p[i].at < p[j].at
  <2> SUFFICES ASSUME NEW i \in 1 .. Len(p), NEW j \in 1 .. Len(p), i < j
               PROVE  p[i].at < p[j].at
    OBVIOUS
  <2>1. i \in 1 .. Len(p) - 1 /\ i \in 1 .. Len(h) /\ p[i] = h[i]
    BY <1>1
  <2>2. CASE j = Len(p)
    <3>1. CASE h # <<>> /\ h[Len(h)].at = c.at
      <4>1. i < Len(h) /\ Len(h) \in 1 .. Len(h)
        BY <1>1, <1>4, <2>1, <2>2, <3>1
      <4> QED BY <1>1, <1>5, <2>1, <2>2, <3>1, <4>1
    <3>2. CASE ~(h # <<>> /\ h[Len(h)].at = c.at)
      <4>1. Len(h) \in 1 .. Len(h) /\ h[Len(h)].at < now
        BY <1>4, <2>1, <3>2
      <4>2. h[i].at <= h[Len(h)].at
        BY <1>4, <1>5, <2>1, <4>1
      <4> QED BY <1>1, <1>4, <2>1, <2>2, <4>1, <4>2
    <3> QED BY <3>1, <3>2
  <2>3. CASE j # Len(p)
    <3>1. j \in 1 .. Len(h) /\ p[j] = h[j]
      BY <1>1, <2>3
    <3> QED BY <1>5, <2>1, <3>1
  <2> QED BY <2>2, <2>3
<1>7. \A i \in 1 .. Len(p) : p[i].at <= now
  BY <1>1, <1>4
<1>8. \A i \in 1 .. Len(t) : i + k \in 1 .. Len(p)
  BY <1>1, <1>2, <1>3
<1>9. InTime(t, now)
  <2>1. DOMAIN t = 1 .. Len(t)
    BY <1>3
  <2>2. \A i \in DOMAIN t : t[i].at <= now
    BY <1>2, <1>7, <1>8, <2>1
  <2>3. ASSUME NEW i \in DOMAIN t, NEW j \in DOMAIN t, i < j PROVE t[i].at < t[j].at
    <3>1. i + k < j + k /\ i + k \in 1 .. Len(p) /\ j + k \in 1 .. Len(p)
      BY <1>8, <2>1, <2>3
    <3> QED BY <1>2, <1>6, <2>1, <3>1
  <2> QED BY <2>2, <2>3 DEF InTime, G!Ordered
<1> QED BY <1>9 DEF t, p

LEMMA CandlesInit == G!Init => CandlesInv
<1> SUFFICES ASSUME G!Init PROVE CandlesInv
  OBVIOUS
<1> USE CandlesConstants, EmptyInTime DEF G!Init, G!Loads, G!NoCandle
<1>1. \A l \in G!Loads : load[l] = [pc |-> IF l = "start" THEN "due" ELSE "off"]
  OBVIOUS
<1>2. load \in [G!Loads -> [pc : {"off", "due", "done"}] \cup [pc : {"read"}, candles : Charts]]
  BY <1>1
<1>3. now \in 1 .. Buckets /\ starts \in 1 .. MaxStarts
  OBVIOUS
<1> QED BY <1>1, <1>2, <1>3 DEF CandlesInv


\* What a price does to the candle and the chart
LEMMA PriceKeeps ==
  ASSUME CandlesInv, NEW p \in Prices, NEW b \in 1 .. Buckets, G!Price(p, b)
  PROVE  /\ current' \in G!Candle /\ current'.at = b
         /\ history' \in Charts /\ cache' = history' /\ Len(history') > 0
         /\ history'[Len(history')] = current'
         /\ punctual => InTime(history', now)
<1> USE CandlesConstants DEF CandlesInv
<1>1. /\ b <= now /\ (punctual => b = now)
      /\ current' = G!WithPrice(p, b)
      /\ history' = G!Trimmed(G!Put(history, current')) /\ cache' = history'
  BY DEF G!Price
<1>2. current' \in G!Candle /\ current'.at = b
  <2>1. CASE current.at = b
    <3>1. current \in G!Candle /\ current' = [current EXCEPT !.high = G!Larger(current.high, p)]
      BY <1>1, <2>1 DEF G!WithPrice, G!NoCandle
    <3>2. G!Larger(current.high, p) \in Prices
      <4>1. current.high \in Prices /\ current.high \in Int /\ p \in Int
        BY <3>1 DEF G!Candle
      <4> QED BY <4>1, LargerOfTwo
    <3> QED BY <2>1, <3>1, <3>2 DEF G!Candle
  <2>2. CASE current.at # b
    BY <1>1, <2>2 DEF G!WithPrice, G!Candle
  <2> QED BY <2>1, <2>2
<1> DEFINE q == G!Put(history, current')
<1>3. q \in Seq(G!Candle) /\ Len(q) > 0 /\ q[Len(q)] = current'
  BY <1>2, PutKeeps DEF Charts
<1>4. history' = G!Trimmed(q)
  BY <1>1
<1> HIDE DEF q
<1>5. history' \in Charts /\ Len(history') > 0
  BY <1>3, <1>4, TrimmedKeeps
<1>6. PICK k \in Nat : /\ Len(history') = Len(q) - k
                       /\ \A i \in 1 .. Len(history') : history'[i] = q[i + k]
  BY <1>3, <1>4, TrimmedKeeps
<1>7. history'[Len(history')] = current'
  BY SMTT(30), <1>3, <1>5, <1>6 DEF Charts
<1>8. ASSUME punctual PROVE InTime(history', now)
  BY <1>1, <1>2, <1>8, PricedInTime
<1> QED BY <1>1, <1>2, <1>5, <1>7, <1>8

LEMMA CandlesNext == CandlesInv /\ [G!Next]_(G!vars) => CandlesInv'
<1> SUFFICES ASSUME CandlesInv, [G!Next]_(G!vars) PROVE CandlesInv'
  OBVIOUS
<1> USE CandlesConstants DEF CandlesInv, G!Loads
<1>1. CASE UNCHANGED G!vars
  BY <1>1 DEF G!vars
<1>2. CASE G!ClockTicks
  <2>1. now \in Nat /\ now' \in Nat /\ now <= now' /\ now' \in 1 .. Buckets
    BY <1>2 DEF G!ClockTicks
  <2>2. UNCHANGED <<current, history, cache, load, punctual, raced, starts>>
    BY <1>2 DEF G!ClockTicks
  <2>3. punctual => InTime(history, now') /\ InTime(cache, now')
    BY <2>1, InTimeLater
  <2>4. ASSUME punctual, NEW l \in G!Loads, load[l].pc = "read"
        PROVE  InTime(load[l].candles, now')
    <3>1. load[l].candles \in Charts /\ InTime(load[l].candles, now)
      BY <2>4
    <3> QED BY <2>1, <3>1, InTimeLater
  <2>5. punctual /\ history # <<>> => history[Len(history)].at # now'
    <3> SUFFICES ASSUME punctual, history # <<>> PROVE history[Len(history)].at # now'
      OBVIOUS
    <3>1. history \in Seq(G!Candle) /\ Len(history) \in 1 .. Len(history)
      BY DEF Charts
    <3>2. history[Len(history)].at <= now /\ history[Len(history)].at \in Nat
      BY <3>1, CandleOf DEF InTime
    <3> QED BY <1>2, <2>1, <3>2 DEF G!ClockTicks
  <2> QED BY <2>1, <2>2, <2>3, <2>4, <2>5
<1>3. CASE G!Request
  BY <1>3 DEF G!Request
<1>4. CASE G!Restart
  <2>1. \A l \in G!Loads : load'[l] = [pc |-> IF l = "start" THEN "due" ELSE "off"]
    BY <1>4 DEF G!Restart
  <2>2. load' \in [G!Loads -> [pc : {"off", "due", "done"}] \cup [pc : {"read"}, candles : Charts]]
    BY <1>4 DEF G!Restart
  <2>3. /\ starts' \in 1 .. MaxStarts /\ current' = G!NoCandle /\ history' = <<>>
        /\ raced' = FALSE /\ UNCHANGED <<now, cache, punctual>>
    BY <1>4 DEF G!Restart
  <2>4. load'["start"].pc = "due" /\ \A l \in G!Loads : load'[l].pc # "read"
    BY <2>1
  <2>5. <<>> \in Charts /\ InTime(<<>>, now)
    BY EmptyInTime
  <2>6. punctual => InTime(history', now') /\ InTime(cache', now')
    BY <2>3, <2>5
  <2> QED BY <2>2, <2>3, <2>4, <2>5, <2>6
<1>5. ASSUME NEW l \in G!Loads, G!Read(l)
      PROVE  CandlesInv'
  BY <1>5 DEF G!Read
<1>6. ASSUME NEW l \in G!Loads, G!Loaded(l)
      PROVE  CandlesInv'
  <2>1. /\ load[l].pc = "read" /\ load[l].candles \in Charts
        /\ history' = load[l].candles
        /\ load' = [load EXCEPT ![l] = [pc |-> "done"]]
        /\ UNCHANGED <<now, cache, punctual, raced, starts>>
    BY <1>6 DEF G!Loaded
  <2>2. current' = IF l = "start" /\ history' # <<>> /\ history'[Len(history')].at = now
                   THEN history'[Len(history')] ELSE current
    BY <1>6 DEF G!Loaded, G!Resume, G!Last
  <2>3. current' = G!NoCandle \/ current' \in G!Candle
    <3>1. history' # <<>> => history'[Len(history')] \in G!Candle
      <4>1. history' \in Seq(G!Candle)
        BY <2>1 DEF Charts
      <4>2. history' # <<>> => Len(history') \in 1 .. Len(history')
        BY <4>1
      <4> QED BY <4>1, <4>2, CandleOf
    <3> QED BY <2>2, <3>1
  <2>4. /\ load' \in [G!Loads -> [pc : {"off", "due", "done"}] \cup [pc : {"read"}, candles : Charts]]
        /\ load'["start"].pc # "off"
        /\ \A i \in G!Loads : load'[i].pc = "read" => i # l /\ load'[i] = load[i]
    BY <2>1
  <2>5. load'["start"].pc = "done" <=> (l = "start" \/ load["start"].pc = "done")
    BY <2>1
  <2>6. punctual /\ ~raced => history' = cache
    BY <2>1
  <2>7. punctual /\ ~raced /\ l # "start" /\ load["start"].pc = "done" => history' = history
    BY <2>6
  <2>8. punctual => InTime(history', now)
    BY <2>1
  <2> QED BY <2>1, <2>2, <2>3, <2>4, <2>5, <2>6, <2>7, <2>8
<1>7. ASSUME NEW p \in Prices, NEW b \in 1 .. Buckets, G!Price(p, b)
      PROVE  CandlesInv'
  BY <1>7, PriceKeeps DEF G!Price
<1> QED BY <1>1, <1>2, <1>3, <1>4, <1>5, <1>6, <1>7 DEF G!Next

LEMMA CandlesHolds == CandlesInv => G!TypeOK /\ G!ChartIsOrdered
  BY DEF CandlesInv, G!TypeOK, G!ChartIsOrdered, InTime, Charts

\* CandlesOnlyGrow of one step
LEMMA CandlesStay ==
  CandlesInv /\ [G!Next]_(G!vars) =>
    [punctual /\ ~raced' =>
       \A i \in DOMAIN cache, j \in DOMAIN cache' :
         cache[i].at = cache'[j].at => G!Grows(cache[i], cache'[j])]_(G!vars)
<1> SUFFICES ASSUME CandlesInv, G!Next, punctual, ~raced',
                    NEW i \in DOMAIN cache, NEW j \in DOMAIN cache',
                    cache[i].at = cache'[j].at
             PROVE  G!Grows(cache[i], cache'[j])
  OBVIOUS
<1> USE CandlesConstants DEF CandlesInv
<1>1. /\ cache \in Seq(G!Candle) /\ i \in 1 .. Len(cache)
      /\ \A m, n \in 1 .. Len(cache) : cache[m].at = cache[n].at => m = n
  <2>1. cache \in Seq(G!Candle) /\ DOMAIN cache = 1 .. Len(cache)
    BY DEF Charts
  <2>2. \A m \in 1 .. Len(cache) : cache[m].at \in Nat
    BY <2>1, CandleOf
  <2> QED BY SMTT(30), <2>1, <2>2 DEF InTime, G!Ordered
<1>2. cache[i] \in G!Candle /\ cache[i].high \in Int
  BY <1>1, CandleOf
<1>3. CASE cache' = cache
  <2>1. i = j
    BY <1>1, <1>3
  <2> QED BY <1>2, <1>3, <2>1 DEF G!Grows
<1>4. ASSUME NEW p \in Prices, NEW b \in 1 .. Buckets, G!Price(p, b)
      PROVE  G!Grows(cache[i], cache'[j])
  <2>1. /\ b = now /\ ~raced /\ history = cache
        /\ history # <<>> /\ history[Len(history)].at = now =>
             current = history[Len(history)]
    BY <1>4 DEF G!Price, G!Loads
  <2>2. current' \in G!Candle /\ current'.at = now /\ current' = G!WithPrice(p, now)
    BY <1>4, <2>1, PriceKeeps DEF G!Price
  <2> DEFINE q == G!Put(cache, current')
  <2>3. /\ q \in Seq(G!Candle) /\ Len(q) > 0 /\ q[Len(q)] = current'
        /\ Len(q) = IF cache # <<>> /\ cache[Len(cache)].at = now THEN Len(cache)
                    ELSE Len(cache) + 1
        /\ \A m \in 1 .. Len(q) - 1 : m \in 1 .. Len(cache) /\ q[m] = cache[m]
    BY <1>1, <2>2, PutKeeps
  <2>4. cache' = G!Trimmed(q)
    BY <1>4, <2>1 DEF G!Price
  <2> HIDE DEF q
  <2>5. PICK k \in Nat : Len(cache') = Len(q) - k /\ \A m \in 1 .. Len(cache') : cache'[m] = q[m + k]
    <3>1. \E k \in Nat : /\ Len(G!Trimmed(q)) = Len(q) - k
                         /\ \A m \in 1 .. Len(G!Trimmed(q)) : G!Trimmed(q)[m] = q[m + k]
      BY <2>3, TrimmedKeeps
    <3> QED BY <2>4, <3>1
  <2>6. j \in 1 .. Len(cache') /\ j + k \in 1 .. Len(q) /\ cache'[j] = q[j + k]
    <3>1. cache' \in Seq(G!Candle)
      BY <2>3, <2>4, TrimmedKeeps DEF Charts
    <3> QED BY SMTT(30), <2>3, <2>5, <3>1
  <2>7. CASE j + k # Len(q)
    <3>1. cache'[j] = cache[j + k] /\ j + k \in 1 .. Len(cache)
      <4>1. j + k \in 1 .. Len(q) - 1
        BY <2>3, <2>6, <2>7
      <4> QED BY <2>3, <2>6, <4>1
    <3>2. j + k = i
      BY <1>1, <3>1
    <3> QED BY <1>2, <3>1, <3>2 DEF G!Grows
  <2>8. CASE j + k = Len(q)
    <3>1. cache'[j] = current' /\ cache[i].at = now
      BY <2>2, <2>3, <2>6, <2>8
    <3>2. Len(cache) \in 1 .. Len(cache) /\ cache[Len(cache)].at <= now
      BY <1>1 DEF InTime
    <3>3. i = Len(cache)
      <4>1. i < Len(cache) => cache[i].at < cache[Len(cache)].at
        BY <1>1, <3>2 DEF InTime, G!Ordered
      <4>2. cache[Len(cache)].at \in Nat /\ now \in Nat
        BY <1>1, <3>2, CandleOf
      <4> QED BY <1>1, <3>1, <3>2, <4>1, <4>2
    <3>4. current = cache[i]
      BY <2>1, <3>1, <3>2, <3>3
    <3>5. current' = [current EXCEPT !.high = G!Larger(current.high, p)]
      BY <2>2, <3>1, <3>4 DEF G!WithPrice
    <3>6. G!Larger(current.high, p) >= current.high
      <4>1. p \in Int /\ current.high \in Int
        BY <1>2, <3>4, CandlesConstants
      <4> QED BY <4>1, LargerOfTwo
    <3> QED BY <1>2, <3>1, <3>4, <3>5, <3>6 DEF G!Grows, G!Candle
  <2> QED BY <2>7, <2>8
<1> QED BY <1>3, <1>4
        DEF G!Next, G!ClockTicks, G!Request, G!Restart, G!Read, G!Loaded

-----------------------------------------------------------------------------
(***************************************************************************)
(* Fetcher: the counter is how many fetches run or pause, and a queue that *)
(* was looked at is empty or found no room.                                *)
(***************************************************************************)
LEMMA FetcherConstants ==
  /\ Retries \in Nat
  /\ MaxConcurrent \in Nat \ {0}
  /\ IsFiniteSet(Fetches)
  BY ServicesAssumption

BusyIn(f) == {x \in Fetches : f[x].pc \in {"running", "pausing"}}
QueuedIn(f) == {x \in Fetches : f[x].pc = "queued"}
FetchStates == [Fetches -> [pc : {"settled", "queued", "waiting", "running", "pausing"},
                            tries : 0 .. Retries]]
IsQueueOf(q, f) ==
  /\ q \in Seq(Fetches)
  /\ \A x \in Fetches : f[x].pc = "queued" <=> \E i \in 1 .. Len(q) : q[i] = x
  /\ \A i, j \in 1 .. Len(q) : q[i] = q[j] => i = j

FetcherInv ==
  /\ IsQueueOf(queue, fetch)
  /\ slot \in BOOLEAN /\ fetch \in FetchStates
  /\ running = Cardinality(BusyIn(fetch))
  /\ queue # <<>> => running >= MaxConcurrent

LEMMA BusyIsFinite ==
  ASSUME NEW f PROVE IsFiniteSet(BusyIn(f)) /\ Cardinality(BusyIn(f)) \in 0 .. Cardinality(Fetches)
<1>1. BusyIn(f) \subseteq Fetches /\ IsFiniteSet(Fetches)
  BY FetcherConstants DEF BusyIn
<1>2. IsFiniteSet(BusyIn(f)) /\ Cardinality(BusyIn(f)) <= Cardinality(Fetches)
  BY <1>1, FS_Subset
<1>3. Cardinality(BusyIn(f)) \in Nat /\ Cardinality(Fetches) \in Nat
  BY <1>1, <1>2, FS_CardinalityType
<1> QED BY <1>2, <1>3

\* A fetch that begins to run
LEMMA BusyGrows ==
  ASSUME NEW f, NEW g, NEW x \in Fetches, x \notin BusyIn(f), BusyIn(g) = BusyIn(f) \cup {x}
  PROVE  Cardinality(BusyIn(g)) = Cardinality(BusyIn(f)) + 1
  BY BusyIsFinite, FS_AddElement

LEMMA FetcherInit == F!Init => FetcherInv
<1> SUFFICES ASSUME F!Init PROVE FetcherInv
  OBVIOUS
<1> USE FetcherConstants DEF F!Init, F!To
<1>1. BusyIn(fetch) = {} /\ fetch \in FetchStates
  BY DEF BusyIn, FetchStates
<1>2. IsQueueOf(queue, fetch)
  BY DEF IsQueueOf
<1> QED BY <1>1, <1>2, FS_EmptySet DEF FetcherInv

\* drainQueue keeps the count, whatever it is given that agrees with the queue.
LEMMA DrainKeeps ==
  ASSUME NEW q, NEW n, NEW states \in FetchStates, slot \in BOOLEAN,
         IsQueueOf(q, states), n = Cardinality(BusyIn(states)), F!Drain(q, n, states)
  PROVE  FetcherInv'
<1> USE FetcherConstants
<1> DEFINE one == slot /\ n < MaxConcurrent /\ q # <<>>
           busy == IF one THEN n + 1 ELSE n
           rest == IF one THEN Tail(q) ELSE q
           leave == busy < MaxConcurrent
<1>1. /\ queue' = IF leave THEN <<>> ELSE rest
      /\ running' = busy
      /\ slot' = (slot /\ ~one)
      /\ fetch' = [f \in Fetches |->
                     IF one /\ f = Head(q) THEN F!To("running")
                     ELSE IF leave /\ f \in F!Range(rest) THEN F!To("waiting")
                     ELSE states[f]]
  BY DEF F!Drain
<1>2. n \in Nat /\ q \in Seq(Fetches)
  BY BusyIsFinite, FS_CardinalityType DEF IsQueueOf
<1>3. one => /\ Head(q) \in Fetches /\ states[Head(q)].pc = "queued" /\ Head(q) = q[1]
             /\ Len(q) > 0
  <2> SUFFICES ASSUME one PROVE /\ Head(q) \in Fetches /\ states[Head(q)].pc = "queued"
                                /\ Head(q) = q[1] /\ Len(q) > 0
    OBVIOUS
  <2>1. Len(q) > 0 /\ q[1] = Head(q) /\ Head(q) \in Fetches
    BY <1>2
  <2> QED BY <2>1 DEF IsQueueOf
<1>4. /\ rest \in Seq(Fetches)
      /\ \A i \in 1 .. Len(rest) : \E j \in 1 .. Len(q) : rest[i] = q[j] /\ (one => j = i + 1)
                                                     /\ (~one => j = i)
      /\ \A j \in 1 .. Len(q) : ~(one /\ j = 1) => \E i \in 1 .. Len(rest) : rest[i] = q[j]
  <2>1. CASE one
    <3>1. rest = Tail(q) /\ q # <<>>
      BY <2>1
    <3> HIDE DEF rest, one
    <3> QED BY <1>2, <2>1, <3>1, TailOf
  <2>2. CASE ~one
    BY <1>2, <2>2
  <2> QED BY <2>1, <2>2
<1>5. F!Range(rest) = {rest[i] : i \in 1 .. Len(rest)}
  <2>1. rest \in Seq(Fetches)
    BY <1>4
  <2> HIDE DEF rest, one
  <2> QED BY <2>1 DEF F!Range
<1>6. \A i, j \in 1 .. Len(rest) : rest[i] = rest[j] => i = j
  BY <1>4 DEF IsQueueOf
<1>7. \A x \in Fetches : x \in F!Range(rest) <=> states[x].pc = "queued" /\ ~(one /\ x = Head(q))
  <2>1. ASSUME NEW x \in Fetches, x \in F!Range(rest)
        PROVE  states[x].pc = "queued" /\ ~(one /\ x = Head(q))
    <3>1. PICK i \in 1 .. Len(rest) : rest[i] = x
      BY <1>5, <2>1
    <3>2. PICK j \in 1 .. Len(q) : x = q[j] /\ (one => j = i + 1)
      BY <1>4, <3>1
    <3>3. one => j # 1 /\ 1 \in 1 .. Len(q)
      BY <1>2, <3>1, <3>2
    <3> QED BY <1>3, <3>2, <3>3 DEF IsQueueOf
  <2>2. ASSUME NEW x \in Fetches, states[x].pc = "queued", ~(one /\ x = Head(q))
        PROVE  x \in F!Range(rest)
    <3>1. PICK j \in 1 .. Len(q) : q[j] = x
      BY <2>2 DEF IsQueueOf
    <3>2. ~(one /\ j = 1)
      BY <1>3, <2>2, <3>1
    <3> QED BY <1>4, <1>5, <3>1, <3>2
  <2> QED BY <2>1, <2>2
<1> HIDE DEF rest, one
<1>8. \A x \in Fetches :
        fetch'[x] = IF one /\ x = Head(q) THEN F!To("running")
                    ELSE IF leave /\ states[x].pc = "queued" THEN F!To("waiting") ELSE states[x]
  BY <1>1, <1>7
<1>9. fetch' \in FetchStates
  <2>1. F!To("running") \in [pc : {"settled", "queued", "waiting", "running", "pausing"},
                             tries : 0 .. Retries]
    BY DEF F!To
  <2>2. F!To("waiting") \in [pc : {"settled", "queued", "waiting", "running", "pausing"},
                             tries : 0 .. Retries]
    BY DEF F!To
  <2> QED BY <1>1, <2>1, <2>2 DEF FetchStates
<1>10. IsQueueOf(queue', fetch')
  <2>1. CASE leave
    BY <1>1, <1>8, <2>1 DEF IsQueueOf, F!To
  <2>2. CASE ~leave
    <3>1. \A x \in Fetches : fetch'[x].pc = "queued" <=> x \in F!Range(rest)
      BY <1>7, <1>8, <2>2 DEF F!To
    <3>2. queue' = rest
      BY <1>1, <2>2
    <3>3. \A x \in Fetches : fetch'[x].pc = "queued" <=> \E i \in 1 .. Len(rest) : rest[i] = x
      BY <1>5, <3>1
    <3> QED BY <1>4, <1>6, <3>2, <3>3 DEF IsQueueOf
  <2> QED BY <2>1, <2>2
<1>11. running' = Cardinality(BusyIn(fetch'))
  <2>1. CASE one
    <3>1. BusyIn(fetch') = BusyIn(states) \cup {Head(q)} /\ Head(q) \notin BusyIn(states)
      BY <1>3, <1>8, <2>1 DEF BusyIn, F!To
    <3> QED BY <1>1, <1>3, <2>1, <3>1, BusyGrows
  <2>2. CASE ~one
    <3>1. BusyIn(fetch') = BusyIn(states)
      BY <1>8, <2>2 DEF BusyIn, F!To
    <3> QED BY <1>1, <2>2, <3>1
  <2> QED BY <2>1, <2>2
<1>12. queue' # <<>> => running' >= MaxConcurrent
  <2>1. busy \in Nat
    BY <1>2
  <2> QED BY <1>1, <2>1
<1>13. slot' \in BOOLEAN
  BY <1>1
<1> QED BY <1>9, <1>10, <1>11, <1>12, <1>13 DEF FetcherInv

LEMMA FetcherNext == FetcherInv /\ [F!Next]_(F!vars) => FetcherInv'
<1> SUFFICES ASSUME FetcherInv, [F!Next]_(F!vars) PROVE FetcherInv'
  OBVIOUS
<1> USE FetcherConstants DEF F!At
<1>1. CASE UNCHANGED F!vars
  BY <1>1 DEF F!vars, FetcherInv
<1>2. CASE F!SlotOpens
  BY <1>2 DEF F!SlotOpens, FetcherInv
<1>3. ASSUME NEW f \in Fetches, F!Ask(f)
      PROVE  FetcherInv'
  <2> DEFINE states == [fetch EXCEPT ![f] = F!To("queued")]
             q == Append(queue, f)
  <2>1. states \in FetchStates /\ fetch[f].pc = "settled"
    BY <1>3 DEF F!Ask, F!To, FetcherInv, FetchStates
  <2>2. BusyIn(states) = BusyIn(fetch)
    BY <2>1 DEF BusyIn, FetcherInv, FetchStates, F!To
  <2>3. IsQueueOf(q, states)
    <3>1. queue \in Seq(Fetches) /\ \A i \in 1 .. Len(queue) : queue[i] # f
      BY <2>1 DEF FetcherInv, IsQueueOf
    <3>2. /\ q \in Seq(Fetches) /\ Len(q) = Len(queue) + 1 /\ q[Len(queue) + 1] = f
          /\ \A i \in 1 .. Len(queue) : q[i] = queue[i]
      BY <3>1
    <3>3. \A x \in Fetches : states[x].pc = "queued" <=> fetch[x].pc = "queued" \/ x = f
      BY DEF FetcherInv, FetchStates, F!To
    <3>4. \A i \in 1 .. Len(q) : i \in 1 .. Len(queue) \/ i = Len(queue) + 1
      BY <3>1, <3>2
    <3> HIDE DEF q, states
    <3>5. \A i, j \in 1 .. Len(q) : q[i] = q[j] => i = j
      BY <3>1, <3>2, <3>4 DEF FetcherInv, IsQueueOf
    <3>6. ASSUME NEW x \in Fetches
          PROVE  states[x].pc = "queued" <=> \E i \in 1 .. Len(q) : q[i] = x
      <4>1. fetch[x].pc = "queued" <=> \E i \in 1 .. Len(queue) : queue[i] = x
        BY DEF FetcherInv, IsQueueOf
      <4>2. \A i \in 1 .. Len(queue) : i \in 1 .. Len(q)
        BY <3>1, <3>2
      <4>3. Len(queue) + 1 \in 1 .. Len(q)
        BY <3>1, <3>2
      <4> QED BY <3>2, <3>3, <3>4, <4>1, <4>2, <4>3
    <3> QED BY <3>2, <3>5, <3>6 DEF IsQueueOf
  <2>4. F!Drain(q, running, states)
    BY <1>3 DEF F!Ask
  <2> HIDE DEF q, states
  <2> QED BY <2>1, <2>2, <2>3, <2>4, DrainKeeps DEF FetcherInv
<1>4. ASSUME NEW f \in Fetches, F!Run(f)
      PROVE  FetcherInv'
  <2>1. /\ fetch[f].pc = "waiting" /\ fetch' = [fetch EXCEPT ![f] = F!To("running")]
        /\ running' = running + 1 /\ UNCHANGED <<queue, slot>>
    BY <1>4 DEF F!Run
  <2>2. fetch' \in FetchStates
    BY <2>1 DEF FetcherInv, FetchStates, F!To
  <2>3. BusyIn(fetch') = BusyIn(fetch) \cup {f} /\ f \notin BusyIn(fetch)
    BY <2>1 DEF BusyIn, FetcherInv, FetchStates, F!To
  <2>4. IsQueueOf(queue', fetch')
    BY <2>1 DEF IsQueueOf, FetcherInv, FetchStates, F!To
  <2>5. running' = Cardinality(BusyIn(fetch')) /\ running' >= running
    <3>1. Cardinality(BusyIn(fetch')) = Cardinality(BusyIn(fetch)) + 1
      BY <2>3, BusyGrows
    <3>2. Cardinality(BusyIn(fetch)) \in Nat
      BY BusyIsFinite
    <3> QED BY <2>1, <3>1, <3>2 DEF FetcherInv
  <2>6. running \in Nat /\ running' \in Nat
    BY <2>1, BusyIsFinite, FS_CardinalityType DEF FetcherInv
  <2> QED BY <2>1, <2>2, <2>4, <2>5, <2>6 DEF FetcherInv
<1>5. ASSUME NEW f \in Fetches, F!Settle(f)
      PROVE  FetcherInv'
  <2> DEFINE states == [fetch EXCEPT ![f] = F!To("settled")]
  <2>1. states \in FetchStates /\ fetch[f].pc = "running"
    BY <1>5 DEF F!Settle, F!To, FetcherInv, FetchStates
  <2>2. BusyIn(fetch) = BusyIn(states) \cup {f} /\ f \notin BusyIn(states)
    BY <2>1 DEF BusyIn, FetcherInv, FetchStates, F!To
  <2>3. IsQueueOf(queue, states)
    BY <2>1 DEF IsQueueOf, FetcherInv, FetchStates, F!To
  <2>4. F!Drain(queue, running - 1, states)
    BY <1>5 DEF F!Settle
  <2> HIDE DEF states
  <2>5. running - 1 = Cardinality(BusyIn(states))
    <3>1. Cardinality(BusyIn(fetch)) = Cardinality(BusyIn(states)) + 1
      BY <2>2, BusyGrows
    <3>2. Cardinality(BusyIn(states)) \in Nat
      BY BusyIsFinite
    <3> QED BY <3>1, <3>2 DEF FetcherInv
  <2> QED BY <2>1, <2>3, <2>4, <2>5, DrainKeeps DEF FetcherInv
<1>6. ASSUME NEW f \in Fetches, F!Pause(f) \/ F!Retry(f)
      PROVE  FetcherInv'
  <2>1. /\ UNCHANGED <<queue, slot, running>>
        /\ fetch[f].pc \in {"running", "pausing"}
    BY <1>6 DEF F!Pause, F!Retry
  <2>2. fetch' \in FetchStates /\ fetch'[f].pc \in {"running", "pausing"}
    <3>1. CASE F!Pause(f)
      BY <3>1 DEF F!Pause, FetcherInv, FetchStates
    <3>2. CASE F!Retry(f)
      BY <3>2 DEF F!Retry, FetcherInv, FetchStates
    <3> QED BY <1>6, <3>1, <3>2
  <2>3. \A x \in Fetches : x # f => fetch'[x] = fetch[x]
    BY <1>6 DEF F!Pause, F!Retry, FetcherInv, FetchStates
  <2>4. BusyIn(fetch') = BusyIn(fetch)
    BY <2>1, <2>2, <2>3 DEF BusyIn
  <2>5. IsQueueOf(queue', fetch')
    BY <2>1, <2>2, <2>3 DEF IsQueueOf, FetcherInv
  <2> QED BY <2>1, <2>2, <2>4, <2>5 DEF FetcherInv
<1> QED BY <1>1, <1>2, <1>3, <1>4, <1>5, <1>6 DEF F!Next

LEMMA FetcherHolds == FetcherInv => F!TypeOK /\ F!QueueWaitsForRoom
<1> SUFFICES ASSUME FetcherInv PROVE F!TypeOK /\ F!QueueWaitsForRoom
  OBVIOUS
<1>1. \A x : F!Cardinality(x) = Cardinality(x)
  BY DEF F!Cardinality, Cardinality
<1>2. queue \in Seq(Fetches) /\ F!Range(queue) = {f \in Fetches : F!At(f) = "queued"}
  <2>1. queue \in Seq(Fetches) /\ F!Range(queue) = {queue[i] : i \in 1 .. Len(queue)}
    BY DEF FetcherInv, IsQueueOf, F!Range
  <2> QED BY <2>1 DEF FetcherInv, IsQueueOf, F!At
<1>3. F!IsInjective(queue)
  BY <1>2 DEF FetcherInv, IsQueueOf, F!IsInjective
<1>4. BusyIn(fetch) = {f \in Fetches : F!At(f) \in {"running", "pausing"}}
  BY DEF BusyIn, F!At
<1>5. running \in 0 .. F!Cardinality(Fetches)
  BY <1>1, BusyIsFinite DEF FetcherInv
<1> QED BY <1>1, <1>2, <1>3, <1>4, <1>5 DEF FetcherInv, F!TypeOK, F!QueueWaitsForRoom, FetchStates

-----------------------------------------------------------------------------
(***************************************************************************)
(* Broker settings: when changes wait for the start and for one another,   *)
(* the map differs from the rows only in keys that a change has written    *)
(* and not yet noted.                                                      *)
(***************************************************************************)
LEMMA SettingsConstants ==
  /\ MaxCrashes \in Nat
  /\ MaxLosses \in Nat
  BY ServicesAssumption

OrderedInv ==
  ordered /\ settingsLost = 0 =>
    /\ boot.pc # "failed"
    /\ boot.pc # "over" => \A x \in Chiefs : change[x] = E!B!Quiet
    /\ boot.pc = "persist" => \A k \in Keys \ boot.left : stored[k] # "absent"
    /\ boot.pc = "queried" => snapshot = stored /\ \A k \in Keys : stored[k] # "absent"
    /\ \A x, y \in E!B!Changing : x = y
    /\ \A x \in E!B!Changing : \A k \in change[x].note : stored[k] = change[x].to
    /\ boot.pc = "over" =>
         \A k \in Keys : inForce[k] = stored[k] \/ \E x \in E!B!Changing : k \in change[x].note

SettingsInv ==
  /\ stored \in [Keys -> E!B!Choices \cup {"absent"}] /\ inForce \in [Keys -> E!B!Choices]
  /\ snapshot \in [Keys -> E!B!Choices \cup {"absent"}]
  /\ boot \in [pc : {"persist", "queried", "over", "failed"}, left : SUBSET Keys]
  /\ change \in [Chiefs -> {E!B!Quiet} \cup [pc : {"set"}, to : E!B!Choices,
                                          write : SUBSET Keys, note : SUBSET Keys]]
  /\ \A x \in E!B!Changing : change[x].write \cap change[x].note = {}
  /\ settingsLost \in 0 .. MaxLosses /\ crashes \in 0 .. MaxCrashes /\ ordered \in BOOLEAN
  /\ OrderedInv

LEMMA SettingsInit == E!B!Init => SettingsInv
<1> SUFFICES ASSUME E!B!Init PROVE SettingsInv
  OBVIOUS
<1>1. /\ stored \in [Keys -> E!B!Choices \cup {"absent"}] /\ inForce \in [Keys -> E!B!Choices]
      /\ snapshot \in [Keys -> E!B!Choices \cup {"absent"}]
      /\ boot \in [pc : {"persist", "queried", "over", "failed"}, left : SUBSET Keys]
  BY DEF E!B!Init, E!B!Choices
<1>2. settingsLost \in 0 .. MaxLosses /\ crashes \in 0 .. MaxCrashes /\ ordered \in BOOLEAN
  BY SettingsConstants DEF E!B!Init
<1>3. /\ change = [x \in Chiefs |-> E!B!Quiet] /\ E!B!Changing = {}
      /\ boot.pc = "persist" /\ boot.left = Keys
  BY DEF E!B!Init, E!B!Changing
<1>4. OrderedInv
  BY <1>3 DEF OrderedInv
<1> QED BY <1>1, <1>2, <1>3, <1>4 DEF SettingsInv

LEMMA SettingsNext == SettingsInv /\ [E!B!Next]_(E!B!vars) => SettingsInv'
<1> SUFFICES ASSUME SettingsInv, [E!B!Next]_(E!B!vars) PROVE SettingsInv'
  OBVIOUS
<1> USE DEF SettingsInv
<1>0. /\ E!B!Changing = {x \in Chiefs : change[x] # E!B!Quiet}
      /\ E!B!Changing' = {x \in Chiefs : change'[x] # E!B!Quiet}
  BY DEF E!B!Changing
<1>1. CASE UNCHANGED E!B!vars
  BY <1>0, <1>1 DEF E!B!vars, OrderedInv
<1>2. ASSUME NEW k \in Keys, E!B!Persist(k) PROVE SettingsInv'
  <2>1. /\ boot.pc = "persist" /\ boot' = [boot EXCEPT !.left = @ \ {k}]
        /\ boot'.pc = "persist" /\ boot'.left = boot.left \ {k}
        /\ stored' = IF stored[k] = "absent" THEN [stored EXCEPT ![k] = "default"] ELSE stored
        /\ UNCHANGED <<inForce, snapshot, change, ordered, settingsLost, crashes>>
    BY <1>2 DEF E!B!Persist
  <2>2. stored' \in [Keys -> E!B!Choices \cup {"absent"}] /\ stored'[k] # "absent"
        /\ \A j \in Keys : j # k => stored'[j] = stored[j]
    BY <2>1 DEF E!B!Choices
  <2>3. OrderedInv'
    BY <1>0, <2>1, <2>2 DEF OrderedInv
  <2> QED BY <1>0, <2>1, <2>2, <2>3
<1>3. CASE E!B!Query
  <2>1. /\ boot.pc = "persist" /\ boot.left = {} /\ snapshot' = stored
        /\ boot' = [boot EXCEPT !.pc = "queried"] /\ boot'.pc = "queried"
        /\ UNCHANGED <<stored, inForce, change, ordered, settingsLost, crashes>>
    BY <1>3 DEF E!B!Query
  <2>2. OrderedInv'
    BY <1>0, <2>1 DEF OrderedInv
  <2> QED BY <1>0, <2>1, <2>2
<1>4. CASE E!B!Load
  <2>1. /\ boot.pc = "queried" /\ boot' = [boot EXCEPT !.pc = "over"] /\ boot'.pc = "over"
        /\ inForce' = [k \in Keys |-> IF snapshot[k] = "absent" THEN inForce[k] ELSE snapshot[k]]
        /\ UNCHANGED <<stored, snapshot, change, ordered, settingsLost, crashes>>
    BY <1>4 DEF E!B!Load
  <2>2. inForce' \in [Keys -> E!B!Choices]
    BY <2>1 DEF E!B!Choices
  <2>3. OrderedInv'
    BY <1>0, <2>1 DEF OrderedInv
  <2> QED BY <1>0, <2>1, <2>2, <2>3
<1>5. CASE E!B!StartFails
  <2>1. /\ boot' = [boot EXCEPT !.pc = "failed"] /\ settingsLost < MaxLosses /\ settingsLost' = settingsLost + 1
        /\ UNCHANGED <<stored, inForce, snapshot, change, ordered, crashes>>
    BY <1>5 DEF E!B!StartFails
  <2>2. settingsLost' \in 0 .. MaxLosses /\ settingsLost' # 0
    BY <2>1, SettingsConstants
  <2>3. OrderedInv'
    BY <2>2 DEF OrderedInv
  <2> QED BY <1>0, <2>1, <2>2, <2>3
<1>6. ASSUME NEW x \in Chiefs, E!B!Request(x) PROVE SettingsInv'
  <2>1. PICK ks \in SUBSET Keys, v \in E!B!Choices :
          change' = [change EXCEPT ![x] = [pc |-> "set", to |-> v, write |-> ks, note |-> {}]]
    BY <1>6 DEF E!B!Request
  <2>2. /\ change[x] = E!B!Quiet /\ (ordered => boot.pc = "over" /\ E!B!Changing = {})
        /\ UNCHANGED <<stored, inForce, boot, snapshot, ordered, settingsLost, crashes>>
    BY <1>6 DEF E!B!Request
  <2>3. /\ change'[x] = [pc |-> "set", to |-> v, write |-> ks, note |-> {}]
        /\ \A y \in Chiefs : y # x => change'[y] = change[y]
        /\ change' \in [Chiefs -> {E!B!Quiet} \cup [pc : {"set"}, to : E!B!Choices,
                                          write : SUBSET Keys, note : SUBSET Keys]]
    BY <2>1
  <2>4. E!B!Changing' \subseteq E!B!Changing \cup {x} /\ change'[x].note = {}
    BY <1>0, <2>3
  <2>5. \A y \in E!B!Changing' : change'[y].write \cap change'[y].note = {}
    <3>1. \A y \in E!B!Changing : y # x => change'[y] = change[y]
      BY <1>0, <2>3
    <3> QED BY <2>3, <2>4, <3>1
  <2>6. OrderedInv'
    <3> SUFFICES ASSUME ordered, settingsLost = 0 PROVE OrderedInv'
      BY <2>2 DEF OrderedInv
    <3>1. boot.pc = "over" /\ E!B!Changing = {} /\ \A k \in Keys : inForce[k] = stored[k]
      BY <2>2 DEF OrderedInv
    <3> QED BY <2>2, <2>4, <3>1 DEF OrderedInv
  <2> QED BY <2>2, <2>3, <2>5, <2>6
<1>7. ASSUME NEW x \in Chiefs, NEW k \in Keys, E!B!Write(x, k) PROVE SettingsInv'
  <2>1. /\ change[x] # E!B!Quiet /\ k \in change[x].write /\ x \in E!B!Changing
        /\ UNCHANGED <<inForce, boot, snapshot, ordered, crashes>>
        /\ stored' = [stored EXCEPT ![k] = change[x].to] \/ stored' = stored
        /\ \/ change' = [change EXCEPT ![x].write = @ \ {k}, ![x].note = @ \cup {k}]
           \/ change' = [change EXCEPT ![x].write = @ \ {k}]
        /\ \/ /\ stored' = [stored EXCEPT ![k] = change[x].to] /\ settingsLost' = settingsLost
              /\ change' = [change EXCEPT ![x].write = @ \ {k}, ![x].note = @ \cup {k}]
           \/ settingsLost < MaxLosses /\ settingsLost' = settingsLost + 1
    BY <1>0, <1>7 DEF E!B!Write
  <2>2. change[x] \in [pc : {"set"}, to : E!B!Choices, write : SUBSET Keys, note : SUBSET Keys]
    BY <2>1
  <2>3. /\ change'[x] \in [pc : {"set"}, to : E!B!Choices, write : SUBSET Keys, note : SUBSET Keys]
        /\ \A y \in Chiefs : y # x => change'[y] = change[y]
        /\ change'[x].write = change[x].write \ {k} /\ change'[x].to = change[x].to
        /\ change'[x].note \in {change[x].note, change[x].note \cup {k}}
        /\ change' = [change EXCEPT ![x] = change'[x]]
    <3>1. CASE change' = [change EXCEPT ![x].write = @ \ {k}, ![x].note = @ \cup {k}]
      BY <2>2, <3>1
    <3>2. CASE change' = [change EXCEPT ![x].write = @ \ {k}]
      BY <2>2, <3>2
    <3> QED BY <2>1, <3>1, <3>2
  <2>4. change' \in [Chiefs -> {E!B!Quiet} \cup [pc : {"set"}, to : E!B!Choices,
                                          write : SUBSET Keys, note : SUBSET Keys]]
    BY <2>3
  <2>5. E!B!Changing' = E!B!Changing
    BY <1>0, <2>1, <2>2, <2>3 DEF E!B!Quiet
  <2>6. stored' \in [Keys -> E!B!Choices \cup {"absent"}]
    BY <2>1, <2>2
  <2>7. settingsLost' \in 0 .. MaxLosses /\ (settingsLost' = 0 => settingsLost = 0 /\ settingsLost' = settingsLost)
    BY <2>1, SettingsConstants
  <2>8. OrderedInv'
    <3> SUFFICES ASSUME ordered, settingsLost' = 0 PROVE OrderedInv'
      BY <2>1 DEF OrderedInv
    <3>1. /\ settingsLost = 0 /\ stored' = [stored EXCEPT ![k] = change[x].to]
          /\ change' = [change EXCEPT ![x].write = @ \ {k}, ![x].note = @ \cup {k}]
      BY <2>1, <2>7, SettingsConstants
    <3>2. boot.pc = "over" /\ E!B!Changing = {x}
      BY <2>1, <3>1 DEF OrderedInv
    <3>3. /\ change'[x].note = change[x].note \cup {k} /\ stored'[k] = change[x].to
          /\ \A j \in Keys : j # k => stored'[j] = stored[j]
      BY <2>2, <3>1
    <3>4. \A j \in Keys : inForce[j] = stored'[j] \/ j \in change'[x].note
      BY <2>3, <3>1, <3>2, <3>3 DEF OrderedInv
    <3>5. \A j \in change'[x].note : stored'[j] = change'[x].to
      BY <2>1, <2>2, <2>3, <3>1, <3>2, <3>3 DEF OrderedInv
    <3> QED BY <2>1, <2>5, <3>2, <3>4, <3>5 DEF OrderedInv
  <2>9. \A y \in E!B!Changing' : change'[y].write \cap change'[y].note = {}
    BY <1>0, <2>1, <2>3, <2>5
  <2> QED BY <2>1, <2>4, <2>6, <2>7, <2>8, <2>9
<1>8. ASSUME NEW x \in Chiefs, NEW k \in Keys, E!B!Note(x, k) PROVE SettingsInv'
  <2>1. /\ change[x] # E!B!Quiet /\ k \in change[x].note /\ x \in E!B!Changing
        /\ inForce' = [inForce EXCEPT ![k] = change[x].to]
        /\ change' = [change EXCEPT ![x].note = @ \ {k}]
        /\ UNCHANGED <<stored, boot, snapshot, ordered, settingsLost, crashes>>
    BY <1>0, <1>8 DEF E!B!Note
  <2>2. change[x] \in [pc : {"set"}, to : E!B!Choices, write : SUBSET Keys, note : SUBSET Keys]
    BY <2>1
  <2>3. /\ change'[x] \in [pc : {"set"}, to : E!B!Choices, write : SUBSET Keys, note : SUBSET Keys]
        /\ \A y \in Chiefs : y # x => change'[y] = change[y]
        /\ change'[x].write = change[x].write /\ change'[x].to = change[x].to
        /\ change'[x].note = change[x].note \ {k}
    BY <2>1, <2>2
  <2>4. change' \in [Chiefs -> {E!B!Quiet} \cup [pc : {"set"}, to : E!B!Choices,
                                          write : SUBSET Keys, note : SUBSET Keys]]
    BY <2>1, <2>3
  <2>5. E!B!Changing' = E!B!Changing
    BY <1>0, <2>1, <2>2, <2>3 DEF E!B!Quiet
  <2>6. inForce' \in [Keys -> E!B!Choices] /\ inForce'[k] = change[x].to
        /\ \A j \in Keys : j # k => inForce'[j] = inForce[j]
    BY <2>1, <2>2
  <2>7. OrderedInv'
    <3> SUFFICES ASSUME ordered, settingsLost = 0 PROVE OrderedInv'
      BY <2>1 DEF OrderedInv
    <3>1. boot.pc = "over" /\ E!B!Changing = {x}
      BY <2>1 DEF OrderedInv
    <3>2. /\ \A j \in Keys : inForce[j] = stored[j] \/ j \in change[x].note
          /\ \A j \in change[x].note : stored[j] = change[x].to
      BY <3>1 DEF OrderedInv
    <3>3. \A j \in Keys : inForce'[j] = stored[j] \/ j \in change'[x].note
      <4> SUFFICES ASSUME NEW j \in Keys PROVE inForce'[j] = stored[j] \/ j \in change'[x].note
        OBVIOUS
      <4>1. CASE j = k
        BY <2>1, <2>6, <3>2, <4>1
      <4>2. CASE j # k
        BY <2>3, <2>6, <3>2, <4>2
      <4> QED BY <4>1, <4>2
    <3>4. \A j \in change'[x].note : stored[j] = change'[x].to
      BY <2>3, <3>2
    <3> QED BY <2>1, <2>5, <3>1, <3>3, <3>4 DEF OrderedInv
  <2>8. \A y \in E!B!Changing' : change'[y].write \cap change'[y].note = {}
    BY <1>0, <2>1, <2>3, <2>5
  <2> QED BY <2>1, <2>4, <2>6, <2>7, <2>8
<1>9. ASSUME NEW x \in Chiefs, E!B!Answer(x) PROVE SettingsInv'
  <2>1. /\ change[x] # E!B!Quiet /\ change[x].note = {} /\ x \in E!B!Changing
        /\ change' = [change EXCEPT ![x] = E!B!Quiet]
        /\ UNCHANGED <<stored, inForce, boot, snapshot, ordered, settingsLost, crashes>>
    BY <1>0, <1>9 DEF E!B!Answer
  <2>2. /\ change'[x] = E!B!Quiet /\ \A y \in Chiefs : y # x => change'[y] = change[y]
        /\ E!B!Changing' = E!B!Changing \ {x}
    BY <1>0, <2>1
  <2>3. change' \in [Chiefs -> {E!B!Quiet} \cup [pc : {"set"}, to : E!B!Choices,
                                          write : SUBSET Keys, note : SUBSET Keys]]
    BY <2>1
  <2>4. \A y \in E!B!Changing' : change'[y].write \cap change'[y].note = {}
    BY <1>0, <2>2
  <2>5. OrderedInv'
    <3> SUFFICES ASSUME ordered, settingsLost = 0 PROVE OrderedInv'
      BY <2>1 DEF OrderedInv
    <3>1. boot.pc = "over" /\ E!B!Changing = {x}
      BY <2>1 DEF OrderedInv
    <3>2. \A j \in Keys : inForce[j] = stored[j]
      BY <2>1, <3>1 DEF OrderedInv
    <3> QED BY <2>1, <2>2, <3>1, <3>2 DEF OrderedInv
  <2> QED BY <2>1, <2>3, <2>4, <2>5
<1>10. CASE E!B!Crash
  <2>1. /\ crashes < MaxCrashes /\ crashes' = crashes + 1
        /\ boot' = [pc |-> "persist", left |-> Keys] /\ inForce' = [k \in Keys |-> "default"]
        /\ change' = [x \in Chiefs |-> E!B!Quiet]
        /\ UNCHANGED <<stored, snapshot, ordered, settingsLost>>
    BY <1>10 DEF E!B!Crash
  <2>2. E!B!Changing' = {} /\ boot'.pc = "persist" /\ boot'.left = Keys
    BY <1>0, <2>1
  <2>3. crashes' \in 0 .. MaxCrashes
    BY <2>1, SettingsConstants
  <2>4. inForce' \in [Keys -> E!B!Choices]
    BY <2>1 DEF E!B!Choices
  <2>5. OrderedInv'
    BY <2>1, <2>2 DEF OrderedInv
  <2> QED BY <2>1, <2>2, <2>3, <2>4, <2>5
<1> QED BY <1>1, <1>2, <1>3, <1>4, <1>5, <1>6, <1>7, <1>8, <1>9, <1>10 DEF E!B!Next

LEMMA SettingsHolds == SettingsInv => E!B!TypeOK /\ E!B!StoredIsInForce
<1> SUFFICES ASSUME SettingsInv PROVE E!B!TypeOK /\ E!B!StoredIsInForce
  OBVIOUS
<1>1. E!B!TypeOK
  BY DEF SettingsInv, E!B!TypeOK
<1>2. ASSUME ordered, settingsLost = 0, boot.pc = "over", E!B!Changing = {}
      PROVE  inForce = stored
  <2>1. \A k \in Keys : inForce[k] = stored[k]
    BY <1>2 DEF SettingsInv, OrderedInv
  <2> QED BY <2>1 DEF SettingsInv
<1> QED BY <1>1, <1>2 DEF E!B!StoredIsInForce

\* ChoicesSurviveStarts of one step
LEMMA SettingsStay ==
  SettingsInv /\ [E!B!Next]_(E!B!vars) =>
    [\A k \in Keys : stored[k] \notin {"absent", stored'[k]} =>
       \E x \in E!B!Changing : k \in change[x].write /\ change[x].to = stored'[k]]_stored
<1> SUFFICES ASSUME SettingsInv, [E!B!Next]_(E!B!vars), stored' # stored,
                    NEW k \in Keys, stored[k] \notin {"absent", stored'[k]}
             PROVE  \E x \in E!B!Changing : k \in change[x].write /\ change[x].to = stored'[k]
  OBVIOUS
<1> USE DEF SettingsInv
<1>1. ASSUME NEW j \in Keys, E!B!Persist(j)
      PROVE  FALSE
  BY <1>1 DEF E!B!Persist
<1>2. ASSUME NEW x \in Chiefs, NEW j \in Keys, E!B!Write(x, j)
      PROVE  x \in E!B!Changing /\ k \in change[x].write /\ change[x].to = stored'[k]
  BY <1>2 DEF E!B!Write, E!B!Changing
<1> QED BY <1>1, <1>2 DEF E!B!Next, E!B!vars, E!B!Query, E!B!Load, E!B!StartFails, E!B!Crash,
              E!B!Request, E!B!Note, E!B!Answer

-----------------------------------------------------------------------------
(***************************************************************************)
(* The live connection: a symbol is counted once for every component that  *)
(* shows it, and what is still on the wire ends with what is wanted now.   *)
(***************************************************************************)
Messages == [event : {"subscribe_price", "unsubscribe_price"}, symbol : Symbols]
ShownBy(s, f) == {w \in Widgets : s \in f[w]}

\* Messages q, delivered to rooms rr, leave symbol s as it is wanted when n
\* components show it: from some message about s on, or from the start, all agree.
SettledIs(q, s, rr, n) ==
  \E i \in 0 .. Len(q) :
    /\ i = 0 => (s \in rr <=> n > 0)
    /\ i # 0 => q[i].symbol = s
    /\ \A j \in 1 .. Len(q) :
         j >= i /\ q[j].symbol = s => (q[j].event = "subscribe_price" <=> n > 0)

LinkTypes ==
  /\ token \in [user : Clients \cup {E!U!Nobody}, valid : BOOLEAN]
  /\ link \in {"opening", "open", "waiting", "stopped"}
  /\ status \in {"connected", "reconnecting"}
  /\ shows \in [Widgets -> SUBSET Symbols] /\ count \in [Symbols -> Nat]
  /\ wire \in Seq(Messages) /\ Len(wire) <= MaxWire
  /\ member \in Clients \cup {E!U!Nobody} /\ rooms \subseteq Symbols
  /\ outages \in 0 .. MaxOutages /\ effects \in 0 .. MaxEffects

LinkInv ==
  /\ LinkTypes
  /\ \A s \in Symbols : count[s] = Cardinality(ShownBy(s, shows))
  /\ link # "open" => wire = <<>> /\ rooms = {} /\ member = E!U!Nobody
  /\ E!U!UpdatesAreOwn
  /\ link = "open" => \A s \in Symbols : SettledIs(wire, s, rooms, count[s])

LEMMA LinkConstants ==
  /\ MaxWire \in Nat /\ MaxOutages \in Nat /\ MaxEffects \in Nat
  /\ IsFiniteSet(Symbols) /\ IsFiniteSet(Widgets) /\ Cardinality(Symbols) <= MaxWire
  BY ServicesAssumption

\* A finite set in some order: every member occurs.
OrderOf(set) == CHOOSE f \in Bijection(1 .. Cardinality(set), set) : TRUE

LEMMA OrderOfSet ==
  ASSUME NEW set, IsFiniteSet(set)
  PROVE  /\ Cardinality(set) \in Nat
         /\ OrderOf(set) \in [1 .. Cardinality(set) -> set]
         /\ \A x \in set : \E i \in 1 .. Cardinality(set) : OrderOf(set)[i] = x
<1>1. Cardinality(set) \in Nat /\ ExistsBijection(1 .. Cardinality(set), set)
  BY FS_CardinalityType
<1>2. OrderOf(set) \in Bijection(1 .. Cardinality(set), set)
  BY <1>1 DEF ExistsBijection, OrderOf
<1> QED BY <1>1, <1>2 DEF Bijection, Injection, Surjection

\* The messages about the symbols of a set
LEMMA MessagesOf ==
  ASSUME NEW ss \in SUBSET Symbols, NEW ev \in {"subscribe_price", "unsubscribe_price"}
  PROVE  LET q == E!U!Of(ev, ss) IN
         /\ q \in Seq(Messages) /\ Len(q) = Cardinality(ss) /\ Len(q) \in Nat
         /\ Len(q) <= MaxWire
         /\ \A i \in 1 .. Len(q) : q[i].event = ev /\ q[i].symbol \in ss
         /\ \A s \in ss : \E i \in 1 .. Len(q) : q[i].symbol = s
<1>1. IsFiniteSet(ss) /\ Cardinality(ss) <= Cardinality(Symbols) /\ Cardinality(Symbols) \in Nat
  BY LinkConstants, FS_Subset, FS_CardinalityType
<1>2. E!U!Cardinality(ss) = Cardinality(ss) /\ \A a, b : E!U!Bijection(a, b) = Bijection(a, b)
  BY DEF E!U!Cardinality, Cardinality, E!U!Bijection, Bijection, E!U!Injection, Injection,
         E!U!Surjection, Surjection, E!U!IsInjective, IsInjective
<1> DEFINE n == Cardinality(ss)
           f == OrderOf(ss)
           q == [i \in 1 .. n |-> [event |-> ev, symbol |-> f[i]]]
<1>3. n \in Nat /\ f \in [1 .. n -> ss] /\ \A s \in ss : \E i \in 1 .. n : f[i] = s
  BY <1>1, OrderOfSet
<1>4. E!U!Of(ev, ss) = q
  BY <1>2 DEF E!U!Of, OrderOf
<1> HIDE DEF n, f
<1>5. \A i \in 1 .. n : q[i] = [event |-> ev, symbol |-> f[i]] /\ q[i] \in Messages
  BY <1>3 DEF Messages
<1>6. q \in Seq(Messages) /\ Len(q) = n
  BY <1>3, <1>5
<1> HIDE DEF q
<1>7. ASSUME NEW i \in 1 .. n PROVE q[i].event = ev /\ q[i].symbol = f[i]
  <2>1. q[i] = [event |-> ev, symbol |-> f[i]]
    BY <1>5
  <2> QED BY <2>1
<1>8. n <= MaxWire
  BY <1>1, <1>3, LinkConstants DEF n
<1> QED BY <1>3, <1>4, <1>6, <1>7, <1>8 DEF n

\* Messages that follow and speak of s as it is wanted, the last word being theirs
LEMMA TheyTell ==
  ASSUME NEW q \in Seq(Messages), NEW a \in Seq(Messages), NEW s \in Symbols, NEW rr,
         NEW n \in Nat,
         \E k \in 1 .. Len(a) : a[k].symbol = s,
         \A k \in 1 .. Len(a) : a[k].symbol = s => (a[k].event = "subscribe_price" <=> n > 0)
  PROVE  SettledIs(q \o a, s, rr, n)
<1>1. /\ Len(q \o a) = Len(q) + Len(a) /\ Len(q) \in Nat /\ Len(a) \in Nat
      /\ \A i \in 1 .. Len(q) + Len(a) :
           (q \o a)[i] = IF i <= Len(q) THEN q[i] ELSE a[i - Len(q)]
  BY ConcatProperties
<1>2. PICK k \in 1 .. Len(a) : a[k].symbol = s
  OBVIOUS
<1> DEFINE i == Len(q) + k
<1>3. i \in 0 .. Len(q \o a) /\ i # 0 /\ (q \o a)[i].symbol = s
  BY <1>1, <1>2
<1>4. ASSUME NEW j \in 1 .. Len(q \o a), j >= i, (q \o a)[j].symbol = s
      PROVE  (q \o a)[j].event = "subscribe_price" <=> n > 0
  <2>1. j - Len(q) \in 1 .. Len(a) /\ (q \o a)[j] = a[j - Len(q)]
    BY <1>1, <1>4
  <2> QED BY <1>4, <2>1
<1> HIDE DEF i
<1> QED BY <1>3, <1>4 DEF SettledIs

\* Messages that follow and do not speak of s
LEMMA TheyAreSilent ==
  ASSUME NEW q \in Seq(Messages), NEW a \in Seq(Messages), NEW s \in Symbols, NEW rr,
         NEW n \in Nat, NEW m \in Nat, n > 0 <=> m > 0,
         \A k \in 1 .. Len(a) : a[k].symbol # s,
         SettledIs(q, s, rr, n)
  PROVE  SettledIs(q \o a, s, rr, m)
<1>1. /\ Len(q \o a) = Len(q) + Len(a) /\ Len(q) \in Nat /\ Len(a) \in Nat
      /\ \A i \in 1 .. Len(q) + Len(a) :
           (q \o a)[i] = IF i <= Len(q) THEN q[i] ELSE a[i - Len(q)]
  BY ConcatProperties
<1>2. PICK i \in 0 .. Len(q) :
        /\ i = 0 => (s \in rr <=> n > 0)
        /\ i # 0 => q[i].symbol = s
        /\ \A j \in 1 .. Len(q) :
             j >= i /\ q[j].symbol = s => (q[j].event = "subscribe_price" <=> n > 0)
  BY DEF SettledIs
<1>3. i \in 0 .. Len(q \o a) /\ (i # 0 => (q \o a)[i] = q[i])
  BY <1>1
<1>4. ASSUME NEW j \in 1 .. Len(q \o a), j >= i, (q \o a)[j].symbol = s
      PROVE  (q \o a)[j].event = "subscribe_price" <=> m > 0
  <2>1. CASE j <= Len(q)
    BY <1>1, <1>2, <1>4, <2>1
  <2>2. CASE j > Len(q)
    <3>1. j - Len(q) \in 1 .. Len(a) /\ (q \o a)[j] = a[j - Len(q)]
      BY <1>1, <1>4, <2>2
    <3> QED BY <1>4, <3>1
  <2> QED BY <1>1, <2>1, <2>2
<1> QED BY <1>2, <1>3, <1>4 DEF SettledIs

\* One message is delivered.
LEMMA OneIsDelivered ==
  ASSUME NEW q \in Seq(Messages), q # <<>>, NEW s \in Symbols, NEW rr, NEW after, NEW n \in Nat,
         SettledIs(q, s, rr, n),
         after = IF q[1].event = "subscribe_price" THEN rr \cup {q[1].symbol}
                                                   ELSE rr \ {q[1].symbol}
  PROVE  SettledIs(Tail(q), s, after, n)
<1>1. /\ Len(q) \in Nat /\ Len(q) > 0 /\ Len(Tail(q)) = Len(q) - 1
      /\ \A i \in 1 .. Len(q) - 1 : i + 1 \in 1 .. Len(q) /\ Tail(q)[i] = q[i + 1]
      /\ \A j \in 1 .. Len(q) : j # 1 => j - 1 \in 1 .. Len(q) - 1 /\ Tail(q)[j - 1] = q[j]
  BY TailOf
<1>2. PICK i \in 0 .. Len(q) :
        /\ i = 0 => (s \in rr <=> n > 0)
        /\ i # 0 => q[i].symbol = s
        /\ \A j \in 1 .. Len(q) :
             j >= i /\ q[j].symbol = s => (q[j].event = "subscribe_price" <=> n > 0)
  BY DEF SettledIs
<1>3. CASE i \in {0, 1}
  <2>1. s \in after <=> n > 0
    <3>1. CASE q[1].symbol = s
      <4>1. q[1].event = "subscribe_price" <=> n > 0
        BY <1>1, <1>2, <1>3, <3>1
      <4> QED BY <3>1, <4>1
    <3>2. CASE q[1].symbol # s
      <4>1. i = 0
        BY <1>2, <1>3, <3>2
      <4> QED BY <1>2, <3>2, <4>1
    <3> QED BY <3>1, <3>2
  <2>2. \A j \in 1 .. Len(Tail(q)) :
          Tail(q)[j].symbol = s => (Tail(q)[j].event = "subscribe_price" <=> n > 0)
    BY <1>1, <1>2, <1>3
  <2>3. 0 \in 0 .. Len(Tail(q))
    BY <1>1
  <2> QED BY <2>1, <2>2, <2>3 DEF SettledIs
<1>4. CASE i \notin {0, 1}
  <2>1. i - 1 \in 1 .. Len(Tail(q)) /\ Tail(q)[i - 1].symbol = s
    BY <1>1, <1>2, <1>4
  <2>2. \A j \in 1 .. Len(Tail(q)) : j >= i - 1 /\ Tail(q)[j].symbol = s =>
          (Tail(q)[j].event = "subscribe_price" <=> n > 0)
    BY <1>1, <1>2
  <2>3. i - 1 \in 0 .. Len(Tail(q)) /\ i - 1 # 0
    BY <2>1, <1>1
  <2> QED BY <2>1, <2>2, <2>3 DEF SettledIs
<1> QED BY <1>3, <1>4

\* How many show a symbol, when one component changes what it shows
LEMMA ShownChanges ==
  ASSUME NEW f \in [Widgets -> SUBSET Symbols], NEW w \in Widgets, NEW ss \in SUBSET Symbols,
         NEW s \in Symbols
  PROVE  LET g == [f EXCEPT ![w] = ss] IN
         /\ Cardinality(ShownBy(s, f)) \in Nat
         /\ s \in ss \ f[w] => Cardinality(ShownBy(s, g)) = Cardinality(ShownBy(s, f)) + 1
         /\ s \in f[w] \ ss => /\ Cardinality(ShownBy(s, g)) = Cardinality(ShownBy(s, f)) - 1
                             /\ Cardinality(ShownBy(s, f)) > 0
         /\ (s \in ss <=> s \in f[w]) => ShownBy(s, g) = ShownBy(s, f)
<1> DEFINE g == [f EXCEPT ![w] = ss]
<1>1. IsFiniteSet(ShownBy(s, f)) /\ Cardinality(ShownBy(s, f)) \in Nat
  BY LinkConstants, FS_Subset, FS_CardinalityType DEF ShownBy
<1>2. g[w] = ss /\ \A v \in Widgets \ {w} : g[v] = f[v]
  OBVIOUS
<1> HIDE DEF g
<1>3. ASSUME s \in ss \ f[w]
      PROVE  Cardinality(ShownBy(s, g)) = Cardinality(ShownBy(s, f)) + 1
  <2>1. ShownBy(s, g) = ShownBy(s, f) \cup {w} /\ w \notin ShownBy(s, f)
    BY <1>2, <1>3 DEF ShownBy
  <2> QED BY <1>1, <2>1, FS_AddElement
<1>4. ASSUME s \in f[w] \ ss
      PROVE  /\ Cardinality(ShownBy(s, g)) = Cardinality(ShownBy(s, f)) - 1
             /\ Cardinality(ShownBy(s, f)) > 0
  <2>1. ShownBy(s, g) = ShownBy(s, f) \ {w} /\ w \in ShownBy(s, f)
    BY <1>2, <1>4 DEF ShownBy
  <2>2. Cardinality(ShownBy(s, f)) # 0
    BY <1>1, <2>1, FS_EmptySet
  <2>3. Cardinality(ShownBy(s, f) \ {w}) = Cardinality(ShownBy(s, f)) - 1
    BY <1>1, <2>1, FS_RemoveElement
  <2> QED BY <1>1, <2>1, <2>2, <2>3
<1>5. (s \in ss <=> s \in f[w]) => ShownBy(s, g) = ShownBy(s, f)
  BY <1>2 DEF ShownBy
<1> QED BY <1>1, <1>3, <1>4, <1>5 DEF g

LEMMA LinkInit == E!U!Init => LinkInv
<1> SUFFICES ASSUME E!U!Init PROVE LinkInv
  OBVIOUS
<1>1. LinkTypes
  <2>1. token \in [user : Clients \cup {E!U!Nobody}, valid : BOOLEAN]
    BY DEF E!U!Init
  <2>2. wire \in Seq(Messages) /\ Len(wire) <= MaxWire
    BY LinkConstants DEF E!U!Init
  <2>3. shows \in [Widgets -> SUBSET Symbols] /\ count \in [Symbols -> Nat]
    BY DEF E!U!Init
  <2>4. outages \in 0 .. MaxOutages /\ effects \in 0 .. MaxEffects
    BY LinkConstants DEF E!U!Init
  <2> QED BY <2>1, <2>2, <2>3, <2>4 DEF E!U!Init, LinkTypes
<1>2. ASSUME NEW s \in Symbols PROVE count[s] = Cardinality(ShownBy(s, shows))
  <2>1. ShownBy(s, shows) = {}
    BY DEF E!U!Init, ShownBy
  <2> QED BY <2>1, FS_EmptySet DEF E!U!Init
<1> QED BY <1>1, <1>2 DEF E!U!Init, LinkInv, E!U!UpdatesAreOwn

LEMMA OpensKeeps == LinkInv /\ E!U!Opens => LinkInv'
<1> SUFFICES ASSUME LinkInv, E!U!Opens PROVE LinkInv'
  OBVIOUS
<1> DEFINE wanted == E!U!Wanted
<1>1. wanted \in SUBSET Symbols /\ rooms = {}
  BY DEF LinkInv, E!U!Opens, E!U!Wanted
<1> DEFINE q == E!U!Of("subscribe_price", wanted)
<1>2. /\ q \in Seq(Messages) /\ Len(q) \in Nat /\ Len(q) <= MaxWire
      /\ \A i \in 1 .. Len(q) : q[i].event = "subscribe_price" /\ q[i].symbol \in wanted
      /\ \A s \in wanted : \E i \in 1 .. Len(q) : q[i].symbol = s
  <2> HIDE DEF wanted
  <2> QED BY <1>1, MessagesOf
<1>3. \A s \in Symbols : s \in wanted <=> count[s] > 0
  BY DEF E!U!Wanted
<1>4. wire' = q
  BY DEF E!U!Opens
<1> HIDE DEF wanted, q
<1>5. LinkTypes'
  BY <1>2, <1>4 DEF LinkInv, LinkTypes, E!U!Opens, E!U!client, E!U!server
<1>6. ASSUME NEW s \in Symbols PROVE SettledIs(q, s, rooms, count[s])
  <2>1. CASE s \in wanted
    <3>1. PICK i \in 1 .. Len(q) : q[i].symbol = s
      BY <1>2, <2>1
    <3>2. i \in 0 .. Len(q) /\ i # 0
      BY <1>2
    <3> QED BY <1>2, <1>3, <2>1, <3>1, <3>2 DEF SettledIs
  <2>2. CASE s \notin wanted
    <3>1. 0 \in 0 .. Len(q) /\ (s \in rooms <=> count[s] > 0)
      BY <1>1, <1>2, <1>3, <2>2
    <3> QED BY <1>2, <2>2, <3>1 DEF SettledIs
  <2> QED BY <2>1, <2>2
<1> QED
  BY <1>4, <1>5, <1>6 DEF LinkInv, E!U!Opens, E!U!client, E!U!server, E!U!UpdatesAreOwn

\* A component shows other symbols: what follows for counts and messages
LEMMA ShowsKeeps ==
  ASSUME LinkInv, NEW w \in Widgets, NEW ss \in SUBSET Symbols, E!U!Shows(w, ss)
  PROVE  /\ shows' \in [Widgets -> SUBSET Symbols] /\ count' \in [Symbols -> Nat]
         /\ wire' \in Seq(Messages) /\ Len(wire') <= MaxWire
         /\ \A s \in Symbols : count'[s] = Cardinality(ShownBy(s, shows'))
         /\ link # "open" => wire' = wire
         /\ link = "open" => \A s \in Symbols : SettledIs(wire', s, rooms, count'[s])
<1> DEFINE more == ss \ shows[w]
           less == shows[w] \ ss
           new  == {s \in more : count[s] = 0}
           none == {s \in less : count[s] = 1}
           a == E!U!Of("subscribe_price", new)
           b == E!U!Of("unsubscribe_price", none)
<1>0. shows \in [Widgets -> SUBSET Symbols] /\ count \in [Symbols -> Nat] /\ wire \in Seq(Messages)
  BY DEF LinkInv, LinkTypes
<1>1. /\ shows' = [shows EXCEPT ![w] = ss]
      /\ count' = [s \in Symbols |-> count[s] + (IF s \in more THEN 1 ELSE 0)
                                              - (IF s \in less THEN 1 ELSE 0)]
      /\ link = "open" => wire' = wire \o a \o b
      /\ link # "open" => wire' = wire
      /\ Len(wire') <= MaxWire
  BY DEF E!U!Shows
<1>2. more \in SUBSET Symbols /\ less \in SUBSET Symbols /\ more \cap less = {}
      /\ new \subseteq more /\ none \subseteq less
  BY <1>0
<1>3. new \in SUBSET Symbols /\ none \in SUBSET Symbols
  BY <1>2
<1>4. /\ a \in Seq(Messages) /\ b \in Seq(Messages)
      /\ \A i \in 1 .. Len(a) : a[i].event = "subscribe_price" /\ a[i].symbol \in new
      /\ \A i \in 1 .. Len(b) : b[i].event = "unsubscribe_price" /\ b[i].symbol \in none
      /\ \A s \in new : \E i \in 1 .. Len(a) : a[i].symbol = s
      /\ \A s \in none : \E i \in 1 .. Len(b) : b[i].symbol = s
  <2> HIDE DEF new, none
  <2> QED BY <1>3, MessagesOf
<1>5. \A s \in Symbols :
        /\ s \in new <=> s \in more /\ count[s] = 0
        /\ s \in none <=> s \in less /\ count[s] = 1
        /\ s \in more <=> s \in ss /\ s \notin shows[w]
        /\ s \in less <=> s \in shows[w] /\ s \notin ss
  OBVIOUS
<1> HIDE DEF more, less, new, none, a, b
<1>6. shows' \in [Widgets -> SUBSET Symbols]
  BY <1>0, <1>1
<1>7. ASSUME NEW s \in Symbols
      PROVE  /\ count'[s] \in Nat /\ count'[s] = Cardinality(ShownBy(s, shows'))
             /\ s \in more => count'[s] = count[s] + 1
             /\ s \in less => count'[s] = count[s] - 1
             /\ s \notin more \cup less => count'[s] = count[s]
  <2>1. /\ count[s] = Cardinality(ShownBy(s, shows)) /\ count[s] \in Nat
        /\ s \in more => Cardinality(ShownBy(s, shows')) = count[s] + 1
        /\ s \in less => Cardinality(ShownBy(s, shows')) = count[s] - 1 /\ count[s] > 0
        /\ s \notin more \cup less => Cardinality(ShownBy(s, shows')) = count[s]
    <3>1. LET g == [shows EXCEPT ![w] = ss] IN
          /\ Cardinality(ShownBy(s, shows)) \in Nat
          /\ s \in ss \ shows[w] => Cardinality(ShownBy(s, g)) = Cardinality(ShownBy(s, shows)) + 1
          /\ s \in shows[w] \ ss => /\ Cardinality(ShownBy(s, g)) = Cardinality(ShownBy(s, shows)) - 1
                                  /\ Cardinality(ShownBy(s, shows)) > 0
          /\ (s \in ss <=> s \in shows[w]) => ShownBy(s, g) = ShownBy(s, shows)
      BY <1>0, ShownChanges
    <3>2. count[s] = Cardinality(ShownBy(s, shows)) /\ shows' = [shows EXCEPT ![w] = ss]
      BY <1>1 DEF LinkInv
    <3> QED BY <1>5, <3>1, <3>2
  <2>2. /\ s \in more => count'[s] = count[s] + 1
        /\ s \in less => count'[s] = count[s] - 1
        /\ s \notin more \cup less => count'[s] = count[s]
    BY <1>1, <1>2, <2>1
  <2> QED BY <2>1, <2>2
<1>8. count' \in [Symbols -> Nat]
  BY <1>1, <1>7
<1>9. wire' \in Seq(Messages)
  <2>1. wire \o a \in Seq(Messages)
    BY <1>0, <1>4, ConcatProperties
  <2>2. (wire \o a) \o b \in Seq(Messages)
    BY <1>4, <2>1, ConcatProperties
  <2> QED BY <1>0, <1>1, <2>2
<1>10. ASSUME link = "open", NEW s \in Symbols PROVE SettledIs(wire', s, rooms, count'[s])
  <2>0. count[s] \in Nat /\ count'[s] \in Nat /\ wire \o a \in Seq(Messages)
    BY <1>0, <1>4, <1>7, ConcatProperties
  <2>1. CASE s \in new
    <3>1. count'[s] > 0 /\ s \notin none
      BY <1>2, <1>5, <1>7, <2>0, <2>1
    <3>2. SettledIs(wire \o a, s, rooms, count'[s])
      BY <1>0, <1>4, <2>0, <2>1, <3>1, TheyTell
    <3>3. SettledIs((wire \o a) \o b, s, rooms, count'[s])
      <4>1. \A k \in 1 .. Len(b) : b[k].symbol # s
        BY <1>4, <3>1
      <4> QED BY <1>4, <2>0, <3>2, <4>1, TheyAreSilent
    <3> QED BY <1>1, <1>10, <3>3
  <2>2. CASE s \in none
    <3>1. ~(count'[s] > 0)
      BY <1>5, <1>7, <2>0, <2>2
    <3>2. \A k \in 1 .. Len(b) : b[k].symbol = s => (b[k].event = "subscribe_price" <=> count'[s] > 0)
      BY <1>4, <3>1
    <3>3. SettledIs((wire \o a) \o b, s, rooms, count'[s])
      BY <1>4, <2>0, <2>2, <3>2, TheyTell
    <3> QED BY <1>1, <1>10, <3>3
  <2>3. CASE s \notin new \cup none
    <3>1. count[s] > 0 <=> count'[s] > 0
      BY <1>5, <1>7, <2>0, <2>3
    <3>2. \A k \in 1 .. Len(a) : a[k].symbol # s
      BY <1>4, <2>3
    <3>3. \A k \in 1 .. Len(b) : b[k].symbol # s
      BY <1>4, <2>3
    <3>4. SettledIs(wire, s, rooms, count[s])
      BY <1>10 DEF LinkInv
    <3>5. SettledIs(wire \o a, s, rooms, count'[s])
      BY <1>0, <1>4, <2>0, <3>1, <3>2, <3>4, TheyAreSilent
    <3>6. SettledIs((wire \o a) \o b, s, rooms, count'[s])
      BY <1>4, <2>0, <3>3, <3>5, TheyAreSilent
    <3> QED BY <1>1, <1>10, <3>6
  <2> QED BY <2>1, <2>2, <2>3
<1> QED BY <1>1, <1>6, <1>7, <1>8, <1>9, <1>10

LEMMA DeliverKeeps == LinkInv /\ E!U!Deliver => LinkInv'
<1> SUFFICES ASSUME LinkInv, E!U!Deliver PROVE LinkInv'
  OBVIOUS
<1>1. wire \in Seq(Messages) /\ wire # <<>> /\ Len(wire) <= MaxWire /\ Len(wire) \in Nat
  BY DEF LinkInv, LinkTypes, E!U!Deliver
<1>2. Tail(wire) \in Seq(Messages) /\ Len(Tail(wire)) = Len(wire) - 1 /\ wire[1] \in Messages
  BY <1>1, TailOf
<1>3. /\ wire' = Tail(wire)
      /\ rooms' = IF wire[1].event = "subscribe_price" THEN rooms \cup {wire[1].symbol}
                                                       ELSE rooms \ {wire[1].symbol}
  <2>1. Head(wire) = wire[1]
    BY <1>1
  <2> QED BY <2>1 DEF E!U!Deliver
<1>4. rooms' \subseteq Symbols /\ Len(wire') <= MaxWire
  BY <1>1, <1>2, <1>3, LinkConstants DEF LinkInv, LinkTypes, Messages
<1>5. LinkTypes'
  BY <1>2, <1>3, <1>4 DEF LinkInv, LinkTypes, E!U!Deliver, E!U!client
<1>6. link = "open"
  BY <1>1 DEF LinkInv
<1>7. \A s \in Symbols : SettledIs(wire', s, rooms', count[s])
  BY <1>1, <1>3, <1>6, OneIsDelivered DEF LinkInv, LinkTypes
<1> QED BY <1>5, <1>6, <1>7 DEF LinkInv, E!U!Deliver, E!U!client, E!U!UpdatesAreOwn

LEMMA LinkNext == LinkInv /\ [E!U!Next]_(E!U!vars) => LinkInv'
<1> SUFFICES ASSUME LinkInv, [E!U!Next]_(E!U!vars) PROVE LinkInv'
  OBVIOUS
<1>1. CASE E!U!Lost
  BY <1>1, LinkConstants DEF E!U!Lost, E!U!Gone, E!U!client, LinkInv, LinkTypes, E!U!UpdatesAreOwn
<1>2. CASE E!U!Retry
  BY <1>2 DEF E!U!Retry, E!U!client, E!U!server, LinkInv, LinkTypes, E!U!UpdatesAreOwn
<1>3. CASE E!U!Verify
  <2>1. CASE token.valid
    <3>1. member' \in Clients \cup {E!U!Nobody}
      BY <1>3, <2>1 DEF E!U!Verify, LinkInv, LinkTypes
    <3> QED BY <1>3, <2>1, <3>1 DEF E!U!Verify, E!U!client, LinkInv, LinkTypes, E!U!UpdatesAreOwn
  <2>2. CASE ~token.valid
    <3>1. /\ link' = "stopped" /\ status' = "reconnecting" /\ wire' = <<>> /\ member' = E!U!Nobody
          /\ rooms' = {} /\ UNCHANGED <<token, shows, count, outages, effects>>
      BY <1>3, <2>2 DEF E!U!Verify, E!U!Gone, E!U!client
    <3>2. wire' \in Seq(Messages) /\ Len(wire') <= MaxWire
      BY <3>1, LinkConstants
    <3> QED BY <3>1, <3>2 DEF LinkInv, LinkTypes, E!U!UpdatesAreOwn
  <2> QED BY <2>1, <2>2
<1>4. CASE E!U!Expire
  BY <1>4 DEF E!U!Expire, E!U!server, LinkInv, LinkTypes, E!U!UpdatesAreOwn
<1>5. ASSUME NEW w \in Widgets, E!U!Render(w) \/ E!U!Unmount(w) PROVE LinkInv'
  <2>1. PICK ss \in SUBSET Symbols : E!U!Shows(w, ss)
    BY <1>5 DEF E!U!Render, E!U!Unmount
  <2>2. /\ shows' \in [Widgets -> SUBSET Symbols] /\ count' \in [Symbols -> Nat]
        /\ wire' \in Seq(Messages) /\ Len(wire') <= MaxWire
        /\ \A s \in Symbols : count'[s] = Cardinality(ShownBy(s, shows'))
        /\ link # "open" => wire' = wire
        /\ link = "open" => \A s \in Symbols : SettledIs(wire', s, rooms, count'[s])
    BY <2>1, ShowsKeeps
  <2>3. /\ token' = token /\ member' = member /\ rooms' = rooms /\ outages' = outages
        /\ effects' \in 0 .. MaxEffects
        /\ (link = "open" <=> link' = "open") /\ link' \in {"opening", "open", "waiting", "stopped"}
        /\ status' \in {"connected", "reconnecting"}
    BY <1>5, LinkConstants
       DEF E!U!Render, E!U!Unmount, E!U!OneEffect, E!U!server, LinkInv, LinkTypes
  <2>4. LinkTypes'
    BY <2>2, <2>3 DEF LinkInv, LinkTypes
  <2> QED BY <2>2, <2>3, <2>4 DEF LinkInv, E!U!UpdatesAreOwn
<1>6. ASSUME NEW c \in Clients \cup {E!U!Nobody}, E!U!SignIn(c) PROVE LinkInv'
  BY <1>6, LinkConstants DEF E!U!SignIn, E!U!OneEffect, E!U!Gone, LinkInv, LinkTypes, E!U!UpdatesAreOwn
<1>7. CASE UNCHANGED E!U!vars
  BY <1>7 DEF E!U!vars, LinkInv, LinkTypes, E!U!UpdatesAreOwn
<1> QED BY <1>1, <1>2, <1>3, <1>4, <1>5, <1>6, <1>7, OpensKeeps, DeliverKeeps DEF E!U!Next

LEMMA LinkHolds == LinkInv => E!U!TypeOK /\ E!U!RoomsFollowComponents /\ E!U!UpdatesAreOwn
<1> SUFFICES ASSUME LinkInv PROVE E!U!TypeOK /\ E!U!RoomsFollowComponents /\ E!U!UpdatesAreOwn
  OBVIOUS
<1>1. E!U!TypeOK
  BY DEF LinkInv, LinkTypes, E!U!TypeOK
<1>2. ASSUME link = "open", wire = <<>>
      PROVE  rooms = UNION {shows[w] : w \in Widgets}
  <2>1. Len(wire) = 0
    BY <1>2
  <2>2. ASSUME NEW s \in Symbols PROVE s \in rooms <=> \E w \in Widgets : s \in shows[w]
    <3>1. s \in rooms <=> count[s] > 0
      BY <1>2, <2>1 DEF LinkInv, SettledIs
    <3>2. IsFiniteSet(ShownBy(s, shows)) /\ count[s] = Cardinality(ShownBy(s, shows))
          /\ count[s] \in Nat
      BY LinkConstants, FS_Subset DEF ShownBy, LinkInv, LinkTypes
    <3>3. count[s] = 0 <=> ShownBy(s, shows) = {}
      BY <3>2, FS_EmptySet
    <3> QED BY <3>1, <3>2, <3>3 DEF ShownBy
  <2> QED BY <2>2 DEF LinkInv, LinkTypes
<1> QED BY <1>1, <1>2 DEF LinkInv, E!U!RoomsFollowComponents

-----------------------------------------------------------------------------
(***************************************************************************)
(* The browser's requests and its session: a request that changes          *)
(* something and is still on its way has not run, and as long as requests  *)
(* wait for one another and nothing is lost, whoever refreshes holds the   *)
(* session's present token.                                                *)
(***************************************************************************)
Carried == [pc : {"sent", "ok", "refused", "unauthorized", "refresh", "rotated", "broken"},
             token : 0 .. MaxToken, try : {"first", "last", "refreshed"}]

BrowserTypes ==
  /\ kept \in 0 .. MaxToken
  /\ server \in [live : BOOLEAN, token : 1 .. MaxToken]
  /\ expired \subseteq 0 .. MaxToken
  /\ call \in [Calls -> {E!H!Done} \cup Carried]
  /\ ran \in [Calls -> 0 .. 2] /\ inTurn \in BOOLEAN /\ callsLost \in 0 .. MaxLosses

UnrunIs(r, n) == n <= 1 /\ (r.pc \in {"sent", "unauthorized", "refresh", "rotated"} => n = 0)

\* What a request that waits knows of the session s, with the expired tokens ee
HoldsIs(r, s, ee) ==
  r # E!H!Done =>
    /\ r.pc # "broken" /\ r.try \in {"first", "refreshed"}
    /\ r.pc \in {"rotated", "refresh"} => r.try = "refreshed"
    /\ r.try = "refreshed" =>
         /\ r.token = s.token
         /\ r.pc = "unauthorized" => r.token \in ee \/ s.live = FALSE

InTurnIs ==
  /\ \A c, d \in Calls : call[c] # E!H!Done /\ call[d] # E!H!Done => c = d
  /\ (\A c \in Calls : call[c].pc # "rotated") => kept \in {0, server.token}
  /\ \A c \in Calls : HoldsIs(call[c], server, expired)

BrowserInv ==
  /\ BrowserTypes
  /\ \A c \in Posts : UnrunIs(call[c], ran[c])
  /\ inTurn = TRUE /\ callsLost = 0 => InTurnIs

LEMMA BrowserConstants == MaxToken \in Nat \ {0} /\ MaxLosses \in Nat /\ Posts \subseteq Calls
  BY ServicesAssumption

LEMMA BrowserTerms == E!H!Done.pc = "done" /\ E!H!Done \notin Carried
  BY DEF E!H!Done, Carried

LEMMA BrowserInit == E!H!Init => BrowserInv
<1> SUFFICES ASSUME E!H!Init PROVE BrowserInv
  OBVIOUS
<1> USE BrowserConstants, BrowserTerms DEF E!H!Init
<1>1. BrowserTypes
  BY DEF BrowserTypes
<1>2. \A c \in Posts : UnrunIs(call[c], ran[c])
  BY DEF UnrunIs
<1>3. InTurnIs
  BY DEF InTurnIs, HoldsIs
<1> QED BY <1>1, <1>2, <1>3 DEF BrowserInv

\* When one request waits, the others do not.
LEMMA OneWaits ==
  ASSUME BrowserInv, inTurn = TRUE, callsLost = 0, NEW c \in Calls, call[c] # E!H!Done
  PROVE  /\ \A d \in Calls \ {c} : call[d] = E!H!Done
         /\ HoldsIs(call[c], server, expired)
         /\ call[c].pc # "rotated" => kept \in {0, server.token}
<1>1. InTurnIs
  BY DEF BrowserInv
<1>2. \A d \in Calls \ {c} : call[d] = E!H!Done
  BY <1>1 DEF InTurnIs
<1>3. \A d \in Calls \ {c} : call[d].pc # "rotated"
  BY <1>2, BrowserTerms
<1> QED BY <1>1, <1>2, <1>3 DEF InTurnIs

\* A step of one request
LEMMA RequestSteps ==
  ASSUME BrowserInv, NEW c \in Calls, NEW r \in {E!H!Done} \cup Carried,
         call' = [call EXCEPT ![c] = r],
         kept' \in 0 .. MaxToken, server' \in [live : BOOLEAN, token : 1 .. MaxToken],
         expired' = expired, inTurn' = inTurn, callsLost' \in 0 .. MaxLosses,
         ran' \in [Calls -> 0 .. 2], \A d \in Calls \ {c} : ran'[d] = ran[d],
         c \in Posts => UnrunIs(r, ran'[c]),
         inTurn = TRUE /\ callsLost' = 0 =>
           /\ \A d \in Calls \ {c} : call[d] = E!H!Done
           /\ HoldsIs(r, server', expired)
           /\ r.pc # "rotated" => kept' \in {0, server'.token}
  PROVE  BrowserInv'
<1> USE BrowserConstants, BrowserTerms
<1>1. /\ call'[c] = r /\ call' \in [Calls -> {E!H!Done} \cup Carried]
      /\ \A d \in Calls \ {c} : call'[d] = call[d]
  BY DEF BrowserInv, BrowserTypes
<1>2. BrowserTypes'
  BY <1>1 DEF BrowserInv, BrowserTypes
<1>3. \A d \in Posts : UnrunIs(call'[d], ran'[d])
  BY <1>1 DEF BrowserInv
<1>4. ASSUME inTurn' = TRUE, callsLost' = 0 PROVE InTurnIs'
  <2>1. \A d \in Calls \ {c} : call'[d] = E!H!Done
    BY <1>1, <1>4
  <2>2. \A d \in Calls : HoldsIs(call'[d], server', expired')
    BY <1>1, <1>4, <2>1 DEF HoldsIs
  <2>3. (\A d \in Calls : call'[d].pc # "rotated") => kept' \in {0, server'.token}
    BY <1>1, <1>4
  <2> QED BY <1>1, <2>1, <2>2, <2>3 DEF InTurnIs
<1> QED BY <1>2, <1>3, <1>4 DEF BrowserInv

\* A request that waits is one, and what its present state says of it
LEMMA ARequest ==
  ASSUME BrowserInv, NEW c \in Calls
  PROVE  /\ call[c] \in {E!H!Done} \cup Carried
         /\ call[c].pc # "done" => call[c] \in Carried /\ call[c] # E!H!Done
         /\ ran[c] \in 0 .. 2
         /\ c \in Posts => UnrunIs(call[c], ran[c])
         /\ \A p \in {"sent", "ok", "refused", "unauthorized", "refresh", "rotated", "broken"} :
              call[c].pc # "done" => [call[c] EXCEPT !.pc = p] \in Carried
<1>1. call[c] \in {E!H!Done} \cup Carried /\ ran[c] \in 0 .. 2
  BY DEF BrowserInv, BrowserTypes
<1>2. call[c].pc # "done" => call[c] \in Carried /\ call[c] # E!H!Done
  BY <1>1, BrowserTerms
<1>3. \A p \in {"sent", "ok", "refused", "unauthorized", "refresh", "rotated", "broken"} :
        call[c].pc # "done" => [call[c] EXCEPT !.pc = p] \in Carried
  BY <1>2 DEF Carried
<1> QED BY <1>1, <1>2, <1>3, BrowserConstants DEF BrowserInv

LEMMA SendKeeps == ASSUME BrowserInv, NEW c \in Calls, E!H!Send(c) PROVE BrowserInv'
<1> DEFINE r == [pc |-> "sent", token |-> kept, try |-> "first"]
<1>1. r \in Carried /\ call' = [call EXCEPT ![c] = r]
  BY DEF BrowserInv, BrowserTypes, E!H!Send, E!H!Becomes, Carried
<1>2. c \in Posts => UnrunIs(r, ran'[c])
  BY DEF UnrunIs, E!H!Send
<1>3. ASSUME inTurn = TRUE, callsLost' = 0
      PROVE  /\ \A d \in Calls \ {c} : call[d] = E!H!Done
             /\ HoldsIs(r, server', expired)
             /\ r.pc # "rotated" => kept' \in {0, server'.token}
  <2>1. \A d \in Calls : call[d] = E!H!Done
    BY <1>3 DEF E!H!Send
  <2>2. kept \in {0, server.token}
    BY <1>3, <2>1, BrowserTerms DEF BrowserInv, InTurnIs, E!H!Send
  <2> QED BY <2>1, <2>2 DEF HoldsIs, E!H!Send
<1> HIDE DEF r
<1> QED BY <1>1, <1>2, <1>3, RequestSteps DEF BrowserInv, BrowserTypes, E!H!Send

LEMMA ServeKeeps == ASSUME BrowserInv, NEW c \in Calls, E!H!Serve(c) PROVE BrowserInv'
<1>0. call[c].pc = "sent" /\ call[c] \in Carried /\ call[c] # E!H!Done
  BY ARequest DEF E!H!Serve
<1>1. PICK p \in {"unauthorized", "ok", "refused"} :
        /\ call' = [call EXCEPT ![c] = [call[c] EXCEPT !.pc = p]]
        /\ p = "unauthorized" => call[c].token = 0 \/ call[c].token \in expired \/ server.live = FALSE
        /\ p # "ok" => ran' = ran
        /\ p = "ok" => ran' = [ran EXCEPT ![c] = IF @ = 2 THEN 2 ELSE @ + 1]
  BY DEF E!H!Serve, E!H!Becomes, BrowserInv, BrowserTypes
<1> DEFINE r == [call[c] EXCEPT !.pc = p]
<1>2. r \in Carried /\ r.pc = p /\ r.token = call[c].token /\ r.try = call[c].try
  BY <1>0 DEF Carried
<1>3. ran' \in [Calls -> 0 .. 2] /\ \A d \in Calls \ {c} : ran'[d] = ran[d]
  BY <1>1 DEF BrowserInv, BrowserTypes
<1>4. c \in Posts => UnrunIs(r, ran'[c])
  BY <1>0, <1>1, <1>2, ARequest DEF UnrunIs, BrowserInv, BrowserTypes
<1>5. ASSUME inTurn = TRUE, callsLost' = 0
      PROVE  /\ \A d \in Calls \ {c} : call[d] = E!H!Done
             /\ HoldsIs(r, server', expired)
             /\ r.pc # "rotated" => kept' \in {0, server'.token}
  <2>1. callsLost = 0 /\ server' = server /\ kept' = kept
    BY <1>5 DEF E!H!Serve
  <2>2. /\ \A d \in Calls \ {c} : call[d] = E!H!Done
        /\ HoldsIs(call[c], server, expired) /\ kept \in {0, server.token}
    BY <1>0, <1>5, <2>1, OneWaits
  <2>3. server.token # 0
    BY DEF BrowserInv, BrowserTypes
  <2> QED BY <1>0, <1>1, <1>2, <2>1, <2>2, <2>3 DEF HoldsIs
<1> HIDE DEF r
<1>6. call' = [call EXCEPT ![c] = r]
  BY <1>1 DEF r
<1> QED BY <1>2, <1>3, <1>4, <1>5, <1>6, RequestSteps DEF BrowserInv, BrowserTypes, E!H!Serve

LEMMA LoseKeeps == ASSUME BrowserInv, NEW c \in Calls, E!H!Lose(c) PROVE BrowserInv'
<1> DEFINE r == [call[c] EXCEPT !.pc = "broken"]
<1>1. call[c].pc # "done" /\ callsLost' \in 0 .. MaxLosses /\ callsLost' # 0
  BY BrowserConstants DEF E!H!Lose, BrowserInv, BrowserTypes
<1>2. r \in Carried /\ r.pc = "broken"
  <2>1. call[c] \in Carried
    BY <1>1, ARequest
  <2> QED BY <2>1 DEF Carried
<1>3. call' = [call EXCEPT ![c] = r]
  BY DEF E!H!Lose, E!H!Becomes
<1>4. c \in Posts => UnrunIs(r, ran'[c])
  BY <1>2, ARequest DEF UnrunIs, E!H!Lose
<1> HIDE DEF r
<1> QED BY <1>1, <1>2, <1>3, <1>4, RequestSteps DEF BrowserInv, BrowserTypes, E!H!Lose

\* A request that ends, with or without the session of the storage
LEMMA EndKeeps ==
  ASSUME BrowserInv, NEW c \in Calls, call[c].pc \notin {"done", "rotated"},
         call' = [call EXCEPT ![c] = E!H!Done],
         kept' \in {0, kept}, UNCHANGED <<server, expired, ran, inTurn, callsLost>>
  PROVE  BrowserInv'
<1>1. c \in Posts => UnrunIs(E!H!Done, ran'[c])
  BY ARequest, BrowserTerms DEF UnrunIs
<1>2. ASSUME inTurn = TRUE, callsLost' = 0
      PROVE  /\ \A d \in Calls \ {c} : call[d] = E!H!Done
             /\ HoldsIs(E!H!Done, server', expired)
             /\ E!H!Done.pc # "rotated" => kept' \in {0, server'.token}
  BY <1>2, ARequest, OneWaits DEF HoldsIs
<1>3. kept' \in 0 .. MaxToken
  BY BrowserConstants DEF BrowserInv, BrowserTypes
<1> QED BY <1>1, <1>2, <1>3, RequestSteps DEF BrowserInv, BrowserTypes

LEMMA BrokenKeeps == ASSUME BrowserInv, NEW c \in Calls, E!H!Broken(c) PROVE BrowserInv'
<1>0. call[c].pc = "broken" /\ call[c] \in Carried /\ call[c] # E!H!Done
  BY ARequest DEF E!H!Broken
<1>1. CASE call' = [call EXCEPT ![c] = E!H!Done]
  <2>1. kept' \in {0, kept} /\ UNCHANGED <<server, expired, ran, inTurn, callsLost>>
    BY DEF E!H!Broken, E!H!Clear
  <2> QED BY <1>0, <1>1, <2>1, EndKeeps
<1>2. CASE /\ c \notin Posts /\ kept' = kept
           /\ call' = [call EXCEPT ![c] = [call[c] EXCEPT !.pc = "sent", !.try = "last", !.token = kept]]
  <2> DEFINE r == [call[c] EXCEPT !.pc = "sent", !.try = "last", !.token = kept]
  <2>1. r \in Carried
    BY <1>0 DEF Carried, BrowserInv, BrowserTypes
  <2>2. ~(inTurn = TRUE /\ callsLost = 0)
    BY <1>0, OneWaits DEF HoldsIs
  <2> HIDE DEF r
  <2>3. call' = [call EXCEPT ![c] = r]
    BY <1>2 DEF r
  <2> QED BY <1>2, <2>1, <2>2, <2>3, RequestSteps DEF E!H!Broken, BrowserInv, BrowserTypes
<1> QED BY <1>1, <1>2 DEF E!H!Broken, E!H!Clear, E!H!Becomes

LEMMA UnauthorizedKeeps == ASSUME BrowserInv, NEW c \in Calls, E!H!Unauthorized(c) PROVE BrowserInv'
<1>0. call[c].pc = "unauthorized" /\ call[c] \in Carried /\ call[c] # E!H!Done
  BY ARequest DEF E!H!Unauthorized
<1>1. CASE call' = [call EXCEPT ![c] = E!H!Done]
  <2>1. kept' \in {0, kept} /\ UNCHANGED <<server, expired, ran, inTurn, callsLost>>
    BY DEF E!H!Unauthorized, E!H!Clear
  <2> QED BY <1>0, <1>1, <2>1, EndKeeps
<1>2. CASE /\ kept # 0 /\ kept' = kept
           /\ call' = [call EXCEPT ![c] =
                         [call[c] EXCEPT !.pc = "refresh", !.try = "refreshed", !.token = kept]]
  <2> DEFINE r == [call[c] EXCEPT !.pc = "refresh", !.try = "refreshed", !.token = kept]
  <2>1. r \in Carried /\ r.pc = "refresh" /\ r.try = "refreshed" /\ r.token = kept
    BY <1>0 DEF Carried, BrowserInv, BrowserTypes
  <2>2. c \in Posts => UnrunIs(r, ran'[c])
    BY <1>0, <2>1, ARequest DEF UnrunIs, E!H!Unauthorized
  <2>3. ASSUME inTurn = TRUE, callsLost' = 0
        PROVE  /\ \A d \in Calls \ {c} : call[d] = E!H!Done
               /\ HoldsIs(r, server', expired)
               /\ r.pc # "rotated" => kept' \in {0, server'.token}
    <3>1. callsLost = 0 /\ server' = server
      BY <2>3 DEF E!H!Unauthorized
    <3> QED BY <1>0, <1>2, <2>1, <2>3, <3>1, OneWaits DEF HoldsIs
  <2> HIDE DEF r
  <2>4. call' = [call EXCEPT ![c] = r]
    BY <1>2 DEF r
  <2> QED BY <1>2, <2>1, <2>2, <2>3, <2>4, RequestSteps DEF E!H!Unauthorized, BrowserInv, BrowserTypes
<1> QED BY <1>1, <1>2 DEF E!H!Unauthorized, E!H!Clear, E!H!Becomes

LEMMA RotateKeeps == ASSUME BrowserInv, NEW c \in Calls, E!H!Rotate(c) PROVE BrowserInv'
<1>0. call[c].pc = "refresh" /\ call[c] \in Carried /\ call[c] # E!H!Done
  BY ARequest DEF E!H!Rotate
<1>1. server.token \in 1 .. MaxToken /\ server.live \in BOOLEAN
  BY DEF BrowserInv, BrowserTypes
<1>2. CASE server.live = TRUE /\ call[c].token = server.token
  <2> DEFINE r == [call[c] EXCEPT !.pc = "rotated", !.token = @ + 1]
  <2>1. server' = [server EXCEPT !.token = @ + 1] /\ call' = [call EXCEPT ![c] = r]
    BY <1>2 DEF E!H!Rotate, E!H!Becomes
  <2>2. /\ server' \in [live : BOOLEAN, token : 1 .. MaxToken]
        /\ server'.token = server.token + 1
    BY <1>1, <2>1, BrowserConstants DEF E!H!Rotate, BrowserInv, BrowserTypes
  <2>3. r \in Carried /\ r.pc = "rotated" /\ r.try = call[c].try /\ r.token = server.token + 1
    <3>1. server.token + 1 \in 0 .. MaxToken
      BY <1>1, BrowserConstants DEF E!H!Rotate
    <3>2. \A n \in 0 .. MaxToken :
            LET t == [call[c] EXCEPT !.pc = "rotated", !.token = n]
            IN  t \in Carried /\ t.pc = "rotated" /\ t.try = call[c].try /\ t.token = n
      BY <1>0 DEF Carried
    <3>3. r = [call[c] EXCEPT !.pc = "rotated", !.token = server.token + 1]
      BY <1>2
    <3> HIDE DEF r
    <3> QED BY <3>1, <3>2, <3>3
  <2>4. c \in Posts => UnrunIs(r, ran'[c])
    BY <1>0, <2>3, ARequest DEF UnrunIs, E!H!Rotate
  <2>5. ASSUME inTurn = TRUE, callsLost' = 0
        PROVE  /\ \A d \in Calls \ {c} : call[d] = E!H!Done
               /\ HoldsIs(r, server', expired)
    <3>1. callsLost = 0
      BY <2>5 DEF E!H!Rotate
    <3> QED BY <1>0, <2>2, <2>3, <2>5, <3>1, OneWaits DEF HoldsIs
  <2> HIDE DEF r
  <2> QED BY <2>1, <2>2, <2>3, <2>4, <2>5, RequestSteps DEF E!H!Rotate, BrowserInv, BrowserTypes
<1>3. CASE ~(server.live = TRUE /\ call[c].token = server.token)
  <2> DEFINE r == [call[c] EXCEPT !.pc = "unauthorized"]
  <2>1. server' = server /\ call' = [call EXCEPT ![c] = r]
    BY <1>1, <1>3 DEF E!H!Rotate, E!H!Becomes
  <2>2. r \in Carried /\ r.pc = "unauthorized" /\ r.try = call[c].try /\ r.token = call[c].token
    BY <1>0 DEF Carried
  <2>3. c \in Posts => UnrunIs(r, ran'[c])
    BY <1>0, <2>2, ARequest DEF UnrunIs, E!H!Rotate
  <2>4. ASSUME inTurn = TRUE, callsLost' = 0
        PROVE  /\ \A d \in Calls \ {c} : call[d] = E!H!Done
               /\ HoldsIs(r, server', expired)
               /\ r.pc # "rotated" => kept' \in {0, server'.token}
    <3>1. callsLost = 0 /\ kept' = kept
      BY <2>4 DEF E!H!Rotate
    <3>2. /\ HoldsIs(call[c], server, expired) /\ kept \in {0, server.token}
          /\ \A d \in Calls \ {c} : call[d] = E!H!Done
      BY <1>0, <2>4, <3>1, OneWaits
    <3>3. call[c].token = server.token /\ server.live = FALSE
      BY <1>0, <1>1, <1>3, <3>2 DEF HoldsIs
    <3> QED BY <1>0, <2>1, <2>2, <3>1, <3>2, <3>3 DEF HoldsIs
  <2> HIDE DEF r
  <2> QED BY <2>1, <2>2, <2>3, <2>4, RequestSteps DEF E!H!Rotate, BrowserInv, BrowserTypes
<1> QED BY <1>2, <1>3

LEMMA RefreshedKeeps == ASSUME BrowserInv, NEW c \in Calls, E!H!Refreshed(c) PROVE BrowserInv'
<1> DEFINE r == [call[c] EXCEPT !.pc = "sent"]
<1>0. call[c].pc = "rotated" /\ call[c] \in Carried /\ call[c] # E!H!Done
  BY ARequest DEF E!H!Refreshed
<1>1. r \in Carried /\ r.pc = "sent" /\ r.token = call[c].token /\ r.try = call[c].try
  BY <1>0 DEF Carried
<1>2. c \in Posts => UnrunIs(r, ran'[c])
  BY <1>0, <1>1, ARequest DEF UnrunIs, E!H!Refreshed
<1>3. call' = [call EXCEPT ![c] = r] /\ kept' = call[c].token /\ kept' \in 0 .. MaxToken
  BY <1>0 DEF E!H!Refreshed, E!H!Becomes, Carried
<1>4. ASSUME inTurn = TRUE, callsLost' = 0
      PROVE  /\ \A d \in Calls \ {c} : call[d] = E!H!Done
             /\ HoldsIs(r, server', expired)
             /\ r.pc # "rotated" => kept' \in {0, server'.token}
  <2>1. callsLost = 0 /\ server' = server
    BY <1>4 DEF E!H!Refreshed
  <2> QED BY <1>0, <1>1, <1>3, <1>4, <2>1, OneWaits DEF HoldsIs
<1> HIDE DEF r
<1> QED BY <1>1, <1>2, <1>3, <1>4, RequestSteps DEF E!H!Refreshed, BrowserInv, BrowserTypes

LEMMA BrowserNext == BrowserInv /\ [E!H!Next]_(E!H!vars) => BrowserInv'
<1> SUFFICES ASSUME BrowserInv, [E!H!Next]_(E!H!vars) PROVE BrowserInv'
  OBVIOUS
<1>1. CASE E!H!Expire
  <2>1. BrowserTypes'
    <3>1. server.token \in 0 .. MaxToken /\ kept \in 0 .. MaxToken
      BY BrowserConstants DEF BrowserInv, BrowserTypes
    <3>2. expired' \subseteq 0 .. MaxToken
      BY <1>1, <3>1 DEF E!H!Expire, BrowserInv, BrowserTypes
    <3> QED BY <1>1, <3>2 DEF E!H!Expire, BrowserInv, BrowserTypes
  <2>2. \A c \in Posts : UnrunIs(call'[c], ran'[c])
    BY <1>1 DEF E!H!Expire, BrowserInv
  <2>3. expired \subseteq expired'
    BY <1>1 DEF E!H!Expire
  <2>4. inTurn' = TRUE /\ callsLost' = 0 => InTurnIs'
    BY <1>1, <2>3 DEF E!H!Expire, BrowserInv, InTurnIs, HoldsIs
  <2> QED BY <2>1, <2>2, <2>4 DEF BrowserInv
<1>2. CASE E!H!Revoke
  <2>1. /\ server' \in [live : BOOLEAN, token : 1 .. MaxToken]
        /\ server'.token = server.token /\ server'.live = FALSE
    BY <1>2 DEF E!H!Revoke, BrowserInv, BrowserTypes
  <2>2. BrowserTypes'
    BY <1>2, <2>1 DEF E!H!Revoke, BrowserInv, BrowserTypes
  <2>3. \A c \in Posts : UnrunIs(call'[c], ran'[c])
    BY <1>2 DEF E!H!Revoke, BrowserInv
  <2>4. inTurn' = TRUE /\ callsLost' = 0 => InTurnIs'
    BY <1>2, <2>1 DEF E!H!Revoke, BrowserInv, InTurnIs, HoldsIs
  <2> QED BY <2>2, <2>3, <2>4 DEF BrowserInv
<1>3. ASSUME NEW c \in Calls, E!H!Received(c) \/ E!H!Refused(c) PROVE BrowserInv'
  <2>1. /\ call[c].pc \notin {"done", "rotated"} /\ call' = [call EXCEPT ![c] = E!H!Done]
        /\ kept' \in {0, kept} /\ UNCHANGED <<server, expired, ran, inTurn, callsLost>>
    BY <1>3 DEF E!H!Received, E!H!Refused, E!H!Clear, E!H!Becomes
  <2> QED BY <2>1, EndKeeps
<1>4. CASE UNCHANGED E!H!vars
  BY <1>4 DEF E!H!vars, BrowserInv, BrowserTypes, UnrunIs, InTurnIs, HoldsIs
<1> QED
  BY <1>1, <1>2, <1>3, <1>4, SendKeeps, ServeKeeps, LoseKeeps, BrokenKeeps, UnauthorizedKeeps,
     RotateKeeps, RefreshedKeeps DEF E!H!Next

LEMMA BrowserHolds == BrowserInv => E!H!TypeOK /\ E!H!PostsRunOnce /\ E!H!PresentTokenIsHeld
<1> SUFFICES ASSUME BrowserInv PROVE E!H!TypeOK /\ E!H!PostsRunOnce /\ E!H!PresentTokenIsHeld
  OBVIOUS
<1>1. E!H!TypeOK
  BY DEF BrowserInv, BrowserTypes, E!H!TypeOK, E!H!Waiting, Carried
<1>2. E!H!PostsRunOnce
  BY DEF BrowserInv, UnrunIs, E!H!PostsRunOnce
<1>3. E!H!PresentTokenIsHeld
  BY BrowserTerms DEF BrowserInv, BrowserTypes, InTurnIs, E!H!PresentTokenIsHeld, E!H!Waiting
<1> QED BY <1>1, <1>2, <1>3

\* A session ends in the browser for a cause, as long as requests wait for one
\* another and nothing is lost.
LEMMA BrowserSignsOut ==
  ASSUME BrowserInv, [E!H!Next]_(E!H!vars), inTurn = TRUE, callsLost = 0, kept # 0, kept' = 0
  PROVE  \/ server.live = FALSE
         \/ \E c \in Calls :
              /\ E!H!Waiting(c) /\ call[c].try = "refreshed" /\ call[c].token = server.token
              /\ call[c].pc = "refused" \/ call[c].token \in expired
<1>1. PICK c \in Calls : E!H!Refused(c) \/ E!H!Broken(c) \/ E!H!Unauthorized(c) \/ E!H!Refreshed(c)
  BY DEF E!H!Next, E!H!vars, E!H!Expire, E!H!Revoke, E!H!Send, E!H!Serve, E!H!Lose, E!H!Received, E!H!Rotate
<1>2. call[c].pc # "done"
  BY <1>1 DEF E!H!Refused, E!H!Broken, E!H!Unauthorized, E!H!Refreshed
<1>3. HoldsIs(call[c], server, expired) /\ call[c] # E!H!Done
  BY <1>2, ARequest, OneWaits
<1>4. server.token # 0
  BY DEF BrowserInv, BrowserTypes
<1>5. call[c].try = "refreshed" /\ call[c].pc \in {"refused", "unauthorized"}
  BY <1>1, <1>3, <1>4 DEF HoldsIs, E!H!Refused, E!H!Broken, E!H!Unauthorized, E!H!Refreshed, E!H!Clear
<1> QED BY <1>3, <1>5 DEF HoldsIs, E!H!Waiting

\* SignedOutForCause of one step
LEMMA BrowserStay ==
  BrowserInv /\ [E!H!Next]_(E!H!vars) =>
    [inTurn /\ callsLost = 0 /\ kept # 0 /\ kept' = 0 =>
       \/ ~server.live
       \/ \E c \in Calls :
            /\ E!H!Waiting(c) /\ call[c].try = "refreshed" /\ call[c].token = server.token
            /\ call[c].pc = "refused" \/ call[c].token \in expired]_kept
<1> SUFFICES ASSUME BrowserInv, [E!H!Next]_(E!H!vars), inTurn, callsLost = 0, kept # 0, kept' = 0
             PROVE  \/ ~server.live
                    \/ \E c \in Calls :
                         /\ E!H!Waiting(c) /\ call[c].try = "refreshed"
                         /\ call[c].token = server.token
                         /\ call[c].pc = "refused" \/ call[c].token \in expired
  OBVIOUS
<1>1. inTurn = TRUE
  BY DEF BrowserInv, BrowserTypes
<1> QED BY <1>1, BrowserSignsOut

-----------------------------------------------------------------------------
(***************************************************************************)
(* The scan of blocks: a transfer further below the cursor than the scan   *)
(* goes back is recorded, or about to be, with all of its confirmations.   *)
(***************************************************************************)
LEMMA ScanConstants ==
  /\ MaxScanFaults \in Nat
  /\ Confirmed \in Nat \ {0}
  /\ MaxHeight \in Nat \ {0}
  BY ServicesAssumption

ScanInv ==
  /\ E!E!TypeOK /\ cursor <= height /\ block <= height
  /\ scan = E!E!Idle \/ scan \in [pc : {"record"}, confirmations : 1 .. MaxHeight]
  /\ ~dropped /\ 0 < block /\ block < cursor - Confirmed =>
       /\ scan = E!E!Idle => depositRow = Confirmed
       /\ scan # E!E!Idle => scan.confirmations >= Confirmed

LEMMA ScanInit == E!E!Init => ScanInv
<1> SUFFICES ASSUME E!E!Init PROVE ScanInv
  OBVIOUS
<1>1. /\ height = 1 /\ block = 0 /\ cursor = 0 /\ scan = E!E!Idle /\ depositRow = 0
      /\ dropped = FALSE /\ scanFaults = 0
  BY DEF E!E!Init
<1>2. Confirmed \in Nat \ {0} /\ MaxHeight \in Nat \ {0} /\ MaxScanFaults \in Nat
  BY ScanConstants
<1>3. E!E!TypeOK
  <2>1. /\ height \in 1 .. MaxHeight /\ block \in 0 .. MaxHeight /\ cursor \in 0 .. MaxHeight
        /\ depositRow \in 0 .. Confirmed /\ scanFaults \in 0 .. MaxScanFaults
    BY <1>1, <1>2
  <2>2. dropped \in BOOLEAN
    BY <1>1
  <2> QED BY <1>1, <2>1, <2>2 DEF E!E!TypeOK
<1>4. cursor <= height /\ block <= height /\ ~(0 < block)
  BY <1>1
<1> QED BY <1>1, <1>3, <1>4 DEF ScanInv

LEMMA ScanNext == ScanInv /\ [E!E!Next]_(E!E!vars) => ScanInv'
<1> SUFFICES ASSUME ScanInv, [E!E!Next]_(E!E!vars) PROVE ScanInv'
  OBVIOUS
<1>0. /\ Confirmed \in Nat \ {0} /\ MaxHeight \in Nat \ {0} /\ MaxScanFaults \in Nat
      /\ height \in Nat /\ block \in Nat /\ cursor \in Nat /\ depositRow \in Nat /\ scanFaults \in Nat
  BY ScanConstants DEF ScanInv, E!E!TypeOK
<1>1. CASE UNCHANGED E!E!vars
  BY <1>1 DEF E!E!vars, ScanInv, E!E!TypeOK
<1>2. CASE E!E!Mined
  BY <1>0, <1>2 DEF E!E!Mined, ScanInv, E!E!TypeOK
<1>3. CASE E!E!Transferred
  BY <1>0, <1>3 DEF E!E!Transferred, ScanInv, E!E!TypeOK
<1>4. CASE E!E!Reorganised
  BY <1>0, <1>4 DEF E!E!Reorganised, ScanInv, E!E!TypeOK
<1>5. CASE E!E!Fetch
  <2>1. PICK tip \in {E!E!Largest(height - 1, 1), height} :
          /\ cursor' = tip
          /\ scan' = IF block > 0 /\ E!E!ScanStart(tip) <= block /\ block <= tip
                     THEN [pc |-> "record", confirmations |-> tip - block + 1]
                     ELSE E!E!Idle
    BY <1>5 DEF E!E!Fetch
  <2>2. scan = E!E!Idle /\ UNCHANGED <<height, block, depositRow, dropped, scanFaults>>
    BY <1>5 DEF E!E!Fetch
  <2>3. tip \in 1 .. MaxHeight /\ tip <= height
    BY <1>0 DEF E!E!Largest, ScanInv, E!E!TypeOK
  <2>4. CASE block > 0 /\ E!E!ScanStart(tip) <= block /\ block <= tip
    <3>1. /\ scan' = [pc |-> "record", confirmations |-> tip - block + 1]
          /\ scan'.confirmations = tip - block + 1 /\ scan' # E!E!Idle
      BY <2>1, <2>4 DEF E!E!Idle
    <3>2. tip - block + 1 \in 1 .. MaxHeight
      BY <1>0, <2>3, <2>4
    <3>3. block < tip - Confirmed => tip - block + 1 >= Confirmed
      BY <1>0, <2>3
    <3> QED BY <1>0, <2>1, <2>2, <2>3, <3>1, <3>2, <3>3 DEF ScanInv, E!E!TypeOK
  <2>5. CASE ~(block > 0 /\ E!E!ScanStart(tip) <= block /\ block <= tip)
    <3>1. scan' = E!E!Idle
      BY <2>1, <2>5
    <3>2. ASSUME 0 < block, block < tip - Confirmed
          PROVE  block < cursor - Confirmed
      <4>1. block <= tip /\ ~(E!E!ScanStart(tip) <= block)
        BY <1>0, <2>3, <2>5, <3>2
      <4>2. CASE cursor > 0 /\ cursor <= tip
        <5>1. E!E!ScanStart(tip) = E!E!Largest(cursor - Confirmed, 0)
          BY <4>2 DEF E!E!ScanStart
        <5> QED BY <1>0, <4>1, <5>1 DEF E!E!Largest
      <4>3. CASE ~(cursor > 0 /\ cursor <= tip)
        BY <1>0, <4>1, <4>3 DEF E!E!ScanStart
      <4> QED BY <4>2, <4>3
    <3> QED BY <1>0, <2>1, <2>2, <2>3, <3>1, <3>2 DEF ScanInv, E!E!TypeOK
  <2> QED BY <2>4, <2>5
<1>6. CASE E!E!Record
  <2>1. /\ scan # E!E!Idle /\ scan' = E!E!Idle
        /\ depositRow' = E!E!Smallest(scan.confirmations, Confirmed)
        /\ UNCHANGED <<height, block, cursor, dropped, scanFaults>>
    BY <1>6 DEF E!E!Record, E!E!Idle
  <2>2. scan.confirmations \in 1 .. MaxHeight
    BY <2>1 DEF ScanInv
  <2>3. depositRow' \in 0 .. Confirmed /\ (scan.confirmations >= Confirmed => depositRow' = Confirmed)
    BY <1>0, <2>1, <2>2 DEF E!E!Smallest
  <2> QED BY <1>0, <2>1, <2>3 DEF ScanInv, E!E!TypeOK
<1>7. CASE E!E!Dropped
  BY <1>0, <1>7 DEF E!E!Dropped, ScanInv, E!E!TypeOK
<1>8. CASE E!E!Forgotten
  BY <1>0, <1>8 DEF E!E!Forgotten, ScanInv, E!E!TypeOK
<1> QED BY <1>1, <1>2, <1>3, <1>4, <1>5, <1>6, <1>7, <1>8 DEF E!E!Next

LEMMA ScanHolds == ScanInv => E!E!TypeOK /\ E!E!NothingSlipsThrough
<1> SUFFICES ASSUME ScanInv PROVE E!E!TypeOK /\ E!E!NothingSlipsThrough
  OBVIOUS
<1>0. Confirmed \in Nat /\ height \in Nat /\ block \in Nat /\ cursor \in Nat /\ cursor <= height
  BY ScanConstants DEF ScanInv, E!E!TypeOK
<1>1. ASSUME 0 < block, block < E!E!ScanStart(height)
      PROVE  block < cursor - Confirmed
  BY <1>0, <1>1 DEF E!E!ScanStart, E!E!Largest
<1> QED BY <1>1 DEF ScanInv, E!E!NothingSlipsThrough

-----------------------------------------------------------------------------
(***************************************************************************)
(* The order ticket: unless a reload failed, what stems from one intention *)
(* has one request id; and while the form has not changed by itself, what  *)
(* was sent with the pending id is what the form shows.                    *)
(***************************************************************************)
LEMMA TicketConstants ==
  /\ MaxIds \in Nat
  /\ MaxEdits \in Nat
  /\ MaxTicketLosses \in Nat
  /\ Terms # {}
  /\ Stops # {}
  BY ServicesAssumption

Submitted(s) == s # E!T!Idle

OneInv ==
  /\ \A o, p \in orders : o.id = p.id => o = p
  /\ \A o \in orders : o.intent <= intent
  /\ Submitted(submission) => submission.intent <= intent
  /\ ~misled =>
       /\ \A o, p \in orders : o.intent = p.intent => o.id = p.id
       /\ Submitted(submission) =>
            \A o \in orders : o.intent = submission.intent => o.id = submission.id
       /\ pending # 0 =>
            /\ \A o \in orders : o.intent = intent => o.id = pending
            /\ Submitted(submission) /\ submission.intent = intent => submission.id = pending
       /\ pending = 0 /\ submission.pc # "reload" =>
            /\ \A o \in orders : o.intent # intent
            /\ Submitted(submission) => submission.intent # intent

ShownInv ==
  /\ pending # 0 /\ ~drifted =>
       /\ \A o \in orders : o.id = pending => o.form = ticket
       /\ Submitted(submission) /\ submission.id = pending => submission.form = ticket
  /\ submission.pc = "sent" /\ ~submission.drifted =>
       \A o \in orders : o.id = submission.id => o.form = submission.form
  /\ submission.pc \in {"accepted", "reload"} /\ ~submission.drifted =>
       \E o \in orders : o.id = submission.id /\ o.form = submission.form
  /\ submission.pc = "reload" => pending = 0
  /\ E!T!QueuedAsShown

Submissions == [pc : {"sent", "accepted", "refused", "reload"}, id : Nat, form : E!T!Tickets,
                intent : Nat, drifted : BOOLEAN]

TicketTypes ==
  /\ ticket \in E!T!Tickets /\ pending \in 0 .. ids /\ ids \in 0 .. MaxIds
  /\ submission \in {E!T!Idle} \cup Submissions
  /\ Submitted(submission) => submission.id \in 1 .. ids
  /\ orders \subseteq [id : Nat, form : E!T!Tickets, intent : Nat]
  /\ \A o \in orders : o.id \in 1 .. ids
  /\ told \in {E!T!Nothing, [said |-> "rejected"]}
            \cup [said : {"queued"}, id : 1 .. ids, form : E!T!Tickets, drifted : BOOLEAN]
  /\ intent \in Nat /\ drifted \in BOOLEAN /\ misled \in BOOLEAN
  /\ edits \in 0 .. MaxEdits /\ ticketLost \in 0 .. MaxTicketLosses

TicketInv == TicketTypes /\ OneInv /\ ShownInv

LEMMA SomeTicket ==
  /\ \A f \in E!T!Tickets : f.terms \in Terms /\ f.stops \in Stops
  /\ (CHOOSE x \in E!T!Tickets : TRUE) \in E!T!Tickets
<1>1. PICK a \in Terms, b \in Stops : TRUE
  BY TicketConstants
<1>2. [terms |-> a, stops |-> b] \in E!T!Tickets
  BY DEF E!T!Tickets
<1> QED BY <1>2 DEF E!T!Tickets

LEMMA TicketInit == E!T!Init => TicketInv
<1> SUFFICES ASSUME E!T!Init PROVE TicketInv
  OBVIOUS
<1>1. /\ ticket \in E!T!Tickets /\ pending = 0 /\ ids = 0
      /\ submission = E!T!Idle /\ orders = {} /\ intent = 0 /\ told = E!T!Nothing
      /\ drifted = FALSE /\ misled = FALSE /\ edits = 0 /\ ticketLost = 0
  BY DEF E!T!Init
<1>2. MaxIds \in Nat /\ MaxEdits \in Nat /\ MaxTicketLosses \in Nat
  BY TicketConstants
<1>3. TicketTypes
  <2>1. /\ pending \in 0 .. ids /\ ids \in 0 .. MaxIds /\ intent \in Nat
        /\ edits \in 0 .. MaxEdits /\ ticketLost \in 0 .. MaxTicketLosses
    BY <1>1, <1>2
  <2>2. drifted \in BOOLEAN /\ misled \in BOOLEAN
    BY <1>1
  <2> QED BY <1>1, <2>1, <2>2 DEF TicketTypes, Submitted
<1>4. OneInv
  BY <1>1 DEF OneInv, Submitted
<1>5. submission.pc = "idle" /\ told.said = "nothing"
  BY <1>1 DEF E!T!Idle, E!T!Nothing
<1>6. ShownInv
  BY <1>1, <1>5 DEF ShownInv, E!T!QueuedAsShown
<1> QED BY <1>3, <1>4, <1>6 DEF TicketInv

\* What a submission is, and is not
LEMMA SubmissionIs ==
  /\ \A s \in Submissions : Submitted(s) /\ s.pc # "idle"
  /\ ~Submitted(E!T!Idle) /\ E!T!Idle.pc = "idle"
  BY DEF Submissions, Submitted, E!T!Idle

\* A submission that goes on: only its pc changes.
LEMMA SubmissionGoesOn ==
  ASSUME TicketTypes, submission.pc # "idle",
         NEW pc \in {"sent", "accepted", "refused", "reload"},
         submission' = [submission EXCEPT !.pc = pc]
  PROVE  /\ submission \in Submissions /\ submission' \in Submissions
         /\ submission'.pc = pc /\ submission'.id = submission.id
         /\ submission'.form = submission.form /\ submission'.intent = submission.intent
         /\ submission'.drifted = submission.drifted
         /\ Submitted(submission) /\ Submitted(submission')
<1>1. submission \in Submissions
  BY SubmissionIs DEF TicketTypes
<1>2. /\ submission' \in Submissions
      /\ submission'.pc = pc /\ submission'.id = submission.id
      /\ submission'.form = submission.form /\ submission'.intent = submission.intent
      /\ submission'.drifted = submission.drifted
  BY <1>1 DEF Submissions
<1> QED BY <1>1, <1>2, SubmissionIs

LEMMA TicketNext == TicketInv /\ [E!T!Next]_(E!T!vars) => TicketInv'
<1> SUFFICES ASSUME TicketInv, [E!T!Next]_(E!T!vars) PROVE TicketInv'
  OBVIOUS
<1> USE DEF TicketInv
<1>0. /\ ids \in Nat /\ pending \in Nat /\ intent \in Nat
      /\ MaxIds \in Nat /\ MaxEdits \in Nat /\ MaxTicketLosses \in Nat
      /\ edits \in Nat /\ ticketLost \in Nat /\ edits <= MaxEdits /\ ticketLost <= MaxTicketLosses
      /\ \A o \in orders : o.id \in Nat /\ o.intent \in Nat /\ o.form \in E!T!Tickets
      /\ submission \in {E!T!Idle} \cup Submissions
      /\ Submitted(submission) => submission \in Submissions /\ submission.intent \in Nat
                                  /\ submission.id \in Nat /\ submission.form \in E!T!Tickets
  <2>1. /\ MaxIds \in Nat /\ MaxEdits \in Nat /\ MaxTicketLosses \in Nat
    BY TicketConstants
  <2>2. ids \in Nat /\ intent \in Nat /\ edits \in 0 .. MaxEdits /\ ticketLost \in 0 .. MaxTicketLosses
    BY <2>1 DEF TicketTypes
  <2>3. pending \in Nat
    BY <2>2 DEF TicketTypes
  <2>4. /\ \A o \in orders : o.id \in Nat /\ o.intent \in Nat /\ o.form \in E!T!Tickets
        /\ submission \in {E!T!Idle} \cup Submissions
    BY DEF TicketTypes
  <2>5. Submitted(submission) => submission \in Submissions /\ submission.intent \in Nat
                                  /\ submission.id \in Nat /\ submission.form \in E!T!Tickets
    BY <2>4 DEF Submitted, Submissions
  <2> QED BY <2>1, <2>2, <2>3, <2>4, <2>5
<1>1. CASE UNCHANGED E!T!vars
  BY <1>1 DEF E!T!vars, TicketTypes, OneInv, ShownInv, E!T!QueuedAsShown, Submitted
<1>2. CASE E!T!Edit
  <2>1. /\ edits < MaxEdits /\ edits' = edits + 1 /\ ticket' \in E!T!Tickets
        /\ pending' = 0 /\ intent' = intent + 1 /\ drifted' = FALSE
        /\ UNCHANGED <<ids, submission, orders, told, misled, ticketLost>>
    BY <1>2 DEF E!T!Edit, E!T!OneEdit
  <2>2. TicketTypes'
    <3>1. pending' \in 0 .. ids' /\ intent' \in Nat /\ edits' \in 0 .. MaxEdits
      BY <1>0, <2>1
    <3>2. drifted' \in BOOLEAN
      BY <2>1
    <3> QED BY <2>1, <3>1, <3>2 DEF TicketTypes
  <2>3. OneInv'
    <3>1. \A o \in orders : o.intent <= intent' /\ o.intent # intent'
      BY <1>0, <2>1 DEF OneInv
    <3>2. Submitted(submission) => submission.intent <= intent' /\ submission.intent # intent'
      BY <1>0, <2>1 DEF OneInv
    <3> QED BY <2>1, <3>1, <3>2 DEF OneInv, Submitted
  <2>4. ShownInv'
    BY <2>1 DEF ShownInv, E!T!QueuedAsShown
  <2> QED BY <2>2, <2>3, <2>4
<1>3. CASE E!T!Drift
  <2>1. /\ edits < MaxEdits /\ edits' = edits + 1 /\ ticket' \in E!T!Tickets /\ drifted' = TRUE
        /\ UNCHANGED <<pending, ids, submission, orders, intent, told, misled, ticketLost>>
    BY <1>3 DEF E!T!Drift, E!T!OneEdit
  <2>2. TicketTypes'
    BY <1>0, <2>1 DEF TicketTypes
  <2>3. OneInv'
    BY <2>1 DEF OneInv, Submitted
  <2>4. ShownInv'
    BY <2>1 DEF ShownInv, E!T!QueuedAsShown
  <2> QED BY <2>2, <2>3, <2>4
<1>4. CASE E!T!Submit
  <2>1. /\ submission = E!T!Idle
        /\ submission' = [pc |-> "sent", id |-> pending', form |-> ticket,
                          intent |-> intent, drifted |-> drifted]
        /\ UNCHANGED <<ticket, orders, intent, told, drifted, misled, edits, ticketLost>>
        /\ \/ pending # 0 /\ pending' = pending /\ ids' = ids
           \/ pending = 0 /\ ids < MaxIds /\ ids' = ids + 1 /\ pending' = ids + 1
    BY <1>4 DEF E!T!Submit
  <2>2. /\ pending' \in 1 .. ids' /\ pending' \in Nat /\ ids' \in 0 .. MaxIds /\ ids <= ids'
        /\ 1 .. ids \subseteq 1 .. ids' /\ ids' \in Nat
    BY <1>0, <2>1 DEF TicketTypes
  <2>3. /\ submission' \in Submissions /\ Submitted(submission')
        /\ submission'.pc = "sent" /\ submission'.id = pending' /\ submission'.form = ticket
        /\ submission'.intent = intent /\ submission'.drifted = drifted
    <3>1. submission' \in Submissions
      BY <1>0, <2>1, <2>2 DEF Submissions, TicketTypes
    <3> QED BY <2>1, <3>1, SubmissionIs
  <2>4. TicketTypes'
    <3>1. told' \in {E!T!Nothing, [said |-> "rejected"]}
            \cup [said : {"queued"}, id : 1 .. ids', form : E!T!Tickets, drifted : BOOLEAN]
      BY <2>1, <2>2 DEF TicketTypes
    <3>2. \A o \in orders : o.id \in 1 .. ids'
      BY <2>2 DEF TicketTypes
    <3>3. pending' \in 0 .. ids'
      BY <2>2
    <3> QED BY <2>1, <2>2, <2>3, <3>1, <3>2, <3>3 DEF TicketTypes
  <2>5. CASE pending # 0 /\ pending' = pending /\ ids' = ids
    <3>1. OneInv'
      BY <1>0, <2>1, <2>3, <2>5 DEF OneInv
    <3>2. ShownInv'
      BY <2>1, <2>3, <2>5 DEF ShownInv, E!T!QueuedAsShown
    <3> QED BY <2>4, <3>1, <3>2
  <2>6. CASE pending = 0 /\ ids < MaxIds /\ ids' = ids + 1 /\ pending' = ids + 1
    <3>1. /\ \A o \in orders : o.id # pending' /\ (~misled => o.intent # intent)
          /\ pending' # 0
      <4>1. \A o \in orders : o.id \in 1 .. ids
        BY DEF TicketTypes
      <4>2. submission.pc # "reload"
        BY <2>1, SubmissionIs
      <4> QED BY <1>0, <2>6, <4>1, <4>2 DEF OneInv
    <3>2. OneInv'
      BY <1>0, <2>1, <2>3, <3>1 DEF OneInv
    <3>3. ShownInv'
      BY <2>1, <2>3, <3>1 DEF ShownInv, E!T!QueuedAsShown
    <3> QED BY <2>4, <3>2, <3>3
  <2> QED BY <2>1, <2>5, <2>6
<1>5. CASE E!T!Serve
  <2> DEFINE same == {o \in orders : o.id = submission.id}
             new  == [id |-> submission.id, form |-> submission.form, intent |-> submission.intent]
  <2>1. /\ submission.pc = "sent"
        /\ UNCHANGED <<ticket, pending, ids, intent, told, drifted, misled, edits, ticketLost>>
    BY <1>5 DEF E!T!Serve
  <2>2. PICK pc \in {"accepted", "refused"} :
          /\ submission' = [submission EXCEPT !.pc = pc]
          /\ \/ orders' = orders /\ (pc = "accepted" => same # {})
             \/ same = {} /\ orders' = orders \cup {new}
    BY <1>5 DEF E!T!Serve
  <2>3. /\ submission \in Submissions /\ submission' \in Submissions
        /\ submission'.pc = pc /\ submission'.id = submission.id
        /\ submission'.form = submission.form /\ submission'.intent = submission.intent
        /\ submission'.drifted = submission.drifted
        /\ Submitted(submission) /\ Submitted(submission')
    BY <2>1, <2>2, SubmissionGoesOn
  <2>4. /\ new \in [id : Nat, form : E!T!Tickets, intent : Nat] /\ new.id = submission.id
        /\ new.form = submission.form /\ new.intent = submission.intent
        /\ submission.id \in 1 .. ids
    BY <1>0, <2>3 DEF TicketTypes
  <2>5. /\ orders \subseteq orders'
        /\ \A o \in orders' : o \in orders \/ (o = new /\ same = {} /\ new \in orders')
    BY <2>2
  <2>6. orders' = orders \/ (orders' = orders \cup {new} /\ same = {})
    BY <2>2
  <2> HIDE DEF new
  <2>7. TicketTypes'
    BY <2>1, <2>3, <2>4, <2>5 DEF TicketTypes
  <2>8. OneInv'
    <3>1. CASE orders' = orders
      BY <2>1, <2>3, <3>1 DEF OneInv
    <3>2. CASE orders' = orders \cup {new} /\ \A o \in orders : o.id # submission.id
      <4>1. \A o, p \in orders' : o.id = p.id => o = p
        BY <2>4, <3>2 DEF OneInv
      <4>2. \A o \in orders' : o.intent <= intent
        BY <2>3, <2>4, <3>2 DEF OneInv
      <4>3. ~misled => /\ \A o, p \in orders' : o.intent = p.intent => o.id = p.id
                       /\ \A o \in orders' : o.intent = submission.intent => o.id = submission.id
        BY <2>3, <2>4, <3>2 DEF OneInv
      <4>4. ~misled =>
              /\ pending # 0 => \A o \in orders' : o.intent = intent => o.id = pending
              /\ pending = 0 /\ submission.pc # "reload" => \A o \in orders' : o.intent # intent
        BY <2>3, <2>4, <3>2 DEF OneInv
      <4> QED BY <2>1, <2>3, <4>1, <4>2, <4>3, <4>4 DEF OneInv
    <3> QED BY <2>6, <3>1, <3>2
  <2>9. ShownInv'
    <3>1. pending # 0 /\ ~drifted =>
            /\ \A o \in orders' : o.id = pending => o.form = ticket
            /\ submission.id = pending => submission.form = ticket
      BY <2>3, <2>4, <2>5 DEF ShownInv
    <3>2. ASSUME pc = "accepted", ~submission.drifted
          PROVE  \E o \in orders' : o.id = submission.id /\ o.form = submission.form
      <4>1. CASE same # {}
        <5>1. PICK o \in orders : o.id = submission.id
          BY <4>1
        <5> QED BY <2>1, <2>5, <3>2, <5>1 DEF ShownInv
      <4>2. CASE same = {}
        <5>1. new \in orders'
          BY <2>2, <3>2, <4>2
        <5> QED BY <2>4, <5>1
      <4> QED BY <4>1, <4>2
    <3>3. E!T!QueuedAsShown'
      BY <2>1, <2>5 DEF ShownInv, E!T!QueuedAsShown
    <3> QED BY <2>1, <2>3, <2>2, <3>1, <3>2, <3>3 DEF ShownInv
  <2> QED BY <2>7, <2>8, <2>9
<1>6. CASE E!T!Lose
  <2>1. /\ submission.pc \in {"sent", "accepted", "refused"}
        /\ ticketLost < MaxTicketLosses /\ ticketLost' = ticketLost + 1
        /\ submission' = [submission EXCEPT !.pc = "refused"]
        /\ UNCHANGED <<ticket, pending, ids, orders, intent, told, drifted, misled, edits>>
    BY <1>6 DEF E!T!Lose
  <2>2. /\ submission' \in Submissions /\ Submitted(submission) /\ Submitted(submission')
        /\ submission'.pc = "refused" /\ submission'.id = submission.id
        /\ submission'.form = submission.form /\ submission'.intent = submission.intent
    BY <2>1, SubmissionGoesOn
  <2>3. TicketTypes'
    BY <1>0, <2>1, <2>2 DEF TicketTypes
  <2>4. OneInv'
    BY <2>1, <2>2 DEF OneInv
  <2>5. ShownInv'
    BY <2>1, <2>2 DEF ShownInv, E!T!QueuedAsShown
  <2> QED BY <2>3, <2>4, <2>5
<1>7. CASE E!T!Accepted
  <2>1. /\ submission.pc = "accepted" /\ pending' = 0
        /\ submission' = [submission EXCEPT !.pc = "reload"]
        /\ UNCHANGED <<ids, orders, intent, told, drifted, misled, edits, ticketLost>>
    BY <1>7 DEF E!T!Accepted
  <2>2. ticket' \in E!T!Tickets
    BY <1>7 DEF E!T!Accepted
  <2>3. /\ submission' \in Submissions /\ Submitted(submission) /\ Submitted(submission')
        /\ submission'.pc = "reload" /\ submission'.id = submission.id
        /\ submission'.form = submission.form /\ submission'.intent = submission.intent
        /\ submission'.drifted = submission.drifted
    BY <2>1, SubmissionGoesOn
  <2>4. TicketTypes'
    BY <1>0, <2>1, <2>2, <2>3 DEF TicketTypes
  <2>5. OneInv'
    BY <2>1, <2>3 DEF OneInv
  <2>6. ShownInv'
    BY <2>1, <2>3 DEF ShownInv, E!T!QueuedAsShown
  <2> QED BY <2>4, <2>5, <2>6
<1>8. CASE E!T!Reloaded
  <2>1. /\ submission.pc = "reload" /\ submission' = E!T!Idle
        /\ told' = [said |-> "queued", id |-> submission.id, form |-> submission.form,
                    drifted |-> submission.drifted]
        /\ intent' = intent + 1 /\ drifted' = FALSE
        /\ UNCHANGED <<ticket, pending, ids, orders, misled, edits, ticketLost>>
    BY <1>8 DEF E!T!Reloaded
  <2>2. ~Submitted(submission') /\ submission'.pc = "idle" /\ Submitted(submission)
        /\ submission \in Submissions
    BY <1>0, <2>1, SubmissionIs
  <2>3. pending = 0
    BY <2>1 DEF ShownInv
  <2>4. TicketTypes'
    <3>1. /\ submission.id \in 1 .. ids /\ submission.form \in E!T!Tickets
          /\ submission.drifted \in BOOLEAN
      BY <2>2 DEF TicketTypes, Submissions
    <3>2. told' \in [said : {"queued"}, id : 1 .. ids, form : E!T!Tickets, drifted : BOOLEAN]
      BY <2>1, <3>1
    <3>3. intent' \in Nat /\ drifted' \in BOOLEAN
      <4>1. intent' \in Nat
        BY <1>0, <2>1
      <4>2. drifted' \in BOOLEAN
        BY <2>1
      <4> QED BY <4>1, <4>2
    <3>4. submission' \in {E!T!Idle} \cup Submissions
      BY <2>1
    <3> QED BY <2>1, <2>2, <3>2, <3>3, <3>4 DEF TicketTypes
  <2>5. OneInv'
    <3>1. \A o \in orders : o.intent <= intent' /\ o.intent # intent'
      BY <1>0, <2>1 DEF OneInv
    <3> QED BY <2>1, <2>2, <3>1 DEF OneInv
  <2>6. ShownInv'
    BY <2>1, <2>2, <2>3 DEF ShownInv, E!T!QueuedAsShown
  <2> QED BY <2>4, <2>5, <2>6
<1>9. CASE E!T!ReloadFails
  <2>1. /\ submission.pc = "reload" /\ submission' = E!T!Idle
        /\ ticketLost < MaxTicketLosses /\ ticketLost' = ticketLost + 1
        /\ told' = [said |-> "rejected"] /\ misled' = TRUE
        /\ UNCHANGED <<ticket, pending, ids, orders, intent, drifted, edits>>
    BY <1>9 DEF E!T!ReloadFails
  <2>2. ~Submitted(submission') /\ submission'.pc = "idle" /\ told'.said = "rejected"
    BY <2>1, SubmissionIs
  <2>3. TicketTypes'
    BY <1>0, <2>1, <2>2 DEF TicketTypes
  <2>4. OneInv'
    BY <2>1, <2>2 DEF OneInv
  <2>5. ShownInv'
    BY <2>1, <2>2 DEF ShownInv, E!T!QueuedAsShown
  <2> QED BY <2>3, <2>4, <2>5
<1>10. CASE E!T!Refused
  <2>1. /\ submission.pc = "refused" /\ submission' = E!T!Idle /\ told' = [said |-> "rejected"]
        /\ UNCHANGED <<ticket, pending, ids, orders, intent, drifted, misled, edits, ticketLost>>
    BY <1>10 DEF E!T!Refused
  <2>2. ~Submitted(submission') /\ submission'.pc = "idle" /\ told'.said = "rejected"
    BY <2>1, SubmissionIs
  <2>3. TicketTypes'
    BY <1>0, <2>1, <2>2 DEF TicketTypes
  <2>4. OneInv'
    BY <2>1, <2>2 DEF OneInv
  <2>5. ShownInv'
    BY <2>1, <2>2 DEF ShownInv, E!T!QueuedAsShown
  <2> QED BY <2>3, <2>4, <2>5
<1> QED BY <1>1, <1>2, <1>3, <1>4, <1>5, <1>6, <1>7, <1>8, <1>9, <1>10 DEF E!T!Next

LEMMA TicketHolds == TicketInv => E!T!TypeOK /\ E!T!OneOrderPerForm /\ E!T!QueuedAsShown
<1> SUFFICES ASSUME TicketInv PROVE E!T!TypeOK /\ E!T!OneOrderPerForm /\ E!T!QueuedAsShown
  OBVIOUS
<1>1. pending \in 0 .. MaxIds
  BY TicketConstants DEF TicketInv, TicketTypes
<1>2. submission = E!T!Idle \/ (submission.id \in 1 .. ids /\ submission.form \in E!T!Tickets)
  BY DEF TicketInv, TicketTypes, Submissions, Submitted
<1>3. E!T!TypeOK
  BY <1>1, <1>2 DEF TicketInv, TicketTypes, E!T!TypeOK
<1>4. E!T!OneOrderPerForm
  BY DEF TicketInv, OneInv, E!T!OneOrderPerForm
<1> QED BY <1>3, <1>4 DEF TicketInv, ShownInv

-----------------------------------------------------------------------------
(***************************************************************************)
(* The poller of quotes, of which the types are what a behaviour of the    *)
(* edges relies on.                                                        *)
(***************************************************************************)
LEMMA PollerConstants ==
  /\ MaxOutages \in Nat
  /\ MaxPauses \in Nat
  /\ Stooq \subseteq UNION Batches
  BY ServicesAssumption

PollerInv ==
  /\ E!Y!TypeOK
  /\ poll = E!Y!Idle \/ poll \in [pc : {"crumb", "batch", "failed"}, left : SUBSET Batches,
                                 unresolved : SUBSET E!Y!Names]

LEMMA PollerInit == E!Y!Init => PollerInv
<1> SUFFICES ASSUME E!Y!Init PROVE PollerInv
  OBVIOUS
<1>1. /\ crumb = "none" /\ poll = E!Y!Idle /\ pausing = FALSE /\ backoff = 0 /\ fresh = {}
      /\ down \in BOOLEAN /\ pollOutages = 0
  BY DEF E!Y!Init
<1>2. backoff \in 0 .. MaxPauses /\ pollOutages \in 0 .. MaxOutages
  BY <1>1, PollerConstants
<1>3. pausing \in BOOLEAN
  BY <1>1
<1> QED BY <1>1, <1>2, <1>3 DEF PollerInv, E!Y!TypeOK

LEMMA PollerNext == PollerInv /\ [E!Y!Next]_(E!Y!vars) => PollerInv'
<1> SUFFICES ASSUME PollerInv, [E!Y!Next]_(E!Y!vars) PROVE PollerInv'
  OBVIOUS
<1> DEFINE Polls == [pc : {"crumb", "batch", "failed"}, left : SUBSET Batches,
                     unresolved : SUBSET E!Y!Names]
<1>0. /\ MaxPauses \in Nat /\ MaxOutages \in Nat
      /\ crumb \in {"none", "good", "refused"} /\ pausing \in BOOLEAN /\ down \in BOOLEAN
      /\ poll = E!Y!Idle \/ poll \in Polls
      /\ backoff \in 0 .. MaxPauses /\ fresh \subseteq E!Y!Names /\ pollOutages \in 0 .. MaxOutages
  BY PollerConstants DEF PollerInv, E!Y!TypeOK
<1>a. ASSUME crumb' \in {"none", "good", "refused"}, pausing' \in BOOLEAN, down' \in BOOLEAN,
             poll' = E!Y!Idle \/ poll' \in Polls,
             backoff' \in 0 .. MaxPauses, fresh' \subseteq E!Y!Names, pollOutages' \in 0 .. MaxOutages
      PROVE  PollerInv'
  BY <1>a DEF PollerInv, E!Y!TypeOK
<1>b. \A p \in Polls, pc \in {"crumb", "batch", "failed"} : [p EXCEPT !.pc = pc] \in Polls
  OBVIOUS
<1>c. poll.pc # "idle" => poll \in Polls
  BY <1>0 DEF E!Y!Idle
<1>d. E!Y!Outage => pollOutages' \in 0 .. MaxOutages
  BY <1>0 DEF E!Y!Outage
<1>e. ASSUME E!Y!Fails, poll.pc # "idle"
      PROVE  /\ backoff' \in 0 .. MaxPauses /\ pausing' \in BOOLEAN /\ poll' \in Polls
             /\ fresh' = fresh /\ down' = down
  <2>1. backoff' \in 0 .. MaxPauses
    BY <1>0, <1>e DEF E!Y!Fails
  <2>2. poll' \in Polls
    BY <1>c, <1>e DEF E!Y!Fails
  <2>3. pausing' \in BOOLEAN /\ fresh' = fresh /\ down' = down
    BY <1>e DEF E!Y!Fails
  <2> QED BY <2>1, <2>2, <2>3
<1>1. CASE UNCHANGED E!Y!vars
  BY <1>0, <1>1, <1>a DEF E!Y!vars
<1>2. ASSUME NEW s \in E!Y!Names, E!Y!Ages(s) PROVE PollerInv'
  BY <1>0, <1>2, <1>a DEF E!Y!Ages
<1>3. CASE E!Y!Tick
  <2>1. poll' \in Polls
    BY <1>3 DEF E!Y!Tick
  <2> QED BY <1>0, <1>3, <1>a, <2>1 DEF E!Y!Tick
<1>4. CASE E!Y!PauseEnds
  <2>1. pausing' \in BOOLEAN
    BY <1>4 DEF E!Y!PauseEnds
  <2> QED BY <1>0, <1>4, <1>a, <2>1 DEF E!Y!PauseEnds
<1>5. CASE E!Y!CrumbEnds
  <2>1. crumb' \in {"none", "good", "refused"} /\ pollOutages' \in 0 .. MaxOutages
    BY <1>0, <1>5 DEF E!Y!CrumbEnds
  <2> QED BY <1>0, <1>5, <1>a, <2>1 DEF E!Y!CrumbEnds
<1>6. CASE E!Y!GetCrumb
  <2>1. crumb' \in {"none", "good", "refused"} /\ poll' \in Polls
    BY <1>0, <1>6, <1>b, <1>c DEF E!Y!GetCrumb
  <2> QED BY <1>0, <1>6, <1>a, <2>1 DEF E!Y!GetCrumb
<1>7. CASE E!Y!NoCrumb
  <2>1. poll.pc # "idle" /\ E!Y!Outage /\ E!Y!Fails /\ crumb' = crumb
    BY <1>7 DEF E!Y!NoCrumb
  <2> QED BY <1>0, <1>a, <1>d, <1>e, <2>1
<1>8. ASSUME NEW b \in Batches, E!Y!Answered(b) PROVE PollerInv'
  <2>1. PICK got \in SUBSET b :
          /\ fresh' = fresh \cup got
          /\ poll' = [poll EXCEPT !.left = @ \ {b}, !.unresolved = @ \ got]
    BY <1>8 DEF E!Y!Answered
  <2>2. poll.pc = "batch" /\ UNCHANGED <<crumb, pausing, backoff, down, pollOutages>>
    BY <1>8 DEF E!Y!Answered
  <2>3. poll' \in Polls
    BY <1>c, <2>1, <2>2
  <2>4. fresh' \subseteq E!Y!Names
    BY <1>0, <2>1 DEF E!Y!Names
  <2> QED BY <1>0, <1>a, <2>2, <2>3, <2>4
<1>9. CASE E!Y!BatchFails
  <2>1. poll.pc # "idle" /\ E!Y!Outage /\ E!Y!Fails /\ crumb' = crumb
    BY <1>9 DEF E!Y!BatchFails
  <2> QED BY <1>0, <1>a, <1>d, <1>e, <2>1
<1>10. CASE E!Y!Refused
  <2>1. poll.pc # "idle" /\ E!Y!Fails /\ crumb' = "none" /\ pollOutages' = pollOutages
    BY <1>10 DEF E!Y!Refused
  <2> QED BY <1>0, <1>a, <1>e, <2>1
<1>11. CASE E!Y!AskStooq
  <2>1. /\ poll.pc # "idle" /\ poll' = E!Y!Idle /\ UNCHANGED <<crumb, down>>
        /\ \/ fresh' = fresh \cup (poll.unresolved \cap Stooq) /\ pollOutages' = pollOutages
           \/ pollOutages < MaxOutages /\ pollOutages' = pollOutages + 1 /\ fresh' = fresh
        /\ \/ pausing' = pausing /\ backoff' = backoff
           \/ pausing' = FALSE /\ backoff' = 0
    BY <1>11 DEF E!Y!AskStooq
  <2>2. fresh' \subseteq E!Y!Names
    BY <1>0, <1>c, <2>1
  <2>3. pollOutages' \in 0 .. MaxOutages /\ backoff' \in 0 .. MaxPauses
    BY <1>0, <2>1
  <2>4. pausing' \in BOOLEAN
    BY <1>0, <2>1
  <2> QED BY <1>0, <1>a, <2>1, <2>2, <2>3, <2>4
<1> QED BY <1>1, <1>2, <1>3, <1>4, <1>5, <1>6, <1>7, <1>8, <1>9, <1>10, <1>11 DEF E!Y!Next, E!Y!Steps

LEMMA PollerHolds == PollerInv => E!Y!TypeOK
  BY DEF PollerInv

-----------------------------------------------------------------------------
(***************************************************************************)
(* The cache of answers: a read holds rows of its user, which are the      *)
(* present ones if no read is going when a change commits; and an entry    *)
(* that is out of date is one that a change will look for or has found.    *)
(***************************************************************************)
Own(u) == [of : {u}, row : 0 .. MaxRow]
Asked(g) == get[g] # E!Q!NoRequest

\* A change of u that has not looked for the entry yet, or has found it
Removes(p, u) ==
  put[p] \in [pc : {"committed"}, user : {u}]
             \cup [pc : {"scanned"}, user : {u}, found : {TRUE}]

CurrentInv ==
  apart =>
    /\ \A g \in Gets : Asked(g) /\ get[g].pc = "read" =>
         get[g].answer = [of |-> get[g].user, row |-> rows[get[g].user]]
    /\ \A u \in Customers :
         \/ u \in stuck \/ \E p \in Puts : Removes(p, u)
         \/ cached[u] \in {E!Q!NoAnswer, [of |-> u, row |-> rows[u]]}

CacheTypes ==
  /\ rows \in [Customers -> 0 .. MaxRow]
  /\ DOMAIN cached = E!Q!Entries /\ cached["public"] = E!Q!NoAnswer
  /\ \A u \in Customers : cached[u] \in {E!Q!NoAnswer} \cup Own(u)
  /\ DOMAIN get = Gets /\ DOMAIN put = Puts
  /\ \A g \in Gets : Asked(g) =>
       /\ get[g] \in [pc : {"read", "answered"}, user : Customers,
                      answer : [of : Customers, row : 0 .. MaxRow]]
       /\ get[g].answer.of = get[g].user
  /\ \A p \in Puts : put[p] \in {E!Q!NoRequest} \cup [pc : {"committed"}, user : Customers]
                                 \cup [pc : {"scanned"}, user : Customers, found : BOOLEAN]
  /\ stuck \subseteq E!Q!Entries /\ missed \in 0 .. MaxMissed /\ apart \in BOOLEAN

CacheInv == CacheTypes /\ CurrentInv

LEMMA CacheConstants ==
  /\ MaxRow \in Nat /\ MaxMissed \in Nat
  /\ "nobody" \notin Customers /\ "public" \notin Customers
  BY ServicesAssumption

LEMMA NoAnswerIs ==
  /\ \A u \in Customers : E!Q!NoAnswer \notin Own(u) /\ E!Q!Key(u) = u /\ u \in E!Q!Entries /\ u # "public"
  /\ \A u \in Customers, n \in 0 .. MaxRow : [of |-> u, row |-> n] \in Own(u)
  /\ E!Q!NoRequest.pc = "idle" /\ "public" \in E!Q!Entries
<1>1. \A u \in Customers : E!Q!NoAnswer \notin Own(u)
  BY CacheConstants DEF E!Q!NoAnswer, Own
<1>2. \A u \in Customers : E!Q!Key(u) = u /\ u \in E!Q!Entries /\ u # "public"
  BY CacheConstants DEF E!Q!Key, E!Q!Entries
<1> QED BY <1>1, <1>2 DEF Own, E!Q!NoRequest, E!Q!Entries

LEMMA CacheInit == E!Q!Init => CacheInv
<1> SUFFICES ASSUME E!Q!Init PROVE CacheInv
  OBVIOUS
<1>1. /\ rows = [u \in Customers |-> 0] /\ cached = [k \in E!Q!Entries |-> E!Q!NoAnswer]
      /\ get = [g \in Gets |-> E!Q!NoRequest] /\ put = [p \in Puts |-> E!Q!NoRequest]
      /\ stuck = {} /\ missed = 0 /\ apart \in BOOLEAN
  BY DEF E!Q!Init
<1>2. rows \in [Customers -> 0 .. MaxRow] /\ missed \in 0 .. MaxMissed
  BY <1>1, CacheConstants
<1>3. \A g \in Gets : ~Asked(g)
  BY <1>1 DEF Asked
<1>4. /\ DOMAIN cached = E!Q!Entries /\ cached["public"] = E!Q!NoAnswer
      /\ \A u \in Customers : cached[u] = E!Q!NoAnswer
  BY <1>1, NoAnswerIs
<1>5. CacheTypes
  BY <1>1, <1>2, <1>3, <1>4 DEF CacheTypes
<1>6. CurrentInv
  BY <1>3, <1>4 DEF CurrentInv
<1> QED BY <1>5, <1>6 DEF CacheInv

LEMMA CacheNext == CacheInv /\ [E!Q!Next]_(E!Q!vars) => CacheInv'
<1> SUFFICES ASSUME CacheInv, [E!Q!Next]_(E!Q!vars) PROVE CacheInv'
  OBVIOUS
<1> USE DEF CacheInv
<1>1. CASE UNCHANGED E!Q!vars
  BY <1>1 DEF E!Q!vars, CacheTypes, CurrentInv, Asked, Removes
<1>2. ASSUME NEW g \in Gets, NEW u \in Customers, E!Q!Ask(g, u) PROVE CacheInv'
  <2> DEFINE r == IF cached[u] = E!Q!NoAnswer
                  THEN [pc |-> "read", user |-> u, answer |-> [of |-> u, row |-> rows[u]]]
                  ELSE [pc |-> "answered", user |-> u, answer |-> cached[u]]
  <2>1. /\ get' = [get EXCEPT ![g] = r] /\ UNCHANGED <<rows, cached, put, stuck, missed, apart>>
    BY <1>2, NoAnswerIs DEF E!Q!Ask
  <2>2. /\ r \in [pc : {"read", "answered"}, user : Customers,
                  answer : [of : Customers, row : 0 .. MaxRow]]
        /\ r.answer.of = r.user /\ r.user = u
        /\ r.pc = "read" => r.answer = [of |-> u, row |-> rows[u]]
    BY DEF CacheTypes, Own
  <2> HIDE DEF r
  <2>3. /\ get'[g] = r /\ \A h \in Gets : h # g => get'[h] = get[h] /\ Asked(h)' = Asked(h)
        /\ DOMAIN get' = Gets
    BY <2>1 DEF CacheTypes, Asked
  <2>4. CacheTypes'
    BY <2>1, <2>2, <2>3 DEF CacheTypes
  <2>5. CurrentInv'
    BY <2>1, <2>2, <2>3 DEF CurrentInv, Removes
  <2> QED BY <2>4, <2>5
<1>3. ASSUME NEW g \in Gets, E!Q!Fill(g) PROVE CacheInv'
  <2> DEFINE u == get[g].user
  <2>1. /\ get[g].pc = "read" /\ get' = [get EXCEPT ![g].pc = "answered"]
        /\ cached' = [cached EXCEPT ![E!Q!Key(u)] = get[g].answer]
        /\ UNCHANGED <<rows, put, stuck, missed, apart>>
    BY <1>3 DEF E!Q!Fill
  <2>2. Asked(g)
    BY <2>1, NoAnswerIs DEF Asked
  <2>3. /\ get[g] \in [pc : {"read", "answered"}, user : Customers,
                      answer : [of : Customers, row : 0 .. MaxRow]]
        /\ get[g].answer.of = u /\ u \in Customers
    BY <2>2 DEF CacheTypes
  <2>4. get[g].answer \in Own(u) /\ E!Q!Key(u) = u /\ u \in E!Q!Entries /\ u # "public"
    BY <2>3, NoAnswerIs DEF Own
  <2>5. /\ get'[g] \in [pc : {"read", "answered"}, user : Customers,
                      answer : [of : Customers, row : 0 .. MaxRow]]
        /\ get'[g].answer.of = get'[g].user /\ get'[g].pc = "answered"
        /\ \A h \in Gets : h # g => get'[h] = get[h] /\ Asked(h)' = Asked(h)
        /\ DOMAIN get' = Gets
    BY <2>1, <2>3 DEF CacheTypes, Asked
  <2>6. apart => get[g].answer = [of |-> u, row |-> rows[u]]
    BY <2>1, <2>2 DEF CurrentInv
  <2> HIDE DEF u
  <2>7. /\ cached'[u] = get[g].answer /\ DOMAIN cached' = E!Q!Entries
        /\ \A k \in E!Q!Entries : k # u => cached'[k] = cached[k]
    BY <2>1, <2>4 DEF CacheTypes
  <2>8. /\ cached'["public"] = E!Q!NoAnswer
        /\ \A v \in Customers : cached'[v] \in {E!Q!NoAnswer} \cup Own(v)
    BY <2>4, <2>7, NoAnswerIs DEF CacheTypes
  <2>9. CacheTypes'
    BY <2>1, <2>5, <2>7, <2>8 DEF CacheTypes
  <2>10. CurrentInv'
    BY <2>1, <2>5, <2>6, <2>7, NoAnswerIs DEF CurrentInv, Removes
  <2> QED BY <2>9, <2>10
<1>4. ASSUME NEW g \in Gets, E!Q!Return(g) PROVE CacheInv'
  <2>1. get' = [get EXCEPT ![g] = E!Q!NoRequest] /\ UNCHANGED <<rows, cached, put, stuck, missed, apart>>
    BY <1>4 DEF E!Q!Return
  <2>2. /\ ~Asked(g)' /\ \A h \in Gets : h # g => get'[h] = get[h] /\ Asked(h)' = Asked(h)
        /\ DOMAIN get' = Gets
    BY <2>1 DEF CacheTypes, Asked
  <2>3. CacheTypes'
    BY <2>1, <2>2 DEF CacheTypes
  <2>4. CurrentInv'
    BY <2>1, <2>2 DEF CurrentInv, Removes
  <2> QED BY <2>3, <2>4
<1>5. ASSUME NEW p \in Puts, NEW u \in Customers, E!Q!Commit(p, u) PROVE CacheInv'
  <2>1. /\ put[p] = E!Q!NoRequest /\ rows[u] < MaxRow /\ (apart => E!Q!NoneReads(u))
        /\ rows' = [rows EXCEPT ![u] = @ + 1]
        /\ put' = [put EXCEPT ![p] = [pc |-> "committed", user |-> u]]
        /\ UNCHANGED <<cached, get, stuck, missed, apart>>
    BY <1>5 DEF E!Q!Commit, E!Q!Commits
  <2>2. /\ rows' \in [Customers -> 0 .. MaxRow]
        /\ \A v \in Customers : v # u => rows'[v] = rows[v]
    BY <2>1, CacheConstants DEF CacheTypes
  <2>3. /\ put'[p] = [pc |-> "committed", user |-> u] /\ DOMAIN put' = Puts
        /\ \A q \in Puts : q # p => put'[q] = put[q]
    BY <2>1 DEF CacheTypes
  <2>4. CacheTypes'
    BY <2>1, <2>2, <2>3 DEF CacheTypes, Asked
  <2>5. CurrentInv'
    <3> SUFFICES ASSUME apart PROVE CurrentInv'
      BY <2>1 DEF CurrentInv
    <3>1. \A g \in Gets : Asked(g) => get[g].user # u /\ get[g].user \in Customers
      BY <2>1 DEF E!Q!NoneReads, Asked, CacheTypes
    <3>2. \A g \in Gets : Asked(g)' = Asked(g)
      BY <2>1 DEF Asked
    <3>3. ASSUME NEW v \in Customers
          PROVE  \/ v \in stuck \/ \E q \in Puts : Removes(q, v)'
                 \/ cached[v] \in {E!Q!NoAnswer, [of |-> v, row |-> rows'[v]]}
      <4>1. CASE v = u
        <5>1. Removes(p, v)'
          BY <2>3, <4>1 DEF Removes
        <5> QED BY <5>1
      <4>2. CASE v # u
        <5>1. \A q \in Puts : Removes(q, v) => Removes(q, v)'
          <6> SUFFICES ASSUME NEW q \in Puts, Removes(q, v) PROVE Removes(q, v)'
            OBVIOUS
          <6>1. put[q] # E!Q!NoRequest
            BY NoAnswerIs DEF Removes
          <6>2. put'[q] = put[q]
            BY <2>1, <2>3, <6>1
          <6> QED BY <6>2 DEF Removes
        <5> QED BY <2>2, <4>2, <5>1 DEF CurrentInv
      <4> QED BY <4>1, <4>2
    <3> QED BY <2>1, <2>2, <3>1, <3>2, <3>3 DEF CurrentInv
  <2> QED BY <2>4, <2>5
<1>6. ASSUME NEW p \in Puts, E!Q!Scan(p) PROVE CacheInv'
  <2> DEFINE u == put[p].user
             yes == cached[u] # E!Q!NoAnswer
  <2>1. /\ put[p].pc = "committed" /\ UNCHANGED <<rows, cached, get, stuck, missed, apart>>
        /\ put' = [put EXCEPT ![p] =
              [pc |-> "scanned", user |-> u, found |-> cached[E!Q!Key(u)] # E!Q!NoAnswer]]
    BY <1>6 DEF E!Q!Scan, CacheTypes
  <2>2. put[p] \in [pc : {"committed"}, user : Customers] /\ u \in Customers /\ E!Q!Key(u) = u
    BY <2>1, NoAnswerIs DEF CacheTypes
  <2>3. /\ put'[p] = [pc |-> "scanned", user |-> u, found |-> yes] /\ DOMAIN put' = Puts
        /\ \A q \in Puts : q # p => put'[q] = put[q]
    BY <2>1, <2>2 DEF CacheTypes
  <2>4. yes \in BOOLEAN
    OBVIOUS
  <2> HIDE DEF u
  <2>5. ASSUME yes PROVE put'[p] \in [pc : {"scanned"}, user : {u}, found : {TRUE}]
    <3>1. yes = TRUE
      BY <2>5
    <3> HIDE DEF yes
    <3>2. put'[p] = [pc |-> "scanned", user |-> u, found |-> TRUE]
      BY <2>3, <3>1
    <3> QED BY <3>2
  <2>6. CacheTypes'
    <3>1. put'[p] \in [pc : {"scanned"}, user : Customers, found : BOOLEAN]
      BY <2>2, <2>3, <2>4
    <3> QED BY <2>1, <2>3, <3>1 DEF CacheTypes, Asked
  <2>7. CurrentInv'
    <3> SUFFICES ASSUME apart, NEW v \in Customers
                 PROVE  \/ v \in stuck \/ \E q \in Puts : Removes(q, v)'
                        \/ cached[v] \in {E!Q!NoAnswer, [of |-> v, row |-> rows[v]]}
      BY <2>1 DEF CurrentInv, Asked
    <3>1. CASE cached[v] = E!Q!NoAnswer
      BY <3>1
    <3>2. CASE v = u /\ yes
      <4>1. Removes(p, v)'
        BY <2>5, <3>2 DEF Removes
      <4> QED BY <4>1
    <3>3. CASE v # u
      <4>1. \A q \in Puts : Removes(q, v) => Removes(q, v)'
        <5> SUFFICES ASSUME NEW q \in Puts, Removes(q, v) PROVE Removes(q, v)'
          OBVIOUS
        <5>1. q # p
          BY <3>3 DEF Removes, u
        <5> QED BY <2>3, <5>1 DEF Removes
      <4> QED BY <4>1 DEF CurrentInv
    <3> QED BY <3>1, <3>2, <3>3
  <2> QED BY <2>6, <2>7
<1>7. ASSUME NEW p \in Puts, E!Q!Remove(p) PROVE CacheInv'
  <2> DEFINE u == put[p].user
             gone == IF put[p].found THEN {E!Q!Key(u)} ELSE {}
  <2>1. /\ put[p].pc = "scanned" /\ UNCHANGED <<rows, get, missed, apart>>
        /\ cached' = [k \in E!Q!Entries |-> IF k \in gone THEN E!Q!NoAnswer ELSE cached[k]]
        /\ stuck' = stuck \ gone /\ put' = [put EXCEPT ![p] = E!Q!NoRequest]
    BY <1>7 DEF E!Q!Remove
  <2>2. put[p] \in [pc : {"scanned"}, user : Customers, found : BOOLEAN]
    BY <2>1, NoAnswerIs DEF CacheTypes
  <2>3. /\ put'[p] = E!Q!NoRequest /\ DOMAIN put' = Puts
        /\ \A q \in Puts : q # p => put'[q] = put[q]
    BY <2>1 DEF CacheTypes
  <2>4. u \in Customers /\ E!Q!Key(u) = u
    BY <2>2, NoAnswerIs
  <2>5. gone = {} \/ (gone = {u} /\ put[p].found = TRUE)
    BY <2>2, <2>4
  <2>6. \A v \in Customers : Removes(p, v) => v \in gone
    <3> SUFFICES ASSUME NEW v \in Customers, Removes(p, v) PROVE v \in gone
      OBVIOUS
    <3>1. put[p].found = TRUE /\ put[p].user = v
      BY <2>1 DEF Removes
    <3> QED BY <2>4, <3>1
  <2> HIDE DEF gone
  <2>7. /\ DOMAIN cached' = E!Q!Entries
        /\ \A k \in E!Q!Entries : cached'[k] = IF k \in gone THEN E!Q!NoAnswer ELSE cached[k]
    BY <2>1
  <2>8. CacheTypes'
    <3>1. /\ cached'["public"] = E!Q!NoAnswer
          /\ \A v \in Customers : cached'[v] \in {E!Q!NoAnswer} \cup Own(v)
      BY <2>7, NoAnswerIs DEF CacheTypes
    <3> QED BY <2>1, <2>3, <2>7, <3>1 DEF CacheTypes, Asked
  <2>9. CurrentInv'
    <3> SUFFICES ASSUME apart, NEW v \in Customers
                 PROVE  \/ v \in stuck' \/ \E q \in Puts : Removes(q, v)'
                        \/ cached'[v] \in {E!Q!NoAnswer, [of |-> v, row |-> rows[v]]}
      BY <2>1 DEF CurrentInv, Asked
    <3>1. CASE v \in gone
      BY <2>7, <3>1, NoAnswerIs
    <3>2. CASE v \notin gone
      <4>1. cached'[v] = cached[v] /\ (v \in stuck => v \in stuck')
        BY <2>1, <2>7, <3>2, NoAnswerIs
      <4>2. \A q \in Puts : Removes(q, v) => Removes(q, v)'
        <5> SUFFICES ASSUME NEW q \in Puts, Removes(q, v) PROVE Removes(q, v)'
          OBVIOUS
        <5>1. put'[q] = put[q]
          BY <2>3, <2>6, <3>2
        <5> QED BY <5>1 DEF Removes
      <4> QED BY <4>1, <4>2 DEF CurrentInv
    <3> QED BY <3>1, <3>2
  <2> QED BY <2>8, <2>9
<1>8. ASSUME NEW p \in Puts, E!Q!Miss(p) PROVE CacheInv'
  <2> DEFINE u == put[p].user
  <2>1. /\ put[p] # E!Q!NoRequest /\ missed < MaxMissed /\ missed' = missed + 1
        /\ stuck' = stuck \cup {E!Q!Key(u)} /\ put' = [put EXCEPT ![p] = E!Q!NoRequest]
        /\ UNCHANGED <<rows, cached, get, apart>>
    BY <1>8 DEF E!Q!Miss
  <2>2. u \in Customers
    BY <2>1 DEF CacheTypes
  <2>3. E!Q!Key(u) = u /\ u \in E!Q!Entries
    BY <2>2, NoAnswerIs
  <2>4. /\ put'[p] = E!Q!NoRequest /\ DOMAIN put' = Puts
        /\ \A q \in Puts : q # p => put'[q] = put[q]
    BY <2>1 DEF CacheTypes
  <2>5. missed' \in 0 .. MaxMissed
    BY <2>1, CacheConstants DEF CacheTypes
  <2>6. CacheTypes'
    BY <2>1, <2>3, <2>4, <2>5 DEF CacheTypes, Asked
  <2>7. CurrentInv'
    <3> SUFFICES ASSUME apart, NEW v \in Customers
                 PROVE  \/ v \in stuck' \/ \E q \in Puts : Removes(q, v)'
                        \/ cached[v] \in {E!Q!NoAnswer, [of |-> v, row |-> rows[v]]}
      BY <2>1 DEF CurrentInv, Asked
    <3>1. CASE v = u
      BY <2>1, <2>3, <3>1
    <3>2. CASE v # u
      <4>1. \A q \in Puts : Removes(q, v) => Removes(q, v)'
        <5> SUFFICES ASSUME NEW q \in Puts, Removes(q, v) PROVE Removes(q, v)'
          OBVIOUS
        <5>1. q # p
          BY <3>2 DEF Removes
        <5> QED BY <2>4, <5>1 DEF Removes
      <4> QED BY <2>1, <4>1 DEF CurrentInv
    <3> QED BY <3>1, <3>2
  <2> QED BY <2>6, <2>7
<1>9. ASSUME NEW k \in E!Q!Entries, E!Q!Expire(k) PROVE CacheInv'
  <2>1. /\ cached' = [cached EXCEPT ![k] = E!Q!NoAnswer] /\ stuck' = stuck \ {k}
        /\ UNCHANGED <<rows, get, put, missed, apart>>
    BY <1>9 DEF E!Q!Expire
  <2>2. /\ DOMAIN cached' = E!Q!Entries
        /\ \A j \in E!Q!Entries : cached'[j] = IF j = k THEN E!Q!NoAnswer ELSE cached[j]
    BY <2>1 DEF CacheTypes
  <2>3. CacheTypes'
    <3>1. /\ cached'["public"] = E!Q!NoAnswer
          /\ \A v \in Customers : cached'[v] \in {E!Q!NoAnswer} \cup Own(v)
      BY <2>2, NoAnswerIs DEF CacheTypes
    <3> QED BY <2>1, <2>2, <3>1 DEF CacheTypes, Asked
  <2>4. CurrentInv'
    BY <2>1, <2>2, NoAnswerIs DEF CurrentInv, Asked, Removes
  <2> QED BY <2>3, <2>4
<1> QED BY <1>1, <1>2, <1>3, <1>4, <1>5, <1>6, <1>7, <1>8, <1>9 DEF E!Q!Next

LEMMA CacheHolds == CacheInv => E!Q!TypeOK /\ E!Q!AnswersAreOwn /\ E!Q!CachedIsCurrent
<1> SUFFICES ASSUME CacheInv PROVE E!Q!TypeOK /\ E!Q!AnswersAreOwn /\ E!Q!CachedIsCurrent
  OBVIOUS
<1> USE DEF CacheInv
<1>1. E!Q!TypeOK
  <2>1. \A k \in E!Q!Entries : cached[k] = E!Q!NoAnswer \/ cached[k] \in E!Q!Answers
    BY DEF CacheTypes, E!Q!Entries, Own, E!Q!Answers
  <2> QED BY <2>1 DEF CacheTypes, E!Q!TypeOK
<1>2. E!Q!AnswersAreOwn
  BY NoAnswerIs DEF CacheTypes, Asked, E!Q!AnswersAreOwn
<1>3. E!Q!CachedIsCurrent
  <2> SUFFICES ASSUME apart, NEW u \in Customers
               PROVE  \/ E!Q!Key(u) \in E!Q!Owed \cup stuck
                      \/ cached[E!Q!Key(u)] \in {E!Q!NoAnswer, [of |-> u, row |-> rows[u]]}
    BY DEF E!Q!CachedIsCurrent
  <2>1. E!Q!Key(u) = u
    BY NoAnswerIs
  <2>2. ASSUME NEW p \in Puts, Removes(p, u) PROVE u \in E!Q!Owed
    <3>1. put[p] # E!Q!NoRequest /\ put[p].user = u
      BY <2>2, NoAnswerIs DEF Removes
    <3> QED BY <2>1, <3>1 DEF E!Q!Owed
  <2> QED BY <2>1, <2>2 DEF CurrentInv
<1> QED BY <1>1, <1>2, <1>3

-----------------------------------------------------------------------------
(***************************************************************************)
(* The stream of quotes: attempts go beyond the last one only while the    *)
(* circuit's timer is set.                                                 *)
(***************************************************************************)
LEMMA StreamConstants ==
  /\ MaxBreaks \in Nat
  /\ Attempts \in Nat \ {0}
  BY ServicesAssumption

StreamInv ==
  /\ E!D!TypeOK
  /\ stream # "circuit" => attempt \in 0 .. Attempts

LEMMA StreamInit == E!D!Init => StreamInv
<1> SUFFICES ASSUME E!D!Init PROVE StreamInv
  OBVIOUS
<1>1. stream = "none" /\ attempt = 0 /\ circuit = FALSE /\ breaks = 0
  BY DEF E!D!Init
<1>2. attempt \in 0 .. Attempts /\ attempt \in 0 .. Attempts + 1 /\ breaks \in 0 .. MaxBreaks
  BY <1>1, StreamConstants
<1>3. circuit \in BOOLEAN
  BY <1>1
<1> QED BY <1>1, <1>2, <1>3 DEF StreamInv, E!D!TypeOK

LEMMA StreamNext == StreamInv /\ [E!D!Next]_(E!D!vars) => StreamInv'
<1> SUFFICES ASSUME StreamInv, [E!D!Next]_(E!D!vars) PROVE StreamInv'
  OBVIOUS
<1>0. /\ Attempts \in Nat /\ MaxBreaks \in Nat
      /\ attempt \in Nat /\ breaks \in 0 .. MaxBreaks /\ circuit \in BOOLEAN
  BY StreamConstants DEF StreamInv, E!D!TypeOK
<1>1. CASE UNCHANGED E!D!vars
  BY <1>1 DEF E!D!vars, StreamInv, E!D!TypeOK
<1>2. CASE attempt' = 0 /\ circuit' = FALSE /\ stream' = "connecting" /\ breaks' = breaks
  <2>1. attempt' \in 0 .. Attempts /\ attempt' \in 0 .. Attempts + 1
    BY <1>0, <1>2
  <2>2. circuit' \in BOOLEAN
    BY <1>2
  <2> QED BY <1>0, <1>2, <2>1, <2>2 DEF StreamInv, E!D!TypeOK
<1>3. CASE E!D!Retry
  <2>1. /\ stream = "waiting" /\ stream' \in {"lost", "connecting"}
        /\ UNCHANGED <<circuit, attempt, breaks>>
    BY <1>3 DEF E!D!Retry, E!D!OpenSocket
  <2> QED BY <2>1 DEF StreamInv, E!D!TypeOK
<1>4. CASE E!D!Opens
  <2>1. attempt' \in 0 .. Attempts /\ attempt' \in 0 .. Attempts + 1
    BY <1>0, <1>4 DEF E!D!Opens
  <2> QED BY <1>4, <2>1 DEF E!D!Opens, StreamInv, E!D!TypeOK
<1>5. CASE E!D!Closes
  <2>1. /\ stream # "circuit" /\ breaks < MaxBreaks /\ breaks' = breaks + 1
        /\ attempt' = attempt + 1
        /\ \/ attempt = Attempts /\ stream' = "circuit" /\ circuit' = TRUE
           \/ attempt # Attempts /\ stream' = "waiting" /\ circuit' = circuit
    BY <1>5 DEF E!D!Closes
  <2>2. attempt \in 0 .. Attempts
    BY <2>1 DEF StreamInv
  <2>3. /\ breaks' \in 0 .. MaxBreaks /\ attempt' \in 0 .. Attempts + 1
        /\ attempt # Attempts => attempt' \in 0 .. Attempts
    BY <1>0, <2>1, <2>2
  <2>4. circuit' \in BOOLEAN
    BY <1>0, <2>1
  <2> QED BY <2>1, <2>3, <2>4 DEF StreamInv, E!D!TypeOK
<1>6. CASE E!D!ClockPasses
  <2>1. circuit' \in BOOLEAN
    BY <1>6 DEF E!D!ClockPasses
  <2> QED BY <1>6, <2>1 DEF E!D!ClockPasses, StreamInv, E!D!TypeOK
<1> QED BY <1>1, <1>2, <1>3, <1>4, <1>5, <1>6
        DEF E!D!Next, E!D!Timers, E!D!Connect, E!D!CircuitEnds, E!D!OpenSocket

LEMMA StreamHolds == StreamInv => E!D!TypeOK
  BY DEF StreamInv

-----------------------------------------------------------------------------
(***************************************************************************)
(* The lists of an account: if an account is chosen only when nothing is   *)
(* on the way, all that comes is of the default account, which is shown    *)
(* but between a choice and the first that comes after it; and on the page *)
(* of orders and positions every load on the way is that of what is shown. *)
(***************************************************************************)
AllOf(a) ==
  /\ snapshotRead \in {E!P!None, a}
  /\ \A i \in 1 .. Len(events) : events[i] = a
  /\ \A l \in loads : l.of = a /\ l.wallet \in {"asked", "no", a}

CalmInv ==
  unhurried =>
    /\ choice.pc = "sent" => E!P!Quiet /\ shown = main
    /\ choice.pc # "sent" => AllOf(main)
    /\ choice.pc = "idle" => shown = main
    /\ choice.pc = "done" =>
         /\ choice.left # {"list", "wallet"} => shown = main
         /\ choice.kind = "choose" => choice.of = main
    /\ loads # {} => shown = main

ActivityInv ==
  page = "activity" =>
    /\ \A l \in loads : l.wallet = "no"
    /\ ~unhurried => \A l \in loads : l.of = shown /\ l.tied = TRUE

PageTypes ==
  /\ page \in {"terminal", "activity"} /\ unhurried \in BOOLEAN
  /\ main \in open /\ open \subseteq Accts /\ events \in Seq(Accts)
  /\ shown \in Accts /\ listed \in Accts /\ missing \in BOOLEAN
  /\ snapshotRead \in Accts \cup {E!P!None}
  /\ loads \subseteq [of : Accts, tied : BOOLEAN, wallet : Accts \cup {"asked", "no"}]
  /\ choice \in [pc : {"idle", "sent", "done"}, kind : {"choose", "close"},
                 of : Accts \cup {E!P!None}, left : SUBSET {"list", "wallet"}]
  /\ choice.pc = "idle" <=> choice = E!P!NoChoice
  /\ choice.pc # "idle" => choice.of \in Accts
  /\ choice.pc = "sent" => choice.left = {}

PagesInv == PageTypes /\ CalmInv /\ ActivityInv /\ E!P!ListsFollow

LEMMA PagesConstants == "none" \notin Accts
  BY ServicesAssumption

LEMMA NoChoiceIs ==
  /\ E!P!NoChoice \in [pc : {"idle", "sent", "done"}, kind : {"choose", "close"},
                     of : Accts \cup {E!P!None}, left : SUBSET {"list", "wallet"}]
  /\ E!P!NoChoice.pc = "idle" /\ E!P!None \notin Accts
  BY PagesConstants DEF E!P!NoChoice, E!P!None

LEMMA PagesInit == E!P!Init => PagesInv
<1> SUFFICES ASSUME E!P!Init PROVE PagesInv
  OBVIOUS
<1>1. /\ page \in {"terminal", "activity"} /\ unhurried \in BOOLEAN
      /\ open = Accts /\ main \in Accts /\ events = <<>>
      /\ shown = main /\ listed = main /\ missing = FALSE
      /\ snapshotRead = E!P!None /\ loads = {} /\ choice = E!P!NoChoice
  BY DEF E!P!Init
<1>2. missing \in BOOLEAN
  BY <1>1
<1>3. events \in Seq(Accts) /\ Len(events) = 0
  BY <1>1
<1>4. PageTypes
  BY <1>1, <1>2, <1>3, NoChoiceIs DEF PageTypes
<1>5. AllOf(main)
  BY <1>1, <1>3 DEF AllOf
<1>6. CalmInv
  BY <1>1, <1>5, NoChoiceIs DEF CalmInv
<1>7. ActivityInv /\ E!P!ListsFollow
  BY <1>1 DEF ActivityInv, E!P!ListsFollow
<1> QED BY <1>4, <1>6, <1>7 DEF PagesInv

\* A load and what becomes of the loads when an account is shown
LEMMA LoadIs ==
  ASSUME NEW a \in Accts, NEW tied \in BOOLEAN
  PROVE  /\ E!P!Load(a, tied) \in [of : Accts, tied : BOOLEAN, wallet : Accts \cup {"asked", "no"}]
         /\ E!P!Load(a, tied).of = a /\ E!P!Load(a, tied).wallet \in {"asked", "no"}
         /\ page = "activity" => E!P!Load(a, tied).wallet = "no" /\ E!P!Load(a, tied).tied = tied
<1>1. CASE page = "terminal"
  BY <1>1 DEF E!P!Load
<1>2. CASE page # "terminal"
  BY <1>2 DEF E!P!Load
<1> QED BY <1>1, <1>2

LEMMA ShowIs ==
  ASSUME NEW a \in Accts, NEW ls \in SUBSET loads, PagesInv, E!P!Show(a, ls)
  PROVE  /\ shown' = a
         /\ loads' \subseteq [of : Accts, tied : BOOLEAN, wallet : Accts \cup {"asked", "no"}]
         /\ \A l \in loads' : l \in ls \/ (l.of = a /\ l.wallet \in {"asked", "no"})
         /\ a # shown => \E l \in loads' : l.of = a
         /\ a = shown => loads' = ls
         /\ page = "activity" =>
              /\ \A l \in loads' : l.wallet = "no"
              /\ ~unhurried => \A l \in loads' : l.of = a /\ l.tied = TRUE
<1> DEFINE new == E!P!Load(a, TRUE)
<1>1. /\ new \in [of : Accts, tied : BOOLEAN, wallet : Accts \cup {"asked", "no"}]
      /\ new.of = a /\ new.wallet \in {"asked", "no"}
      /\ page = "activity" => new.wallet = "no" /\ new.tied = TRUE
  BY LoadIs
<1>2. /\ shown' = a
      /\ loads' = IF a = shown THEN ls ELSE {l \in ls : ~l.tied} \cup {new}
  BY DEF E!P!Show
<1>3. /\ loads \subseteq [of : Accts, tied : BOOLEAN, wallet : Accts \cup {"asked", "no"}]
      /\ ActivityInv
  BY DEF PagesInv, PageTypes
<1> HIDE DEF new
<1>4. CASE a = shown
  BY <1>2, <1>3, <1>4 DEF ActivityInv
<1>5. CASE a # shown
  <2>1. loads' = {l \in ls : ~l.tied} \cup {new}
    BY <1>2, <1>5
  <2>2. \A l \in loads' : l \in loads \/ l = new
    BY <2>1
  <2>3. ASSUME page = "activity", ~unhurried, NEW l \in loads' PROVE l = new
    <3>1. CASE l \in ls /\ ~l.tied
      BY <1>3, <2>3, <3>1 DEF ActivityInv
    <3> QED BY <2>1, <3>1
  <2>4. new \in loads'
    BY <2>1
  <2>5. \A l \in loads' : l \in ls \/ l = new
    BY <2>1
  <2>6. page = "activity" =>
          /\ \A l \in loads' : l.wallet = "no"
          /\ ~unhurried => \A l \in loads' : l.of = a /\ l.tied = TRUE
    BY <1>1, <1>3, <2>2, <2>3 DEF ActivityInv
  <2> QED BY <1>1, <1>2, <1>3, <1>5, <2>2, <2>4, <2>5, <2>6
<1> QED BY <1>4, <1>5

\* What comes and shows an account
LEMMA PagesShow ==
  ASSUME PagesInv, NEW a \in Accts, NEW ls \in SUBSET loads, E!P!Show(a, ls),
         UNCHANGED <<page, unhurried, open, main>>,
         unhurried => a = main \/ a = shown,
         unhurried => choice.pc # "sent",
         PageTypes', unhurried => AllOf(main)',
         unhurried =>
           /\ choice'.pc # "sent"
           /\ choice'.pc = "idle" => a = main
           /\ choice'.pc = "done" =>
                /\ choice'.left # {"list", "wallet"} => a = main
                /\ choice'.kind = "choose" => choice'.of = main,
         \/ ls = loads /\ listed' = listed /\ missing' = missing
         \/ unhurried \/ page = "activity" => listed' = shown
  PROVE  PagesInv'
<1>1. /\ shown' = a
      /\ \A l \in loads' : l \in ls \/ (l.of = a /\ l.wallet \in {"asked", "no"})
      /\ a # shown => \E l \in loads' : l.of = a
      /\ a = shown => loads' = ls
      /\ page = "activity" =>
           /\ \A l \in loads' : l.wallet = "no"
           /\ ~unhurried => \A l \in loads' : l.of = a /\ l.tied = TRUE
  BY ShowIs
<1>2. ActivityInv'
  BY <1>1 DEF ActivityInv
<1>3. E!P!ListsFollow'
  <2> SUFFICES ASSUME unhurried \/ page = "activity", a = shown
               PROVE  listed' = shown' \/ missing' \/ \E l \in loads' : l.of = shown'
    BY <1>1 DEF E!P!ListsFollow
  <2> QED BY <1>1 DEF PagesInv, E!P!ListsFollow
<1>4. CalmInv'
  <2> SUFFICES ASSUME unhurried PROVE CalmInv'
    BY DEF CalmInv
  <2>1. ASSUME loads' # {} PROVE a = main
    <3>1. CASE a # shown
      BY <3>1
    <3>2. CASE a = shown
      <4>1. loads # {}
        BY <1>1, <2>1, <3>2
      <4> QED BY <3>2, <4>1 DEF PagesInv, CalmInv
    <3> QED BY <3>1, <3>2
  <2> QED BY <1>1, <2>1 DEF CalmInv
<1> QED BY <1>2, <1>3, <1>4 DEF PagesInv

LEMMA PagesNext == PagesInv /\ [E!P!Next]_(E!P!vars) => PagesInv'
<1> SUFFICES ASSUME PagesInv, [E!P!Next]_(E!P!vars) PROVE PagesInv'
  OBVIOUS
<1> DEFINE Loads == [of : Accts, tied : BOOLEAN, wallet : Accts \cup {"asked", "no"}]
           Picks == [pc : {"idle", "sent", "done"}, kind : {"choose", "close"},
                       of : Accts \cup {E!P!None}, left : SUBSET {"list", "wallet"}]
<1>0. /\ page \in {"terminal", "activity"} /\ unhurried \in BOOLEAN
      /\ main \in open /\ open \subseteq Accts /\ main \in Accts /\ events \in Seq(Accts)
      /\ shown \in Accts /\ listed \in Accts /\ missing \in BOOLEAN
      /\ snapshotRead \in Accts \cup {E!P!None} /\ loads \subseteq Loads /\ choice \in Picks
      /\ choice.pc = "idle" <=> choice = E!P!NoChoice
      /\ choice.pc # "idle" => choice.of \in Accts
      /\ choice.pc = "sent" => choice.left = {}
  BY DEF PagesInv, PageTypes
<1>a. ASSUME UNCHANGED <<page, unhurried, open, main>>,
             events' \in Seq(Accts), shown' \in Accts, listed' \in Accts, missing' \in BOOLEAN,
             snapshotRead' \in Accts \cup {E!P!None}, loads' \subseteq Loads, choice' = choice
      PROVE  PageTypes'
  BY <1>0, <1>a DEF PageTypes
<1> HIDE DEF Loads, Picks
<1>b. /\ choice.pc = "idle" /\ unhurried => AllOf(main) /\ shown = main
      /\ CalmInv /\ ActivityInv /\ E!P!ListsFollow
  BY DEF PagesInv, CalmInv
<1>1. CASE UNCHANGED E!P!vars
  BY <1>1 DEF E!P!vars, PagesInv, PageTypes, CalmInv, ActivityInv, E!P!ListsFollow, E!P!Quiet, AllOf
<1>2. CASE E!P!AskPoll
  <2>1. /\ snapshotRead = E!P!None /\ (unhurried => choice = E!P!NoChoice) /\ snapshotRead' = main
        /\ UNCHANGED <<page, unhurried, open, main, events, shown, listed, missing, loads, choice>>
    BY <1>2 DEF E!P!AskPoll
  <2>2. PageTypes'
    BY <1>0, <1>a, <2>1
  <2>3. CalmInv'
    BY <1>b, <2>1, NoChoiceIs DEF CalmInv, AllOf
  <2>4. ActivityInv' /\ E!P!ListsFollow'
    BY <1>b, <2>1 DEF ActivityInv, E!P!ListsFollow
  <2> QED BY <2>2, <2>3, <2>4 DEF PagesInv
<1>3. CASE E!P!Polled
  <2>1. /\ snapshotRead # E!P!None /\ E!P!Show(snapshotRead, loads) /\ snapshotRead' = E!P!None
        /\ UNCHANGED <<page, unhurried, open, main, events, listed, missing, choice>>
    BY <1>3 DEF E!P!Polled
  <2>2. snapshotRead \in Accts
    BY <1>0, <2>1
  <2>3. unhurried => choice.pc # "sent" /\ snapshotRead = main /\ AllOf(main)
    BY <1>b, <2>1 DEF CalmInv, E!P!Quiet, AllOf
  <2>4. /\ shown' = snapshotRead /\ loads' \subseteq Loads
        /\ \A l \in loads' : l \in loads \/ (l.of = snapshotRead /\ l.wallet \in {"asked", "no"})
    BY <2>1, <2>2, ShowIs DEF Loads
  <2>5. PageTypes'
    BY <1>0, <1>a, <2>1, <2>2, <2>4
  <2>6. unhurried => AllOf(main)'
    BY <2>1, <2>3, <2>4 DEF AllOf
  <2>7. unhurried =>
           /\ choice'.pc # "sent"
           /\ choice'.kind = "choose" /\ choice'.pc = "done" => choice'.of = main
    BY <1>b, <2>1, <2>3 DEF CalmInv
  <2> QED BY <2>1, <2>2, <2>3, <2>5, <2>6, <2>7, PagesShow
<1>4. CASE E!P!Update
  <2>1. /\ events # <<>> /\ E!P!Show(Head(events), loads) /\ events' = Tail(events)
        /\ UNCHANGED <<page, unhurried, open, main, listed, missing, snapshotRead, choice>>
    BY <1>4 DEF E!P!Update
  <2>2. /\ Len(events) > 0 /\ Tail(events) \in Seq(Accts) /\ Len(Tail(events)) = Len(events) - 1
        /\ \A i \in 1 .. Len(events) - 1 : i + 1 \in 1 .. Len(events) /\ Tail(events)[i] = events[i + 1]
    BY <1>0, <2>1, TailOf
  <2>3. Head(events) = events[1] /\ 1 \in 1 .. Len(events) /\ events[1] \in Accts
    BY <1>0, <2>1, <2>2
  <2>4. unhurried => choice.pc # "sent" /\ events[1] = main /\ AllOf(main)
    BY <1>b, <2>1, <2>3 DEF CalmInv, E!P!Quiet, AllOf
  <2>5. /\ shown' = events[1] /\ loads' \subseteq Loads
        /\ \A l \in loads' : l \in loads \/ (l.of = events[1] /\ l.wallet \in {"asked", "no"})
    BY <2>1, <2>3, ShowIs DEF Loads
  <2>6. PageTypes'
    BY <1>0, <1>a, <2>1, <2>2, <2>3, <2>5
  <2>7. unhurried => AllOf(main)'
    BY <2>1, <2>2, <2>4, <2>5 DEF AllOf
  <2>8. unhurried =>
           /\ choice'.pc # "sent"
           /\ choice'.kind = "choose" /\ choice'.pc = "done" => choice'.of = main
    BY <1>b, <2>1, <2>4 DEF CalmInv
  <2> QED BY <2>1, <2>3, <2>4, <2>6, <2>7, <2>8, PagesShow
<1>5. ASSUME NEW l \in loads, E!P!ReadWallet(l) PROVE PagesInv'
  <2> DEFINE m == [l EXCEPT !.wallet = main]
  <2>1. /\ l.wallet = "asked" /\ loads' = (loads \ {l}) \cup {m}
        /\ UNCHANGED <<page, unhurried, open, main, events, shown, listed, missing, snapshotRead, choice>>
    BY <1>5 DEF E!P!ReadWallet
  <2>2. m \in Loads /\ m.of = l.of /\ m.wallet = main
    BY <1>0 DEF Loads
  <2> HIDE DEF m
  <2>3. PageTypes'
    BY <1>0, <1>a, <2>1, <2>2
  <2>4. CalmInv'
    <3>1. unhurried => shown = main /\ choice.pc # "sent"
      BY <1>b DEF CalmInv, E!P!Quiet
    <3>2. unhurried => AllOf(main)'
      BY <1>b, <2>1, <2>2, <3>1 DEF AllOf, CalmInv
    <3> QED BY <1>b, <2>1, <3>1, <3>2 DEF CalmInv
  <2>5. page # "activity"
    BY <1>b, <2>1 DEF ActivityInv
  <2>6. E!P!ListsFollow'
    BY <1>b, <2>1, <2>2 DEF E!P!ListsFollow
  <2> QED BY <2>1, <2>3, <2>4, <2>5, <2>6 DEF PagesInv, ActivityInv
<1>6. ASSUME NEW l \in loads, E!P!Loaded(l) PROVE PagesInv'
  <2> DEFINE a == IF l.wallet = "no" THEN shown ELSE l.wallet
             ls == loads \ {l}
  <2>1. /\ l.wallet # "asked" /\ listed' = l.of /\ missing' = FALSE /\ E!P!Show(a, ls)
        /\ UNCHANGED <<page, unhurried, open, main, events, snapshotRead, choice>>
    BY <1>6 DEF E!P!Loaded
  <2>2. a \in Accts /\ ls \in SUBSET loads /\ l.of \in Accts
    BY <1>0, <2>1 DEF Loads
  <2>3. unhurried => choice.pc # "sent" /\ shown = main /\ AllOf(main) /\ l.of = main
                     /\ l.wallet \in {"no", main}
    BY <1>b, <2>1 DEF CalmInv, E!P!Quiet, AllOf
  <2>4. unhurried => a = main
    BY <2>3
  <2>5. unhurried \/ page = "activity" => l.of = shown
    BY <1>b, <2>3 DEF ActivityInv
  <2> HIDE DEF a, ls
  <2>6. /\ shown' = a /\ loads' \subseteq Loads
        /\ \A k \in loads' : k \in ls \/ (k.of = a /\ k.wallet \in {"asked", "no"})
    BY <2>1, <2>2, ShowIs DEF Loads
  <2>7. missing' \in BOOLEAN
    BY <2>1
  <2>8. PageTypes'
    BY <1>0, <1>a, <2>1, <2>2, <2>6, <2>7
  <2>9. unhurried => AllOf(main)'
    BY <2>1, <2>2, <2>3, <2>4, <2>6 DEF AllOf
  <2>10. unhurried =>
           /\ choice'.pc # "sent"
           /\ choice'.kind = "choose" /\ choice'.pc = "done" => choice'.of = main
    BY <1>b, <2>1, <2>3 DEF CalmInv
  <2> QED BY <2>1, <2>2, <2>3, <2>4, <2>5, <2>8, <2>9, <2>10, PagesShow
<1>7. CASE E!P!Reload
  <2>1. /\ (unhurried => choice = E!P!NoChoice) /\ (page = "activity" => unhurried)
        /\ loads' = loads \cup {E!P!Load(shown, FALSE)}
        /\ UNCHANGED <<page, unhurried, open, main, events, shown, listed, missing, snapshotRead, choice>>
    BY <1>7 DEF E!P!Reload
  <2> DEFINE new == E!P!Load(shown, FALSE)
  <2>2. /\ new \in Loads /\ new.of = shown /\ new.wallet \in {"asked", "no"}
        /\ page = "activity" => new.wallet = "no"
    BY <1>0, LoadIs DEF Loads
  <2> HIDE DEF new
  <2>3. loads' = loads \cup {new}
    BY <2>1 DEF new
  <2>4. PageTypes'
    BY <1>0, <1>a, <2>1, <2>2, <2>3
  <2>5. unhurried => shown = main /\ AllOf(main) /\ choice.pc = "idle"
    BY <1>b, <2>1, NoChoiceIs
  <2>6. unhurried => AllOf(main)'
    BY <2>1, <2>2, <2>3, <2>5 DEF AllOf
  <2>7. CalmInv'
    BY <2>1, <2>5, <2>6 DEF CalmInv
  <2>8. ActivityInv' /\ E!P!ListsFollow'
    BY <1>b, <2>1, <2>2, <2>3 DEF ActivityInv, E!P!ListsFollow
  <2> QED BY <2>4, <2>7, <2>8 DEF PagesInv
<1>8. ASSUME NEW a \in Accts, E!P!Emit(a) PROVE PagesInv'
  <2>1. /\ (unhurried => a = main /\ choice = E!P!NoChoice) /\ events' = Append(events, a)
        /\ UNCHANGED <<page, unhurried, open, main, shown, listed, missing, snapshotRead, loads, choice>>
    BY <1>8 DEF E!P!Emit
  <2>2. events' \in Seq(Accts)
    BY <1>0, <2>1
  <2>3. PageTypes'
    BY <1>0, <1>a, <2>1, <2>2
  <2>4. \A i \in 1 .. Len(events') : (i \in 1 .. Len(events) /\ events'[i] = events[i]) \/ events'[i] = a
    BY <1>0, <2>1
  <2>5. CalmInv'
    BY <1>b, <2>1, <2>4, NoChoiceIs DEF CalmInv, AllOf
  <2>6. ActivityInv' /\ E!P!ListsFollow'
    BY <1>b, <2>1 DEF ActivityInv, E!P!ListsFollow
  <2> QED BY <2>3, <2>5, <2>6 DEF PagesInv
<1>9. ASSUME NEW kind \in {"choose", "close"}, NEW a \in Accts, E!P!Choose(kind, a) PROVE PagesInv'
  <2>1. /\ choice = E!P!NoChoice /\ a \in open /\ (unhurried => E!P!Quiet)
        /\ choice' = [E!P!NoChoice EXCEPT !.pc = "sent", !.kind = kind, !.of = a]
        /\ UNCHANGED <<page, unhurried, open, main, events, shown, listed, missing, snapshotRead, loads>>
    BY <1>9 DEF E!P!Choose
  <2>2. choice' = [pc |-> "sent", kind |-> kind, of |-> a, left |-> {}]
    BY <2>1 DEF E!P!NoChoice
  <2>3. choice' \in Picks /\ choice'.pc = "sent" /\ choice'.of = a /\ choice'.left = {}
    BY <2>2 DEF Picks
  <2>4. PageTypes'
    BY <1>0, <2>1, <2>3, NoChoiceIs DEF PageTypes, Loads, Picks
  <2>5. unhurried => E!P!Quiet' /\ shown = main
    BY <1>b, <2>1, NoChoiceIs DEF E!P!Quiet
  <2>6. CalmInv'
    BY <2>1, <2>3, <2>5 DEF CalmInv, E!P!Quiet
  <2>7. ActivityInv' /\ E!P!ListsFollow'
    BY <1>b, <2>1 DEF ActivityInv, E!P!ListsFollow
  <2> QED BY <2>4, <2>6, <2>7 DEF PagesInv
<1>10. CASE E!P!Commit
  <2>1. /\ choice.pc = "sent"
        /\ open' = IF choice.kind = "close" THEN open \ {choice.of} ELSE open
        /\ IF choice.kind = "choose" THEN choice.of \in open /\ main' = choice.of
           ELSE main' \in IF choice.of = main THEN open' ELSE {main}
        /\ events' = IF choice.kind = "choose" \/ choice.of = main THEN Append(events, main')
                     ELSE events
        /\ choice' = [choice EXCEPT !.pc = "done", !.left = {"list", "wallet"}]
        /\ UNCHANGED <<page, unhurried, shown, listed, missing, snapshotRead, loads>>
    BY <1>10 DEF E!P!Commit
  <2>2. choice.kind \in {"choose", "close"}
    BY <1>0 DEF Picks
  <2>3. main' \in open' /\ open' \subseteq Accts /\ (choice.kind = "choose" => main' = choice.of)
        /\ main' \in Accts
    BY <1>0, <2>1, <2>2
  <2>4. events' \in Seq(Accts)
    BY <1>0, <2>1, <2>3
  <2>5. /\ choice' \in Picks /\ choice'.pc = "done" /\ choice'.left = {"list", "wallet"}
        /\ choice'.of = choice.of /\ choice'.kind = choice.kind
    BY <1>0, <2>1 DEF Picks
  <2>6. PageTypes'
    BY <1>0, <2>1, <2>3, <2>4, <2>5, NoChoiceIs DEF PageTypes, Loads, Picks
  <2>7. unhurried => loads = {} /\ snapshotRead = E!P!None /\ events = <<>> /\ shown = main
    BY <1>b, <2>1 DEF CalmInv, E!P!Quiet
  <2>8. unhurried => \A i \in 1 .. Len(events') : events'[i] = main'
    BY <2>1, <2>3, <2>7
  <2>9. CalmInv'
    BY <2>1, <2>3, <2>5, <2>7, <2>8 DEF CalmInv, AllOf
  <2>10. ActivityInv' /\ E!P!ListsFollow'
    BY <1>b, <2>1 DEF ActivityInv, E!P!ListsFollow
  <2> QED BY <2>6, <2>9, <2>10 DEF PagesInv
<1>11. CASE E!P!Refreshed
  <2>1. PICK r \in choice.left, a \in IF unhurried THEN {main} ELSE Accts :
          /\ E!P!Show(a, loads) /\ choice' = [choice EXCEPT !.left = @ \ {r}]
          /\ UNCHANGED <<page, unhurried, open, main, events, listed, missing, snapshotRead>>
    BY <1>11 DEF E!P!Refreshed
  <2>2. a \in Accts /\ (unhurried => a = main)
    BY <1>0, <2>1
  <2>3. /\ choice' \in Picks /\ choice'.pc = choice.pc /\ choice'.kind = choice.kind
        /\ choice'.of = choice.of /\ choice.pc # "idle"
    <3>1. choice # E!P!NoChoice
      BY DEF E!P!NoChoice
    <3> QED BY <1>0, <2>1, <3>1 DEF Picks
  <2>4. /\ shown' = a /\ loads' \subseteq Loads
        /\ \A l \in loads' : l \in loads \/ (l.of = a /\ l.wallet \in {"asked", "no"})
    BY <2>1, <2>2, ShowIs DEF Loads
  <2>5. choice.pc = "done" /\ choice'.left # {"list", "wallet"}
    BY <1>0, <2>1, <2>3 DEF Picks
  <2>6. PageTypes'
    BY <1>0, <2>1, <2>2, <2>3, <2>4, <2>5, NoChoiceIs DEF PageTypes, Loads, Picks
  <2>7. unhurried => AllOf(main) /\ (choice.kind = "choose" => choice.of = main)
    BY <1>b, <2>5 DEF CalmInv
  <2>8. unhurried => AllOf(main)'
    BY <2>1, <2>2, <2>4, <2>7 DEF AllOf
  <2> QED BY <2>1, <2>2, <2>3, <2>5, <2>6, <2>7, <2>8, PagesShow
<1>12. CASE E!P!Chosen
  <2> DEFINE a == IF choice.kind = "choose" THEN choice.of ELSE shown
  <2>1. /\ choice.pc = "done" /\ choice.left = {} /\ E!P!Show(a, loads) /\ choice' = E!P!NoChoice
        /\ UNCHANGED <<page, unhurried, open, main, events, listed, missing, snapshotRead>>
    BY <1>12 DEF E!P!Chosen
  <2>2. a \in Accts
    BY <1>0, <2>1
  <2>3. unhurried => AllOf(main) /\ a = main
    BY <1>b, <2>1 DEF CalmInv
  <2> HIDE DEF a
  <2>4. /\ shown' = a /\ loads' \subseteq Loads
        /\ \A l \in loads' : l \in loads \/ (l.of = a /\ l.wallet \in {"asked", "no"})
    BY <2>1, <2>2, ShowIs DEF Loads
  <2>5. PageTypes'
    BY <1>0, <2>1, <2>2, <2>4, NoChoiceIs DEF PageTypes, Loads
  <2>6. unhurried => AllOf(main)'
    BY <2>1, <2>3, <2>4 DEF AllOf
  <2> QED BY <2>1, <2>2, <2>3, <2>5, <2>6, PagesShow, NoChoiceIs
<1>13. ASSUME NEW a \in Accts, E!P!Elsewhere(a) PROVE PagesInv'
  <2>1. /\ ~unhurried /\ a \in open /\ main' = a
        /\ UNCHANGED <<page, unhurried, open, events, shown, listed, missing, snapshotRead, loads, choice>>
    BY <1>13 DEF E!P!Elsewhere
  <2>2. PageTypes'
    BY <1>0, <2>1 DEF PageTypes, Loads, Picks
  <2> QED BY <1>b, <2>1, <2>2 DEF PagesInv, CalmInv, ActivityInv, E!P!ListsFollow
<1>14. CASE E!P!Fails
  <2>1. /\ ~unhurried /\ UNCHANGED <<page, unhurried, open, main, events, shown, listed>>
        /\ \/ snapshotRead' = E!P!None /\ UNCHANGED <<loads, choice, missing>>
           \/ /\ \E l \in loads : loads' = loads \ {l}
              /\ missing' = TRUE
              /\ UNCHANGED <<snapshotRead, choice>>
           \/ choice' = E!P!NoChoice /\ UNCHANGED <<snapshotRead, loads, missing>>
    BY <1>14 DEF E!P!Fails
  <2>2. /\ loads' \subseteq loads
        /\ (loads' = loads /\ missing' = missing) \/ missing' = TRUE
        /\ snapshotRead' \in {snapshotRead, E!P!None} /\ choice' \in {choice, E!P!NoChoice}
    BY <2>1
  <2>3. missing' \in BOOLEAN
    BY <1>0, <2>2
  <2>4. PageTypes'
    BY <1>0, <2>1, <2>2, <2>3, NoChoiceIs DEF PageTypes, Loads, Picks
  <2>5. ActivityInv' /\ E!P!ListsFollow'
    BY <1>b, <2>1, <2>2 DEF ActivityInv, E!P!ListsFollow
  <2> QED BY <2>1, <2>4, <2>5 DEF PagesInv, CalmInv
<1> QED BY <1>1, <1>2, <1>3, <1>4, <1>5, <1>6, <1>7, <1>8, <1>9, <1>10, <1>11, <1>12, <1>13, <1>14
        DEF E!P!Next, E!P!Answered

LEMMA PagesHolds == PagesInv => E!P!TypeOK /\ E!P!ListsFollow
<1> SUFFICES ASSUME PagesInv PROVE E!P!TypeOK /\ E!P!ListsFollow
  OBVIOUS
<1>1. /\ \A l \in loads : l.of \in Accts /\ l.wallet \in Accts \cup {"asked", "no"}
      /\ choice.left \subseteq {"list", "wallet"}
  BY DEF PagesInv, PageTypes
<1>2. E!P!TypeOK
  BY <1>1 DEF PagesInv, PageTypes, E!P!TypeOK
<1> QED BY <1>2 DEF PagesInv

-----------------------------------------------------------------------------
(***************************************************************************)
(* The treasury: what a run has read, as long as nothing moved since it    *)
(* began, is what there is.                                                *)
(***************************************************************************)
RunIs(me) ==
  /\ me.pc = "idle" => me.owed = E!V!Unread /\ me.quiet = TRUE
  /\ me.owed # E!V!Unread => me.owed \in E!V!Units /\ me.unsent \in E!V!Units
  /\ me.pc \in {"idle", "stored", "explorer"} => me.asked = FALSE
  /\ me.pc = "explorer" \/ me.asked = TRUE => setup.address = TRUE /\ setup.supported = TRUE
  /\ me.quiet = TRUE =>
       /\ me.owed # E!V!Unread => me.owed = owed /\ me.unsent = unsent /\ me.high = high
       /\ me.asked = TRUE => me.used = [balance |-> holding, old |-> FALSE]

Snapshots == [balance : E!V!Units \cup {-1}, old : BOOLEAN]

RunRecords == [pc : {"idle", "stored", "explorer", "ready"}, owed : E!V!Units \cup {E!V!Unread},
               unsent : E!V!Units \cup {E!V!Unread}, high : BOOLEAN, used : Snapshots,
               lookup : {"none", "failed"}, asked : BOOLEAN, quiet : BOOLEAN]

TreasuryTypes ==
  /\ setup \in E!V!Setups /\ holding \in E!V!Units /\ owed \in E!V!Units /\ unsent \in E!V!Units
  /\ high \in BOOLEAN /\ observed \in Snapshots
  /\ run \in [Runs -> RunRecords]
  /\ latest.status \in {"none", "ok", "warning", "error"}
  /\ shifts \in 0 .. MaxShifts

TreasuryInv ==
  /\ TreasuryTypes /\ \A r \in Runs : RunIs(run[r])
  /\ E!V!ErrorsAgree /\ E!V!QuietRunsTell

LEMMA TreasuryConstants == MaxUnits \in Nat \ {0, 1} /\ MaxShifts \in Nat
  BY ServicesAssumption

LEMMA TreasuryTerms ==
  /\ E!V!Idle \in RunRecords /\ E!V!Idle.pc = "idle" /\ E!V!Idle.quiet = TRUE
  /\ E!V!Idle.owed = E!V!Unread /\ E!V!Idle.asked = FALSE
  /\ E!V!NoSnapshot \in Snapshots /\ E!V!Units \subseteq Int /\ E!V!Unread \notin E!V!Units
  /\ \A b \in E!V!Units : [balance |-> b, old |-> FALSE] \in Snapshots
<1>0. \A b \in E!V!Units : [balance |-> b, old |-> FALSE] \in Snapshots
  BY DEF Snapshots
<1>1. E!V!NoSnapshot \in Snapshots
  BY DEF E!V!NoSnapshot, Snapshots
<1>2. E!V!Units \subseteq Int /\ E!V!Unread \notin E!V!Units
  BY DEF E!V!Units, E!V!Unread
<1>3. E!V!Idle \in RunRecords
  BY <1>1 DEF E!V!Idle, RunRecords
<1> QED BY <1>0, <1>1, <1>2, <1>3 DEF E!V!Idle

\* What a run that is quiet and asked the explorer finds
LEMMA QuietRunFinds ==
  ASSUME NEW c \in E!V!Units, NEW o \in E!V!Units, NEW u \in E!V!Units, NEW h \in BOOLEAN,
         c = holding, o = owed, u = unsent, h = high,
         setup.address = TRUE, setup.supported = TRUE
  PROVE  E!V!Status([balance |-> c, old |-> FALSE], o, u, h) = E!V!Standing
<1> DEFINE s == [balance |-> c, old |-> FALSE]
<1>1. s # E!V!NoSnapshot /\ s.balance = c /\ ~s.old
  <2>1. s.balance = c /\ E!V!NoSnapshot.balance = -1 /\ c # -1
    BY DEF E!V!NoSnapshot, E!V!Units
  <2> QED BY <2>1
<1> HIDE DEF s
<1>2. c \in Nat /\ o \in Nat /\ u \in Nat
  BY DEF E!V!Units
<1>3. E!V!Critical(s, o, u) <=> c < o + u
  <2>1. E!V!Critical(s, o, u) <=> (c - o < 0 \/ c - o - u < 0)
    BY <1>1 DEF E!V!Critical, E!V!Gross, E!V!Operational
  <2>2. (c - o < 0 \/ c - o - u < 0) <=> c < o + u
    BY <1>2
  <2> QED BY <2>1, <2>2
<1>4. E!V!Warns(s, o, u, h) <=> (c # o \/ h \/ ("unsent" \in Thresholds /\ u > 0))
  <2>1. E!V!Warns(s, o, u, h) <=> (h \/ ("unsent" \in Thresholds /\ u > 0) \/ E!V!Abs(c - o) > 0)
    BY <1>1 DEF E!V!Warns, E!V!Gross
  <2>2. E!V!Abs(c - o) > 0 <=> c # o
    BY <1>2 DEF E!V!Abs
  <2> QED BY <2>1, <2>2
<1>5. E!V!Standing = IF c < o + u THEN "error"
                   ELSE IF c # o \/ h \/ ("unsent" \in Thresholds /\ u > 0) THEN "warning"
                   ELSE "ok"
  BY DEF E!V!Standing
<1>6. E!V!Status(s, o, u, h) = E!V!Standing
  BY <1>3, <1>4, <1>5 DEF E!V!Status
<1> QED BY <1>6 DEF s

LEMMA SummaryErrorIsError ==
  ASSUME NEW s, NEW lookup, NEW o, NEW u, NEW h, E!V!SummaryStatus(s, lookup, o, h) = "error"
  PROVE  E!V!Status(s, o, u, h) = "error"
<1>1. \/ ~setup.address \/ s = E!V!NoSnapshot
      \/ s # E!V!NoSnapshot /\ E!V!Gross(s.balance, o) < 0
  BY DEF E!V!SummaryStatus
<1>2. E!V!Critical(s, o, u)
  BY <1>1 DEF E!V!Critical
<1> QED BY <1>2 DEF E!V!Status

LEMMA TreasuryInit == E!V!Init => TreasuryInv
<1> SUFFICES ASSUME E!V!Init PROVE TreasuryInv
  OBVIOUS
<1>1. /\ setup \in E!V!Setups /\ owed = 1 /\ unsent = 1 /\ high = FALSE
      /\ holding \in {1, 2}
      /\ observed \in {E!V!NoSnapshot, [balance |-> 1, old |-> FALSE]}
      /\ run = [r \in Runs |-> E!V!Idle]
      /\ latest = [status |-> "none", summary |-> "none", right |-> "none"]
      /\ shifts = 0
  BY DEF E!V!Init
<1>2. /\ holding \in E!V!Units /\ owed \in E!V!Units /\ unsent \in E!V!Units /\ 1 \in E!V!Units
      /\ shifts \in 0 .. MaxShifts
  BY <1>1, TreasuryConstants DEF E!V!Units
<1>3. high \in BOOLEAN
  BY <1>1
<1>4. observed \in Snapshots
  <2>1. [balance |-> 1, old |-> FALSE] \in Snapshots
    BY <1>2, TreasuryTerms
  <2> QED BY <1>1, <2>1, TreasuryTerms
<1>5. run \in [Runs -> RunRecords] /\ \A r \in Runs : run[r] = E!V!Idle
  BY <1>1, TreasuryTerms
<1>6. TreasuryTypes
  BY <1>1, <1>2, <1>3, <1>4, <1>5 DEF TreasuryTypes
<1>7. RunIs(E!V!Idle)
  BY TreasuryTerms DEF RunIs
<1>8. E!V!ErrorsAgree /\ E!V!QuietRunsTell
  BY <1>1 DEF E!V!ErrorsAgree, E!V!QuietRunsTell
<1> QED BY <1>5, <1>6, <1>7, <1>8 DEF TreasuryInv

\* A step that leaves money and what is stored alone, but for one run
LEMMA TreasuryRuns ==
  ASSUME TreasuryInv, NEW r \in Runs, NEW me \in RunRecords, RunIs(me),
         run' = [run EXCEPT ![r] = me],
         UNCHANGED <<setup, holding, owed, unsent, high>>,
         observed' \in Snapshots, shifts' \in 0 .. MaxShifts,
         \/ latest' = latest
         \/ latest'.status \in {"ok", "warning", "error"} /\ (E!V!ErrorsAgree /\ E!V!QuietRunsTell)'
  PROVE  TreasuryInv'
<1>1. /\ run' \in [Runs -> RunRecords] /\ run'[r] = me
      /\ \A q \in Runs : q # r => run'[q] = run[q]
  BY DEF TreasuryInv, TreasuryTypes
<1>2. TreasuryTypes'
  BY <1>1 DEF TreasuryInv, TreasuryTypes, E!V!Setups, E!V!Units
<1>3. \A q \in Runs : RunIs(run[q])'
  <2> SUFFICES ASSUME NEW q \in Runs PROVE RunIs(run[q])'
    OBVIOUS
  <2>1. run'[q] = me \/ run'[q] = run[q]
    BY <1>1
  <2>2. RunIs(run[q])
    BY DEF TreasuryInv
  <2>3. CASE run'[q] = me
    BY <2>3 DEF RunIs, E!V!Units
  <2>4. CASE run'[q] = run[q]
    BY <2>2, <2>4 DEF RunIs, E!V!Units
  <2> QED BY <2>1, <2>3, <2>4
<1>4. E!V!ErrorsAgree' /\ E!V!QuietRunsTell'
  BY DEF TreasuryInv, E!V!ErrorsAgree, E!V!QuietRunsTell
<1> QED BY <1>2, <1>3, <1>4 DEF TreasuryInv

\* A step after which no run that goes on is quiet
LEMMA TreasuryMoves ==
  ASSUME TreasuryInv,
         run' = [r \in Runs |-> [run[r] EXCEPT !.quiet = run[r].pc = "idle"]],
         setup' = setup, latest' = latest, shifts < MaxShifts, shifts' = shifts + 1,
         holding' \in E!V!Units, owed' \in E!V!Units, unsent' \in E!V!Units, high' \in BOOLEAN,
         observed' \in Snapshots
  PROVE  TreasuryInv'
<1>0. MaxShifts \in Nat /\ run \in [Runs -> RunRecords] /\ shifts \in 0 .. MaxShifts
  BY TreasuryConstants DEF TreasuryInv, TreasuryTypes
<1>1. ASSUME NEW r \in Runs
      PROVE  /\ run'[r] \in RunRecords /\ RunIs(run[r])'
  <2>1. run[r] \in RunRecords /\ RunIs(run[r])
    BY <1>0 DEF TreasuryInv
  <2>2. run'[r] = [run[r] EXCEPT !.quiet = run[r].pc = "idle"]
    OBVIOUS
  <2>3. CASE run[r].pc = "idle"
    <3>1. run'[r] = [run[r] EXCEPT !.quiet = TRUE]
      BY <2>2, <2>3
    <3>2. run'[r] \in RunRecords
      BY <2>1, <3>1 DEF RunRecords
    <3>3. run'[r].owed = E!V!Unread /\ run'[r].asked = FALSE /\ run'[r].quiet = TRUE /\ run'[r].pc = "idle"
      BY <2>1, <2>3, <3>1 DEF RunRecords, RunIs
    <3>4. RunIs(run[r])'
      BY <3>3 DEF RunIs
    <3> QED BY <3>2, <3>4
  <2>4. CASE run[r].pc # "idle"
    <3>1. run'[r] = [run[r] EXCEPT !.quiet = FALSE]
      BY <2>2, <2>4
    <3>2. run'[r] \in RunRecords
      BY <2>1, <3>1 DEF RunRecords
    <3>3. /\ run'[r].owed = run[r].owed /\ run'[r].unsent = run[r].unsent
          /\ run'[r].asked = run[r].asked /\ run'[r].quiet = FALSE /\ run'[r].pc = run[r].pc
      BY <2>1, <3>1 DEF RunRecords
    <3>4. RunIs(run[r])'
      BY <2>1, <2>4, <3>3 DEF RunIs, E!V!Units
    <3> QED BY <3>2, <3>4
  <2> QED BY <2>3, <2>4
<1>2. shifts' \in 0 .. MaxShifts
  BY <1>0
<1>3. run' \in [Runs -> RunRecords]
  BY <1>1
<1>4. TreasuryTypes'
  BY <1>2, <1>3 DEF TreasuryInv, TreasuryTypes, E!V!Setups, E!V!Units
<1>5. E!V!ErrorsAgree' /\ E!V!QuietRunsTell'
  BY DEF TreasuryInv, E!V!ErrorsAgree, E!V!QuietRunsTell
<1> QED BY <1>1, <1>4, <1>5 DEF TreasuryInv

LEMMA TreasuryNext == TreasuryInv /\ [E!V!Next]_(E!V!vars) => TreasuryInv'
<1> SUFFICES ASSUME TreasuryInv, [E!V!Next]_(E!V!vars) PROVE TreasuryInv'
  OBVIOUS
<1>0. /\ MaxShifts \in Nat /\ MaxUnits \in Nat
      /\ setup \in E!V!Setups /\ holding \in E!V!Units /\ owed \in E!V!Units /\ unsent \in E!V!Units
      /\ high \in BOOLEAN /\ observed \in Snapshots
      /\ run \in [Runs -> RunRecords] /\ shifts \in 0 .. MaxShifts
      /\ \A r \in Runs : run[r] \in RunRecords /\ RunIs(run[r])
  BY TreasuryConstants DEF TreasuryInv, TreasuryTypes
<1>i. RunIs(E!V!Idle)
  BY TreasuryTerms DEF RunIs
<1>1. CASE UNCHANGED E!V!vars
  <2>1. /\ UNCHANGED <<setup, holding, owed, unsent, high, observed, run, latest, shifts>>
    BY <1>1 DEF E!V!vars
  <2> QED BY <2>1 DEF TreasuryInv, TreasuryTypes, RunIs, E!V!ErrorsAgree, E!V!QuietRunsTell, E!V!Setups, E!V!Units
<1>2. CASE E!V!Shift
  <2>1. /\ shifts < MaxShifts /\ shifts' = shifts + 1
        /\ run' = [r \in Runs |-> [run[r] EXCEPT !.quiet = run[r].pc = "idle"]]
        /\ setup' = setup /\ observed' = observed /\ latest' = latest
    BY <1>2 DEF E!V!Shift
  <2>2. holding' \in E!V!Units /\ owed' \in E!V!Units /\ unsent' \in E!V!Units
    BY <1>0, <1>2 DEF E!V!Shift, E!V!Units
  <2>3. high' \in BOOLEAN
    <3>1. high' = high \/ high' = ~high
      BY <1>2 DEF E!V!Shift
    <3> QED BY <1>0, <3>1
  <2> QED BY <1>0, <2>1, <2>2, <2>3, TreasuryMoves
<1>3. CASE E!V!RecordByHand
  <2>1. /\ shifts < MaxShifts /\ shifts' = shifts + 1
        /\ \E b \in E!V!Units : observed' \in {[balance |-> b, old |-> FALSE], observed}
        /\ run' = [r \in Runs |-> [run[r] EXCEPT !.quiet = run[r].pc = "idle"]]
        /\ UNCHANGED <<setup, holding, owed, unsent, high, latest>>
    BY <1>3 DEF E!V!RecordByHand, E!V!money
  <2>2. observed' \in Snapshots
    BY <1>0, <2>1, TreasuryTerms
  <2> QED BY <1>0, <2>1, <2>2, TreasuryMoves
<1>4. CASE E!V!Ages
  <2>1. /\ shifts < MaxShifts /\ shifts' = shifts + 1 /\ observed' = [observed EXCEPT !.old = TRUE]
        /\ UNCHANGED <<setup, holding, owed, unsent, high, run, latest>>
    BY <1>4 DEF E!V!Ages, E!V!money
  <2>2. observed' \in Snapshots
    BY <1>0, <2>1 DEF Snapshots
  <2>3. shifts' \in 0 .. MaxShifts
    BY <1>0, <2>1
  <2> QED BY <2>1, <2>2, <2>3
          DEF TreasuryInv, TreasuryTypes, RunIs, E!V!ErrorsAgree, E!V!QuietRunsTell, E!V!Setups, E!V!Units
<1>5. ASSUME NEW r \in Runs, E!V!Begin(r) PROVE TreasuryInv'
  <2> DEFINE me == [run[r] EXCEPT !.pc = "stored"]
  <2>1. /\ run[r] = E!V!Idle /\ run' = [run EXCEPT ![r] = me]
        /\ UNCHANGED <<setup, holding, owed, unsent, high, observed, latest, shifts>>
    BY <1>0, <1>5 DEF E!V!Begin, E!V!money
  <2>2. /\ me \in RunRecords /\ me.pc = "stored" /\ me.owed = E!V!Unread /\ me.asked = FALSE
    BY <1>0, <2>1, TreasuryTerms DEF RunRecords
  <2> HIDE DEF me
  <2>3. RunIs(me)
    BY <2>2 DEF RunIs
  <2> QED BY <1>0, <2>1, <2>2, <2>3, TreasuryRuns
<1>6. ASSUME NEW r \in Runs, E!V!ReadSums(r) PROVE TreasuryInv'
  <2> DEFINE me == [run[r] EXCEPT !.owed = owed, !.unsent = unsent, !.high = high]
  <2>1. /\ run[r].pc # "idle" /\ run' = [run EXCEPT ![r] = me]
        /\ UNCHANGED <<setup, holding, owed, unsent, high, observed, latest, shifts>>
    BY <1>0, <1>6 DEF E!V!ReadSums, E!V!money
  <2>2. me \in RunRecords
    BY <1>0 DEF RunRecords
  <2>3. /\ me.pc = run[r].pc /\ me.owed = owed /\ me.unsent = unsent /\ me.high = high
        /\ me.asked = run[r].asked /\ me.quiet = run[r].quiet /\ me.used = run[r].used
    BY <1>0 DEF RunRecords
  <2> HIDE DEF me
  <2>4. RunIs(me)
    BY <1>0, <2>1, <2>3 DEF RunIs
  <2> QED BY <1>0, <2>1, <2>2, <2>4, TreasuryRuns
<1>7. ASSUME NEW r \in Runs, E!V!ReadStored(r) PROVE TreasuryInv'
  <2>1. PICK pc \in {"explorer", "ready"}, lookup \in {"none", "failed"} :
          /\ run' = [run EXCEPT ![r].pc = pc, ![r].used = observed, ![r].lookup = lookup]
          /\ pc = "explorer" => setup.address = TRUE /\ setup.supported = TRUE
    BY <1>0, <1>7 DEF E!V!ReadStored, E!V!Setups
  <2>2. /\ run[r].pc = "stored"
        /\ UNCHANGED <<setup, holding, owed, unsent, high, observed, latest, shifts>>
    BY <1>7 DEF E!V!ReadStored, E!V!money
  <2> DEFINE me == [run[r] EXCEPT !.pc = pc, !.used = observed, !.lookup = lookup]
  <2>3. run' = [run EXCEPT ![r] = me]
    BY <1>0, <2>1
  <2>4. me \in RunRecords
    BY <1>0 DEF RunRecords
  <2>5. /\ me.pc = pc /\ me.owed = run[r].owed /\ me.unsent = run[r].unsent /\ me.high = run[r].high
        /\ me.asked = run[r].asked /\ me.quiet = run[r].quiet
    BY <1>0 DEF RunRecords
  <2> HIDE DEF me
  <2>6. RunIs(me)
    BY <1>0, <2>1, <2>2, <2>5 DEF RunIs
  <2> QED BY <1>0, <2>2, <2>3, <2>4, <2>6, TreasuryRuns
<1>8. ASSUME NEW r \in Runs, E!V!Explore(r) PROVE TreasuryInv'
  <2> DEFINE seen == [balance |-> holding, old |-> FALSE]
             me == [run[r] EXCEPT !.pc = "ready", !.used = seen, !.asked = TRUE]
  <2>1. /\ run[r].pc = "explorer" /\ run' = [run EXCEPT ![r] = me]
        /\ observed' \in {observed, seen}
        /\ UNCHANGED <<setup, holding, owed, unsent, high, latest, shifts>>
    BY <1>0, <1>8 DEF E!V!Explore, E!V!money
  <2>2. seen \in Snapshots
    BY <1>0 DEF Snapshots
  <2>3. me \in RunRecords
    BY <1>0, <2>2 DEF RunRecords
  <2>4. /\ me.pc = "ready" /\ me.owed = run[r].owed /\ me.unsent = run[r].unsent
        /\ me.high = run[r].high /\ me.asked = TRUE /\ me.quiet = run[r].quiet /\ me.used = seen
    BY <1>0 DEF RunRecords
  <2> HIDE DEF me
  <2>5. RunIs(me)
    BY <1>0, <2>1, <2>4 DEF RunIs
  <2>6. observed' \in Snapshots
    BY <1>0, <2>1, <2>2
  <2> QED BY <1>0, <2>1, <2>3, <2>5, <2>6, TreasuryRuns
<1>9. ASSUME NEW r \in Runs, E!V!ExplorerFails(r) PROVE TreasuryInv'
  <2> DEFINE me == [run[r] EXCEPT !.pc = "ready", !.lookup = "failed"]
  <2>1. /\ run[r].pc = "explorer" /\ run' = [run EXCEPT ![r] = me]
        /\ shifts < MaxShifts /\ shifts' = shifts + 1
        /\ UNCHANGED <<setup, holding, owed, unsent, high, observed, latest>>
    BY <1>0, <1>9 DEF E!V!ExplorerFails, E!V!money
  <2>2. me \in RunRecords
    BY <1>0 DEF RunRecords
  <2>3. /\ me.pc = "ready" /\ me.owed = run[r].owed /\ me.unsent = run[r].unsent
        /\ me.high = run[r].high /\ me.asked = run[r].asked /\ me.quiet = run[r].quiet
    BY <1>0 DEF RunRecords
  <2> HIDE DEF me
  <2>4. RunIs(me)
    BY <1>0, <2>1, <2>3 DEF RunIs
  <2>5. shifts' \in 0 .. MaxShifts
    BY <1>0, <2>1
  <2> QED BY <1>0, <2>1, <2>2, <2>4, <2>5, TreasuryRuns
<1>10. ASSUME NEW r \in Runs, E!V!RunFails(r) PROVE TreasuryInv'
  <2>1. /\ run' = [run EXCEPT ![r] = E!V!Idle] /\ shifts < MaxShifts /\ shifts' = shifts + 1
        /\ UNCHANGED <<setup, holding, owed, unsent, high, observed, latest>>
    BY <1>10 DEF E!V!RunFails, E!V!money
  <2>2. shifts' \in 0 .. MaxShifts
    BY <1>0, <2>1
  <2> QED BY <1>0, <1>i, <2>1, <2>2, TreasuryRuns, TreasuryTerms
<1>11. ASSUME NEW r \in Runs, E!V!Record(r) PROVE TreasuryInv'
  <2> DEFINE me == run[r]
             st == E!V!Status(me.used, me.owed, me.unsent, me.high)
             su == E!V!SummaryStatus(me.used, me.lookup, me.owed, me.high)
             ri == IF me.quiet /\ me.asked THEN E!V!Standing ELSE "unsure"
  <2>1. /\ me.pc = "ready" /\ me.owed # E!V!Unread /\ run' = [run EXCEPT ![r] = E!V!Idle]
        /\ latest' = [status |-> st, summary |-> su, right |-> ri]
        /\ UNCHANGED <<setup, holding, owed, unsent, high, observed, shifts>>
    BY <1>11 DEF E!V!Record, E!V!money
  <2>2. st \in {"ok", "warning", "error"}
    BY DEF E!V!Status
  <2>3. su = "error" => st = "error"
    BY SummaryErrorIsError
  <2>4. ri # "unsure" => st = ri
    <3> SUFFICES ASSUME me.quiet /\ me.asked PROVE st = E!V!Standing
      OBVIOUS
    <3>1. me.quiet = TRUE /\ me.asked = TRUE
      <4>1. me.quiet \in BOOLEAN /\ me.asked \in BOOLEAN
        BY <1>0 DEF RunRecords
      <4> QED BY <4>1
    <3>2. RunIs(me)
      BY <1>0
    <3>3. /\ me.owed = owed /\ me.unsent = unsent /\ me.high = high
          /\ me.used = [balance |-> holding, old |-> FALSE]
          /\ setup.address = TRUE /\ setup.supported = TRUE
      BY <2>1, <3>1, <3>2 DEF RunIs
    <3>4. E!V!Status([balance |-> holding, old |-> FALSE], owed, unsent, high) = E!V!Standing
      BY <1>0, <3>3, QuietRunFinds
    <3> QED BY <3>3, <3>4
  <2> HIDE DEF st, su, ri
  <2>5. latest'.status = st /\ latest'.summary = su /\ latest'.right = ri
    BY <2>1
  <2>6. E!V!ErrorsAgree' /\ E!V!QuietRunsTell'
    BY <2>3, <2>4, <2>5 DEF E!V!ErrorsAgree, E!V!QuietRunsTell
  <2> QED BY <1>0, <1>i, <2>1, <2>2, <2>5, <2>6, TreasuryRuns, TreasuryTerms
<1> QED BY <1>1, <1>2, <1>3, <1>4, <1>5, <1>6, <1>7, <1>8, <1>9, <1>10, <1>11 DEF E!V!Next, E!V!Proceeds

LEMMA TreasuryHolds == TreasuryInv => E!V!TypeOK /\ E!V!ErrorsAgree /\ E!V!QuietRunsTell
<1> SUFFICES ASSUME TreasuryInv PROVE E!V!TypeOK /\ E!V!ErrorsAgree /\ E!V!QuietRunsTell
  OBVIOUS
<1>1. \A r \in Runs : run[r] \in RunRecords
  BY DEF TreasuryInv, TreasuryTypes
<1>2. E!V!TypeOK
  BY <1>1 DEF TreasuryInv, TreasuryTypes, RunRecords, E!V!TypeOK
<1> QED BY <1>2 DEF TreasuryInv

-----------------------------------------------------------------------------
(***************************************************************************)
(* All of them: each part begins and steps as its own module says, and     *)
(* what the others do leaves it as it is.                                  *)
(***************************************************************************)
ServicesInv ==
  /\ AccountsInv /\ KycInv /\ ComplaintsInv /\ DeskInv
  /\ SessionsInv /\ AdministratorsInv /\ CredentialsInv /\ PresenceInv
  /\ WebhooksInv /\ AlertsInv /\ CandlesInv /\ FetcherInv
  /\ SettingsInv /\ LinkInv /\ BrowserInv /\ ScanInv
  /\ TicketInv /\ PollerInv /\ CacheInv /\ StreamInv
  /\ PagesInv /\ TreasuryInv

EdgesInv == edge \in E!Sides \cup {"none"}
AreasInv == area \in Areas

IInv == AreasInv /\ EdgesInv /\ ServicesInv

LEMMA PartsBegin ==
  Init =>
    /\ A!Init /\ K!Init /\ C!Init /\ D!Init /\ S!Init /\ R!Init
    /\ P!Init /\ O!Init /\ W!Init /\ L!Init /\ G!Init /\ F!Init
    /\ E!B!Init /\ E!U!Init /\ E!H!Init /\ E!E!Init /\ E!T!Init /\ E!Y!Init
    /\ E!Q!Init /\ E!D!Init /\ E!P!Init /\ E!V!Init
  BY DEF Init, E!Init

LEMMA PartsStep ==
  [Next]_vars =>
    /\ [A!Next]_(A!vars)
    /\ [K!Next]_(K!vars)
    /\ [C!Next]_(C!vars)
    /\ [D!Next]_(D!vars)
    /\ [S!Next]_(S!vars)
    /\ [R!Next]_(R!vars)
    /\ [P!Next]_(P!vars)
    /\ [O!Next]_(O!vars)
    /\ [W!Next]_(W!vars)
    /\ [L!Next]_(L!vars)
    /\ [G!Next]_(G!vars)
    /\ [F!Next]_(F!vars)
    /\ [E!B!Next]_(E!B!vars)
    /\ [E!U!Next]_(E!U!vars)
    /\ [E!H!Next]_(E!H!vars)
    /\ [E!E!Next]_(E!E!vars)
    /\ [E!T!Next]_(E!T!vars)
    /\ [E!Y!Next]_(E!Y!vars)
    /\ [E!Q!Next]_(E!Q!vars)
    /\ [E!D!Next]_(E!D!vars)
    /\ [E!P!Next]_(E!P!vars)
    /\ [E!V!Next]_(E!V!vars)
<1> SUFFICES ASSUME [Next]_vars
             PROVE
               /\ [A!Next]_(A!vars)
               /\ [K!Next]_(K!vars)
               /\ [C!Next]_(C!vars)
               /\ [D!Next]_(D!vars)
               /\ [S!Next]_(S!vars)
               /\ [R!Next]_(R!vars)
               /\ [P!Next]_(P!vars)
               /\ [O!Next]_(O!vars)
               /\ [W!Next]_(W!vars)
               /\ [L!Next]_(L!vars)
               /\ [G!Next]_(G!vars)
               /\ [F!Next]_(F!vars)
               /\ [E!B!Next]_(E!B!vars)
               /\ [E!U!Next]_(E!U!vars)
               /\ [E!H!Next]_(E!H!vars)
               /\ [E!E!Next]_(E!E!vars)
               /\ [E!T!Next]_(E!T!vars)
               /\ [E!Y!Next]_(E!Y!vars)
               /\ [E!Q!Next]_(E!Q!vars)
               /\ [E!D!Next]_(E!D!vars)
               /\ [E!P!Next]_(E!P!vars)
               /\ [E!V!Next]_(E!V!vars)
  OBVIOUS
<1>1. [A!Next]_(A!vars)
  BY DEF Next, vars, staff, users, accounts, A!vars
<1>2. [K!Next]_(K!vars)
  BY DEF Next, vars, staff, users, kyc, K!vars
<1>3. [C!Next]_(C!vars)
  BY DEF Next, vars, staff, users, complaints, C!vars
<1>4. [D!Next]_(D!vars)
  BY DEF Next, vars, staff, users, desk, D!vars
<1>5. [S!Next]_(S!vars)
  BY DEF Next, vars, staff, users, sessions, S!vars
<1>6. [R!Next]_(R!vars)
  BY DEF Next, vars, staff, users, administrators, R!vars
<1>7. [P!Next]_(P!vars)
  BY DEF Next, vars, staff, users, credentials, P!vars
<1>8. [O!Next]_(O!vars)
  BY DEF Next, vars, staff, users, presence, O!vars
<1>9. [W!Next]_(W!vars)
  BY DEF Next, vars, staff, users, webhooks, W!vars
<1>10. [L!Next]_(L!vars)
  BY DEF Next, vars, staff, users, alerts, L!vars
<1>11. [G!Next]_(G!vars)
  BY DEF Next, vars, staff, users, candles, G!vars
<1>12. [F!Next]_(F!vars)
  BY DEF Next, vars, staff, users, fetcher, F!vars
<1>13. [E!Next]_(E!vars)
  BY SMTT(30)
     DEF Next, vars, edges, E!vars, E!client, E!others, E!settings, E!subscriptions, E!browser,
     E!chain, E!ordering, E!poller, E!answers, E!streaming, E!accountPages, E!treasury
<1>14. [E!B!Next]_(E!B!vars)
  BY <1>13 DEF E!Next, E!vars, E!client, E!others, E!settings, E!B!vars
<1>15. [E!U!Next]_(E!U!vars)
  BY <1>13 DEF E!Next, E!vars, E!client, E!others, E!subscriptions, E!U!vars
<1>16. [E!H!Next]_(E!H!vars)
  BY <1>13 DEF E!Next, E!vars, E!client, E!others, E!browser, E!H!vars
<1>17. [E!E!Next]_(E!E!vars)
  BY <1>13 DEF E!Next, E!vars, E!client, E!others, E!chain, E!E!vars
<1>18. [E!T!Next]_(E!T!vars)
  BY <1>13 DEF E!Next, E!vars, E!client, E!others, E!ordering, E!T!vars
<1>19. [E!Y!Next]_(E!Y!vars)
  BY <1>13 DEF E!Next, E!vars, E!client, E!others, E!poller, E!Y!vars
<1>20. [E!Q!Next]_(E!Q!vars)
  BY <1>13 DEF E!Next, E!vars, E!client, E!others, E!answers, E!Q!vars
<1>21. [E!D!Next]_(E!D!vars)
  BY <1>13 DEF E!Next, E!vars, E!client, E!others, E!streaming, E!D!vars
<1>22. [E!P!Next]_(E!P!vars)
  BY <1>13 DEF E!Next, E!vars, E!client, E!others, E!accountPages, E!P!vars
<1>23. [E!V!Next]_(E!V!vars)
  BY <1>13 DEF E!Next, E!vars, E!client, E!others, E!treasury, E!V!vars
<1> QED BY <1>1, <1>2, <1>3, <1>4, <1>5, <1>6, <1>7, <1>8, <1>9, <1>10, <1>11, <1>12,
     <1>14, <1>15, <1>16, <1>17, <1>18, <1>19, <1>20, <1>21, <1>22, <1>23

LEMMA IInvInit == Init => IInv
<1> SUFFICES ASSUME Init PROVE IInv
  OBVIOUS
<1>1. AreasInv /\ EdgesInv
  BY DEF Init, E!Init, AreasInv, EdgesInv
<1>2. ServicesInv
  BY PartsBegin, AccountsInit, KycInit, ComplaintsInit, DeskInit, SessionsInit,
     AdministratorsInit, CredentialsInit, PresenceInit, WebhooksInit, AlertsInit,
     CandlesInit, FetcherInit, SettingsInit, LinkInit, BrowserInit, ScanInit,
     TicketInit, PollerInit, CacheInit, StreamInit, PagesInit, TreasuryInit
     DEF ServicesInv
<1> QED BY <1>1, <1>2 DEF IInv

LEMMA IInvNext == IInv /\ [Next]_vars => IInv'
<1> SUFFICES ASSUME IInv, [Next]_vars PROVE IInv'
  OBVIOUS
<1>1. AreasInv'
  BY DEF IInv, AreasInv, Next, vars
<1>2. EdgesInv'
  BY DEF IInv, EdgesInv, Next, vars, edges, E!Next, E!Sides
<1>3. ServicesInv'
  BY PartsStep, AccountsNext, KycNext, ComplaintsNext, DeskNext, SessionsNext,
     AdministratorsNext, CredentialsNext, PresenceNext, WebhooksNext, AlertsNext,
     CandlesNext, FetcherNext, SettingsNext, LinkNext, BrowserNext, ScanNext,
     TicketNext, PollerNext, CacheNext, StreamNext, PagesNext, TreasuryNext
     DEF IInv, ServicesInv
<1> QED BY <1>1, <1>2, <1>3 DEF IInv

\* Every service keeps its invariant, whichever acts.
THEOREM Invariance == Spec => []IInv
  BY IInvInit, IInvNext, PTL DEF Spec

\* The edges have their types, and so have all services.
LEMMA EdgesTyped == IInv => E!TypeOK
  BY SettingsHolds, LinkHolds, BrowserHolds, ScanHolds, TicketHolds, PollerHolds,
     CacheHolds, StreamHolds, PagesHolds, TreasuryHolds
     DEF IInv, EdgesInv, ServicesInv, E!TypeOK

LEMMA ServicesTyped == IInv => TypeOK
  BY EdgesTyped, AccountsHolds, KycHolds, ComplaintsHolds, DeskHolds, SessionsHolds,
     AdministratorsHolds, CredentialsHolds, PresenceHolds, WebhooksHolds, AlertsHolds,
     CandlesHolds, FetcherHolds
     DEF IInv, AreasInv, ServicesInv, TypeOK

\* The rows of one case agree, however requests overlap or end half way: accounts and
\* wallet, submission and log, complaint and compensation, symbols and hedge actions,
\* suspicions and alerts; and at the edges settings, orders, transfers and treasury.
THEOREM RecordsAgreeAlways == Spec => []RecordsAgree
<1>1. IInv => E!RecordsAgree
  BY SettingsHolds, TicketHolds, ScanHolds, TreasuryHolds DEF IInv, ServicesInv, E!RecordsAgree
<1>2. IInv => RecordsAgree
  BY <1>1, ServicesTyped, AccountsHolds, KycHolds, ComplaintsHolds, DeskHolds, AlertsHolds
     DEF IInv, ServicesInv, RecordsAgree
<1> QED BY <1>2, Invariance, PTL

\* Who proves to be somebody is, and is not locked out: the client can refresh, links
\* and codes work once, passwords are known and factors proved; a browser runs once
\* what changes something, holds the present token, and is answered with its own.
THEOREM CredentialsHoldAlways == Spec => []CredentialsHold
<1>1. IInv => E!CredentialsHold
  BY BrowserHolds, CacheHolds DEF IInv, ServicesInv, E!CredentialsHold
<1>2. IInv => CredentialsHold
  BY <1>1, SessionsHolds, CredentialsHolds DEF IInv, ServicesInv, CredentialsHold
<1> QED BY <1>2, Invariance, PTL

\* What is sent and shown agrees with what happened: who is online, deliveries,
\* charts, the queue of fetches, rooms, answers that are cached, and lists.
THEOREM ChannelsAreKeptAlways == Spec => []ChannelsAreKept
<1>1. IInv => E!ChannelsAreKept
  BY LinkHolds, CacheHolds, PagesHolds DEF IInv, ServicesInv, E!ChannelsAreKept
<1>2. IInv => ChannelsAreKept
  BY <1>1, PresenceHolds, WebhooksHolds, CandlesHolds, FetcherHolds
     DEF IInv, ServicesInv, ChannelsAreKept
<1> QED BY <1>2, Invariance, PTL

\* What was decided stays decided: closed accounts, submissions, complaints, revoked
\* sessions, super admins, candles, settings that were chosen; and a browser is
\* signed out for a cause.
THEOREM NothingIsUndoneEver == Spec => NothingIsUndone
<1>1. Spec => A!ClosedIsFinal
  <2>1. Spec => []AccountsInv
    <3>1. IInv => AccountsInv
      BY DEF IInv, ServicesInv
    <3> QED BY <3>1, Invariance, PTL
  <2>2. Spec => [][A!Next]_(A!vars)
    <3>1. [Next]_vars => [A!Next]_(A!vars)
      BY PartsStep
    <3> QED BY <3>1, PTL DEF Spec
  <2> QED BY <2>1, <2>2, AccountsStay, PTL DEF A!ClosedIsFinal
<1>2. Spec => K!FollowsLife
  <2>1. Spec => []KycInv
    <3>1. IInv => KycInv
      BY DEF IInv, ServicesInv
    <3> QED BY <3>1, Invariance, PTL
  <2>2. Spec => [][K!Next]_(K!vars)
    <3>1. [Next]_vars => [K!Next]_(K!vars)
      BY PartsStep
    <3> QED BY <3>1, PTL DEF Spec
  <2> QED BY <2>1, <2>2, KycFollows, PTL DEF K!FollowsLife
<1>3. Spec => C!DecisionIsFinal
  <2>1. Spec => []ComplaintsInv
    <3>1. IInv => ComplaintsInv
      BY DEF IInv, ServicesInv
    <3> QED BY <3>1, Invariance, PTL
  <2>2. Spec => [][C!Next]_(C!vars)
    <3>1. [Next]_vars => [C!Next]_(C!vars)
      BY PartsStep
    <3> QED BY <3>1, PTL DEF Spec
  <2> QED BY <2>1, <2>2, ComplaintsStay, PTL DEF C!DecisionIsFinal
<1>4. Spec => S!RevokedIsFinal
  <2>1. Spec => []SessionsInv
    <3>1. IInv => SessionsInv
      BY DEF IInv, ServicesInv
    <3> QED BY <3>1, Invariance, PTL
  <2>2. Spec => [][S!Next]_(S!vars)
    <3>1. [Next]_vars => [S!Next]_(S!vars)
      BY PartsStep
    <3> QED BY <3>1, PTL DEF Spec
  <2> QED BY <2>1, <2>2, SessionsStay, PTL DEF S!RevokedIsFinal
<1>5. Spec => R!TakenDownByRight
  <2>1. Spec => []AdministratorsInv
    <3>1. IInv => AdministratorsInv
      BY DEF IInv, ServicesInv
    <3> QED BY <3>1, Invariance, PTL
  <2>2. Spec => [][R!Next]_(R!vars)
    <3>1. [Next]_vars => [R!Next]_(R!vars)
      BY PartsStep
    <3> QED BY <3>1, PTL DEF Spec
  <2> QED BY <2>1, <2>2, AdministratorsStay, PTL DEF R!TakenDownByRight
<1>6. Spec => G!CandlesOnlyGrow
  <2>1. Spec => []CandlesInv
    <3>1. IInv => CandlesInv
      BY DEF IInv, ServicesInv
    <3> QED BY <3>1, Invariance, PTL
  <2>2. Spec => [][G!Next]_(G!vars)
    <3>1. [Next]_vars => [G!Next]_(G!vars)
      BY PartsStep
    <3> QED BY <3>1, PTL DEF Spec
  <2> QED BY <2>1, <2>2, CandlesStay, PTL DEF G!CandlesOnlyGrow
<1>7. Spec => E!B!ChoicesSurviveStarts
  <2>1. Spec => []SettingsInv
    <3>1. IInv => SettingsInv
      BY DEF IInv, ServicesInv
    <3> QED BY <3>1, Invariance, PTL
  <2>2. Spec => [][E!B!Next]_(E!B!vars)
    <3>1. [Next]_vars => [E!B!Next]_(E!B!vars)
      BY PartsStep
    <3> QED BY <3>1, PTL DEF Spec
  <2> QED BY <2>1, <2>2, SettingsStay, PTL DEF E!B!ChoicesSurviveStarts
<1>8. Spec => E!H!SignedOutForCause
  <2>1. Spec => []BrowserInv
    <3>1. IInv => BrowserInv
      BY DEF IInv, ServicesInv
    <3> QED BY <3>1, Invariance, PTL
  <2>2. Spec => [][E!H!Next]_(E!H!vars)
    <3>1. [Next]_vars => [E!H!Next]_(E!H!vars)
      BY PartsStep
    <3> QED BY <3>1, PTL DEF Spec
  <2> QED BY <2>1, <2>2, BrowserStay, PTL DEF E!H!SignedOutForCause
<1> QED BY <1>1, <1>2, <1>3, <1>4, <1>5, <1>6, <1>7, <1>8 DEF NothingIsUndone, E!NothingIsUndone
=============================================================================
