------------------------------ MODULE Affiliates ------------------------------
(***************************************************************************)
(* The affiliate program (affiliates.service.ts): who referred whom, the   *)
(* hierarchy of affiliates, the commissions of executed orders and their   *)
(* payout into the affiliate's wallet. A request is one step per await; a  *)
(* row that was read is not looked at again when it is written.            *)
(*                                                                         *)
(* The switches of the program only refuse requests and are left out; an   *)
(* affiliate never leaves ACTIVE, and amounts are told apart by level.     *)
(***************************************************************************)
EXTENDS Integers, Sequences, FiniteSets
LOCAL INSTANCE TLC

CONSTANTS
  Users,      \* traders; an affiliate is known by its user
  None,
  Orders,
  Admins,
  MaxLevel    \* levels that share in an order: 3 in the code

ASSUME AffiliateAssumption == None \notin Users /\ MaxLevel \in Nat \ {0}

Rows == Users \X Orders \X (1 .. MaxLevel)     \* affiliate, order, level

VARIABLES
  registered, \* users that exist
  referral,   \* the affiliate that referred a user
  members,    \* users that are affiliates
  parent,     \* parentAffiliateId
  upline,     \* of an order being processed: where it is, who it found
  status,     \* of each commission; "none" is no row
  credits,    \* how often each commission was credited, up to 2
  request,    \* what each administrator is doing
  serial      \* whether administrators act one at a time

affiliateVars == <<registered, referral, members, parent, upline, status, credits, request, serial>>

NoRequest  == [pc |-> "idle"]
Fresh == [pc |-> "none", at |-> None, found |-> <<>>]

Statuses == {"none", "PENDING", "APPROVED", "PAID"}

AffiliatesInit ==
  /\ registered = {} /\ members = {}
  /\ referral = [u \in Users |-> None]
  /\ parent = [u \in Users |-> None]
  /\ upline = [o \in Orders |-> Fresh]
  /\ status = [r \in Rows |-> "none"]
  /\ credits = [r \in Rows |-> 0]
  /\ request = [x \in Admins |-> NoRequest]
  /\ serial \in BOOLEAN

-----------------------------------------------------------------------------
\* registerReferralForUser, when an account is registered with or without the
\* code of an affiliate
Register(u) ==
  /\ u \notin registered
  /\ registered' = registered \cup {u}
  /\ \E a \in members \cup {None} : referral' = [referral EXCEPT ![u] = a]
  /\ UNCHANGED <<members, parent, upline, status, credits, request, serial>>

\* The referral is never changed, and userId is unique.
Apply(u) ==
  /\ u \in registered \ members
  /\ members' = members \cup {u}
  /\ parent' = [parent EXCEPT ![u] = referral[u]]
  /\ UNCHANGED <<registered, referral, upline, status, credits, request, serial>>

-----------------------------------------------------------------------------
(***************************************************************************)
(* Administrators                                                          *)
(***************************************************************************)
MayStart(x) == request[x] = NoRequest /\ (serial => \A y \in Admins : request[y] = NoRequest)
RequestIs(x, r) == request' = [request EXCEPT ![x] = r]
Ends(x) == RequestIs(x, NoRequest)

\* assignParent, up to assertNoAffiliateHierarchyCycle
StartAssign(x, a, p) ==
  /\ MayStart(x)
  /\ {a, p} \subseteq members /\ a # p
  /\ RequestIs(x, [pc |-> "walk", affiliate |-> a, above |-> p, at |-> p])
  /\ UNCHANGED <<registered, referral, members, parent, upline, status, credits, serial>>

\* Mutant: only the candidate's own parent is looked at.
WalkOnce(x) ==
  /\ request[x].pc = "walk"
  /\ IF parent[request[x].at] = request[x].affiliate THEN Ends(x)
     ELSE RequestIs(x, [request[x] EXCEPT !.pc = "assign"])
  /\ UNCHANGED <<registered, referral, members, parent, upline, status, credits, serial>>

\* One row is read at a time, up to the root.
Walk(x) ==
  /\ request[x].pc = "walk"
  /\ LET up == parent[request[x].at]
     IN  \/ request[x].at = request[x].affiliate /\ Ends(x)
         \/ /\ request[x].at # request[x].affiliate
            /\ RequestIs(x, IF up = None THEN [request[x] EXCEPT !.pc = "assign"]
                                       ELSE [request[x] EXCEPT !.at = up])
  /\ UNCHANGED <<registered, referral, members, parent, upline, status, credits, serial>>

Assign(x) ==
  /\ request[x].pc = "assign"
  /\ parent' = [parent EXCEPT ![request[x].affiliate] = request[x].above]
  /\ Ends(x)
  /\ UNCHANGED <<registered, referral, members, upline, status, credits, serial>>

StartReview(x, r, pc) ==
  /\ MayStart(x)
  /\ RequestIs(x, [pc |-> pc, row |-> r])
  /\ UNCHANGED <<registered, referral, members, parent, upline, status, credits, serial>>

\* transitionCommissionStatus: a read, and an update by id
ReadToApprove(x, r) == status[r] = "PENDING" /\ StartReview(x, r, "approve")

Approve(x) ==
  /\ request[x].pc = "approve"
  /\ status' = [status EXCEPT ![request[x].row] = "APPROVED"]
  /\ Ends(x)
  /\ UNCHANGED <<registered, referral, members, parent, upline, credits, serial>>

\* Mutant: a commission is paid as soon as it is there.
ReadAny(x, r) == status[r] \in {"PENDING", "APPROVED"} /\ StartReview(x, r, "pay")

ReadToPay(x, r) == status[r] = "APPROVED" /\ StartReview(x, r, "pay")

Credited(r) == credits' = [credits EXCEPT ![r] = IF @ = 2 THEN 2 ELSE @ + 1]

\* Mutant: the credit is a transaction of its own, and the mark is forgotten.
PayUnmarked(x) ==
  /\ request[x].pc = "pay"
  /\ Credited(request[x].row)
  /\ Ends(x)
  /\ UNCHANGED <<registered, referral, members, parent, upline, status, serial>>

\* payCommission's transaction: wallet, transaction row and status
Pay(x) ==
  /\ request[x].pc = "pay"
  /\ Credited(request[x].row)
  /\ status' = [status EXCEPT ![request[x].row] = "PAID"]
  /\ Ends(x)
  /\ UNCHANGED <<registered, referral, members, parent, upline, serial>>

\* The request ends with its process, before its last write.
Abandon(x) ==
  /\ request[x] # NoRequest
  /\ Ends(x)
  /\ UNCHANGED <<registered, referral, members, parent, upline, status, credits, serial>>

-----------------------------------------------------------------------------
(***************************************************************************)
(* processExecutedOrder, once per executed order                           *)
(***************************************************************************)
Execute(o, u) ==
  /\ upline[o] = Fresh
  /\ u \in registered
  /\ upline' = [upline EXCEPT ![o] = IF referral[u] = None THEN [@ EXCEPT !.pc = "done"]
                                     ELSE [@ EXCEPT !.pc = "climb", !.at = referral[u]]]
  /\ UNCHANGED <<registered, referral, members, parent, status, credits, request, serial>>

\* Mutant: up to the root, however far it is.
ClimbToRoot(o) ==
  /\ upline[o].pc = "climb"
  /\ LET found == Append(upline[o].found, upline[o].at)
         up    == parent[upline[o].at]
     IN  upline' = [upline EXCEPT ![o] =
           IF up = None THEN [pc |-> "create", at |-> None, found |-> found]
           ELSE [pc |-> "climb", at |-> up, found |-> found]]
  /\ UNCHANGED <<registered, referral, members, parent, status, credits, request, serial>>

\* resolveUplineAffiliatesForUser: one affiliate a step
Climb(o) ==
  /\ upline[o].pc = "climb"
  /\ LET found == Append(upline[o].found, upline[o].at)
         up    == parent[upline[o].at]
     IN  upline' = [upline EXCEPT ![o] =
           IF up = None \/ Len(found) = MaxLevel
           THEN [pc |-> "create", at |-> None, found |-> found]
           ELSE [pc |-> "climb", at |-> up, found |-> found]]
  /\ UNCHANGED <<registered, referral, members, parent, status, credits, request, serial>>

Found(o) == {<<upline[o].found[i], o, i>> : i \in DOMAIN upline[o].found}

\* Mutant: without the unique key.
AllRows(o) == Found(o)

\* skipDuplicates on (affiliateId, orderId): the first row stays.
NewRows(o) ==
  {r \in Found(o) : ~\E s \in Found(o) : s[1] = r[1] /\ s[3] < r[3]}

\* Nothing is retried when this fails: Promise.allSettled.
CreateCommissions(o) ==
  /\ upline[o].pc = "create"
  /\ upline' = [upline EXCEPT ![o] = [Fresh EXCEPT !.pc = "done"]]
  /\ \/ status' = [r \in Rows |-> IF r \in NewRows(o) THEN "PENDING" ELSE status[r]]
     \/ UNCHANGED status
  /\ UNCHANGED <<registered, referral, members, parent, credits, request, serial>>

-----------------------------------------------------------------------------
AdminStep(x) ==
  \/ \E a, p \in Users : StartAssign(x, a, p)
  \/ Walk(x) \/ Assign(x)
  \/ \E r \in Rows : ReadToApprove(x, r) \/ ReadToPay(x, r)
  \/ Approve(x) \/ Pay(x)
  \/ Abandon(x)

AffiliatesNext ==
  \/ \E u \in Users : Register(u) \/ Apply(u) \/ \E o \in Orders : Execute(o, u)
  \/ \E o \in Orders : Climb(o) \/ CreateCommissions(o)
  \/ \E x \in Admins : AdminStep(x)

AffiliatesSpec == AffiliatesInit /\ [][AffiliatesNext]_affiliateVars

\* Users, and administrators, are interchangeable.
Symmetric == Permutations(Users) \cup Permutations(Admins)

-----------------------------------------------------------------------------
AffiliateTypes ==
  /\ registered \in SUBSET Users /\ members \in SUBSET registered
  /\ referral \in [Users -> Users \cup {None}]
  /\ parent \in [Users -> Users \cup {None}]
  /\ \A o \in Orders :
       /\ upline[o].pc \in {"none", "climb", "create", "done"}
       /\ upline[o].at \in Users \cup {None}
       /\ upline[o].found \in Seq(Users) /\ Len(upline[o].found) <= MaxLevel
  /\ status \in [Rows -> Statuses]
  /\ credits \in [Rows -> 0 .. 2]
  /\ \A x \in Admins : request[x].pc \in {"idle", "walk", "assign", "approve", "pay"}
  /\ serial \in BOOLEAN

\* As long as administrators act one at a time, no affiliate is above itself,
\* whoever applies or trades meanwhile: whatever affiliates one takes, one of
\* them has a parent outside, or none. (Two at a time can make a ring, which
\* assertNoAffiliateHierarchyCycle and getTree then never leave.)
HierarchyIsForest ==
  serial => \A S \in (SUBSET Users) \ {{}} : \E a \in S : parent[a] \notin S

\* No affiliate earns twice from one order, even when the hierarchy changes
\* under the climb or has a ring.
OneCommissionPerAffiliate ==
  \A r, s \in Rows :
    (status[r] # "none" /\ status[s] # "none" /\ r[1] = s[1] /\ r[2] = s[2]) => r = s

\* As long as administrators act one at a time, a commission is credited as
\* often as it is PAID.
CreditedIfPaid ==
  serial => \A r \in Rows : credits[r] = (IF status[r] = "PAID" THEN 1 ELSE 0)

\* The tree of affiliates, what they earn and what they are paid agree.
AffiliatesAgree ==
  AffiliateTypes /\ HierarchyIsForest /\ OneCommissionPerAffiliate /\ CreditedIfPaid

\* However payouts and approvals overlap, what is credited was approved before.
CreditNeedsApproval ==
  [][\A r \in Rows : credits'[r] # credits[r] => status[r] \in {"APPROVED", "PAID"}]_affiliateVars
=============================================================================
