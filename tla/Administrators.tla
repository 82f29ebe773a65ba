---------------------------- MODULE Administrators ----------------------------
(***************************************************************************)
(* The roles of the administrators (admin-users.service.ts). A super admin *)
(* changes the role or the activity of an administrator; who may, is read  *)
(* before the row is written. The administrators whose mail addresses are  *)
(* configured are super admins again whenever their row is read.           *)
(***************************************************************************)
CONSTANTS
  Staff,
  Seeded,     \* the administrator of superAdmin.email
  Configured, \* administrators of that and of bootstrapAdminEmails
  Forms       \* requests that can be on the way together

VARIABLES
  admin,  \* of each: role ("none" before it is created) and whether it is active
  form,
  queued  \* whether one request is handled at a time

vars == <<admin, form, queued>>

Blank == [pc |-> "blank"]
Super == [role |-> "SUPER_ADMIN", active |-> TRUE]
Roles == {"ADMIN", "SUPER_ADMIN"}
IsSuper(a) == admin[a].role = "SUPER_ADMIN"

Init ==
  /\ admin = [a \in Staff |-> IF a \in Configured THEN Super
                              ELSE [role |-> "none", active |-> FALSE]]
  /\ form = [f \in Forms |-> Blank]
  /\ queued \in BOOLEAN

\* findById, reconcileConfiguredSuperAdmin
Find(a) == [admin EXCEPT ![a] = IF a \in Configured THEN Super ELSE @]

Becomes(f, new) == form' = [form EXCEPT ![f] = new]

\* A request comes with the session of an active administrator (jwt.strategy.ts);
\* assertCanManageAdmins lets super admins pass.
Start(f, by) ==
  /\ form[f] = Blank
  /\ queued => \A g \in Forms : form[g] = Blank
  /\ Find(by)[by].role = "SUPER_ADMIN" /\ Find(by)[by].active
  /\ admin' = Find(by)
  /\ Becomes(f, [pc |-> "open", by |-> by])
  /\ UNCHANGED queued

\* createAdmin
Create(f, a, role) ==
  /\ form[f].pc = "open"
  /\ admin[a].role = "none"
  /\ admin' = [admin EXCEPT ![a] = [role |-> role, active |-> TRUE]]
  /\ Becomes(f, Blank)
  /\ UNCHANGED queued

\* Mutant: only a demotion is looked at.
CanDemote(by, a, old, new) ==
  /\ ~(by = a /\ ~new.active)
  /\ ~ /\ a # by /\ old.role = "SUPER_ADMIN"
       /\ new.role # "SUPER_ADMIN"
       /\ by # Seeded

\* assertCanModifyTarget
CanModify(by, a, old, new) ==
  /\ ~(by = a /\ ~new.active)
  /\ ~ /\ a # by /\ old.role = "SUPER_ADMIN"
       /\ new.role # "SUPER_ADMIN" \/ ~new.active
       /\ by # Seeded

\* updateAdmin and deactivateAdmin: what is not told stays as it was read.
Look(f, a, told) ==
  /\ form[f].pc = "open"
  /\ admin[a].role # "none"
  /\ admin' = Find(a)
  /\ LET old == Find(a)[a]
         new == [key \in DOMAIN old |-> IF key \in DOMAIN told THEN told[key] ELSE old[key]]
     IN  Becomes(f, IF CanModify(form[f].by, a, old, new)
                    THEN [pc |-> "write", by |-> form[f].by, of |-> a, new |-> new] ELSE Blank)
  /\ UNCHANGED queued

Write(f) ==
  /\ form[f].pc = "write"
  /\ admin' = [admin EXCEPT ![form[f].of] = form[f].new]
  /\ Becomes(f, Blank)
  /\ UNCHANGED queued

\* login, or any other request of an administrator
Comes(a) ==
  /\ admin[a].role # "none"
  /\ admin' = Find(a)
  /\ UNCHANGED <<form, queued>>

Next ==
  \/ \E a \in Staff : Comes(a)
  \/ \E f \in Forms :
       \/ Write(f)
       \/ \E a \in Staff :
            \/ Start(f, a)
            \/ \E role \in Roles : Create(f, a, role)
            \/ \E told \in [role : Roles] \cup [active : BOOLEAN] : Look(f, a, told)

Spec == Init /\ [][Next]_vars

-----------------------------------------------------------------------------
TypeOK ==
  /\ admin \in [Staff -> [role : Roles \cup {"none"}, active : BOOLEAN]]
  /\ \A f \in Forms : form[f].pc \in {"blank", "open", "write"}
  /\ queued \in BOOLEAN

Writes(a) == {form[f].by : f \in {g \in Forms : form[g].pc = "write" /\ form[g].of = a}}

\* As long as requests come one at a time, a super admin loses the role or is
\* deactivated by the seeded super admin, or gives up the role of its own.
TakenDownByRight ==
  [][queued => \A a \in Staff :
       IsSuper(a) /\ (admin'[a].role # "SUPER_ADMIN" \/ (admin[a].active /\ ~admin'[a].active))
       => Seeded \in Writes(a) \/ (a \in Writes(a) /\ admin'[a].active)]_<<admin, form>>
=============================================================================
