------------------------------ MODULE Credentials ------------------------------
(***************************************************************************)
(* The password and the second factor of one administrator. A super admin  *)
(* resets the password and mails it, and puts the old one back if the mail *)
(* fails; the administrator changes it, and sets up, confirms and disables *)
(* a second factor (admin-users.service.ts). Passwords and secrets are     *)
(* numbered as they are made.                                              *)
(***************************************************************************)
EXTENDS Integers

CONSTANTS
  Screens,     \* requests that can be on the way together
  MaxPassword, \* bounds: passwords, ...
  MaxSecret,   \* ... secrets, ...
  MaxFaults    \* ... crashes, and mails whose log fails

VARIABLES
  password, \* whose hash is stored, with the administrator and with its user
  known,    \* passwords the administrator knows
  made,     \* passwords made so far
  factor,   \* whether it is enabled, its secret, and secrets made so far
  proved,   \* the secret of the last code that was verified
  screen,
  calm,     \* whether resets do not overlap, nor requests about the factor
  faults

vars == <<password, known, made, factor, proved, screen, calm, faults>>

Closed == [pc |-> "closed", topic |-> "none"]
Under(topic) == {s \in Screens : screen[s].topic = topic}

Init ==
  /\ password = 1 /\ known = {1} /\ made = 1
  /\ factor = [on |-> FALSE, secret |-> 0, made |-> 0]
  /\ proved = 0
  /\ screen = [s \in Screens |-> Closed]
  /\ calm \in BOOLEAN
  /\ faults = 0

At(s, pc) == screen[s].pc = pc
Becomes(s, new) == screen' = [screen EXCEPT ![s] = new]

\* resetPassword reads the stored password, ...
StartReset(s) ==
  /\ At(s, "closed")
  /\ calm => Under("reset") = {}
  /\ Becomes(s, [pc |-> "store", topic |-> "reset", old |-> password])
  /\ UNCHANGED <<password, known, made, factor, proved, calm, faults>>

\* ... stores another, with the administrator and with its user, ...
StoreReset(s) ==
  /\ At(s, "store") /\ made < MaxPassword
  /\ made' = made + 1 /\ password' = made + 1
  /\ Becomes(s, [pc |-> "mail", topic |-> "reset", old |-> screen[s].old, new |-> made + 1])
  /\ UNCHANGED <<known, factor, proved, calm, faults>>

\* ... mails it, ...
Mailed(s) ==
  /\ At(s, "mail")
  /\ known' = known \cup {screen[s].new}
  /\ Becomes(s, Closed)
  /\ UNCHANGED <<password, made, factor, proved, calm, faults>>

\* Mutant: a mail that fails is left at that.
MailFailsOnly(s) ==
  /\ At(s, "mail")
  /\ Becomes(s, Closed)
  /\ UNCHANGED <<password, known, made, factor, proved, calm, faults>>

MailFails(s) ==
  /\ At(s, "mail")
  /\ Becomes(s, [screen[s] EXCEPT !.pc = "restore"])
  /\ UNCHANGED <<password, known, made, factor, proved, calm, faults>>

\* ... and puts the one it has read back if the mail fails.
Restore(s) ==
  /\ At(s, "restore")
  /\ password' = screen[s].old
  /\ Becomes(s, Closed)
  /\ UNCHANGED <<known, made, factor, proved, calm, faults>>

\* The log of a mail that was sent fails, and that counts as a mail that failed
\* (sendDirectEmailToUser).
LogFails(s) ==
  /\ At(s, "mail")
  /\ faults < MaxFaults /\ faults' = faults + 1
  /\ known' = known \cup {screen[s].new}
  /\ Becomes(s, [screen[s] EXCEPT !.pc = "restore"])
  /\ UNCHANGED <<password, made, factor, proved, calm>>

\* A crash, or an error that ends the request
Break(s) ==
  /\ ~At(s, "closed")
  /\ faults < MaxFaults /\ faults' = faults + 1
  /\ Becomes(s, Closed)
  /\ UNCHANGED <<password, known, made, factor, proved, calm>>

\* changeMyPassword, and changePassword of users.service.ts
StartChange(s) ==
  /\ At(s, "closed")
  /\ password \in known
  /\ Becomes(s, [pc |-> "change", topic |-> "change"])
  /\ UNCHANGED <<password, known, made, factor, proved, calm, faults>>

Change(s) ==
  /\ At(s, "change") /\ made < MaxPassword
  /\ made' = made + 1 /\ password' = made + 1
  /\ known' = known \cup {made + 1}
  /\ Becomes(s, Closed)
  /\ UNCHANGED <<factor, proved, calm, faults>>

\* Mutant: a factor that is enabled stays so with another secret.
SetupWhileOn ==
  /\ calm => Under("factor") = {}
  /\ factor.made < MaxSecret
  /\ factor' = [factor EXCEPT !.secret = factor.made + 1, !.made = @ + 1]
  /\ UNCHANGED <<password, known, made, proved, screen, calm, faults>>

\* storePending2FaSecret
Setup ==
  /\ calm => Under("factor") = {}
  /\ factor.made < MaxSecret
  /\ factor' = [on |-> FALSE, secret |-> factor.made + 1, made |-> factor.made + 1]
  /\ UNCHANGED <<password, known, made, proved, screen, calm, faults>>

\* confirm2Fa and disable2Fa verify a code of the secret they have read, ...
StartFactor(s, to) ==
  /\ At(s, "closed")
  /\ calm => Under("factor") = {}
  /\ factor.secret # 0
  /\ to = "disable" => factor.on
  /\ proved' = factor.secret
  /\ Becomes(s, [pc |-> to, topic |-> "factor"])
  /\ UNCHANGED <<password, known, made, factor, calm, faults>>

\* ... and write without another look at it.
Confirm(s) ==
  /\ At(s, "confirm")
  /\ factor' = [factor EXCEPT !.on = TRUE]
  /\ Becomes(s, Closed)
  /\ UNCHANGED <<password, known, made, proved, calm, faults>>

Disable(s) ==
  /\ At(s, "disable")
  /\ factor' = [factor EXCEPT !.on = FALSE, !.secret = 0]
  /\ Becomes(s, Closed)
  /\ UNCHANGED <<password, known, made, proved, calm, faults>>

Next ==
  \/ Setup
  \/ \E s \in Screens :
       \/ StartReset(s) \/ StoreReset(s) \/ Mailed(s) \/ MailFails(s) \/ Restore(s)
       \/ LogFails(s) \/ Break(s) \/ StartChange(s) \/ Change(s)
       \/ StartFactor(s, "confirm") \/ StartFactor(s, "disable") \/ Confirm(s) \/ Disable(s)

Spec == Init /\ [][Next]_vars

-----------------------------------------------------------------------------
TypeOK ==
  /\ {password, made} \subseteq 1 .. MaxPassword /\ known \subseteq 1 .. made
  /\ factor \in [on : BOOLEAN, secret : 0 .. MaxSecret, made : 0 .. MaxSecret]
  /\ proved \in 0 .. MaxSecret
  /\ \A s \in Screens :
       screen[s].pc \in {"closed", "store", "mail", "restore", "change", "confirm", "disable"}
  /\ calm \in BOOLEAN /\ faults \in 0 .. MaxFaults

\* As long as resets do not overlap and nothing breaks, the administrator knows
\* the stored password once no reset is on the way, whether the mail has come
\* or not, and whatever it has changed in between.
PasswordIsKnown == calm /\ faults = 0 /\ Under("reset") = {} => password \in known

\* As long as requests about it do not overlap, a second factor that is enabled
\* has the secret the administrator has proved to hold.
FactorIsProved == calm /\ factor.on => factor.secret # 0 /\ factor.secret = proved
=============================================================================
