------------------------------- MODULE Sessions -------------------------------
(***************************************************************************)
(* The sessions of one user (sessions.service.ts) and the tokens that work *)
(* once: a password reset or an email verification (auth.service.ts), and  *)
(* the code that confirms a withdrawal (withdrawal-otp.service.ts). A      *)
(* refresh token is known by its generation.                               *)
(***************************************************************************)
EXTENDS Integers

CONSTANTS
  Ids,      \* sessions
  Requests, \* that can be on the way together
  Links,    \* tokens sent in a link: used and deleted in one transaction
  Codes,    \* codes that are marked as used
  MaxToken  \* bound: generations of a refresh token

VARIABLES
  session, \* rows: status, and the token whose hash is stored
  held,    \* the token the client of a session holds
  once,    \* of each link and code: none, valid or gone
  uses,    \* what each link and code was used for, up to twice
  request,
  oneTab   \* whether a session or a code is used by one request at a time

vars == <<session, held, once, uses, request, oneTab>>

Idle == [pc |-> "idle"]
Tokens == Links \cup Codes

Init ==
  /\ session = [s \in Ids |-> [status |-> "none", token |-> 0]]
  /\ held = [s \in Ids |-> 0]
  /\ once = [t \in Tokens |-> "none"]
  /\ uses = [t \in Tokens |-> 0]
  /\ request = [r \in Requests |-> Idle]
  /\ oneTab \in BOOLEAN

Busy == {q \in Requests : request[q] # Idle}

Begins(r, new) ==
  /\ request[r] = Idle
  /\ oneTab => new.of \notin {request[q].of : q \in Busy}
  /\ request' = [request EXCEPT ![r] = new]
  /\ UNCHANGED <<session, held, once, uses, oneTab>>

Becomes(r, new) == request' = [request EXCEPT ![r] = new]

\* createSession, at a login
Login(s) ==
  /\ session[s].status = "none"
  /\ session' = [session EXCEPT ![s] = [status |-> "live", token |-> 1]]
  /\ held' = [held EXCEPT ![s] = 1]
  /\ UNCHANGED <<once, uses, request, oneTab>>

\* rotateSession finds the session by the token it is sent, ...
StartRefresh(r, s) ==
  /\ session[s].status = "live" /\ session[s].token = held[s]
  /\ Begins(r, [pc |-> "rotate", of |-> s])

\* Mutant: the row is written back as it was read.
RotateWhole(r) ==
  /\ request[r].pc = "rotate"
  /\ LET s == request[r].of
         n == session[s].token + 1
     IN  /\ n <= MaxToken
         /\ session' = [session EXCEPT ![s] = [status |-> "live", token |-> n]]
         /\ Becomes(r, [pc |-> "answer", of |-> s, token |-> n])
  /\ UNCHANGED <<held, once, uses, oneTab>>

\* ... stores another token by the session's id, ...
Rotate(r) ==
  /\ request[r].pc = "rotate"
  /\ LET s == request[r].of
         n == session[s].token + 1
     IN  /\ n <= MaxToken
         /\ session' = [session EXCEPT ![s].token = n]
         /\ Becomes(r, [pc |-> "answer", of |-> s, token |-> n])
  /\ UNCHANGED <<held, once, uses, oneTab>>

\* Mutant: the client is answered the token it sent.
AnswerOld(r) ==
  /\ request[r].pc = "answer"
  /\ held' = [held EXCEPT ![request[r].of] = request[r].token - 1]
  /\ Becomes(r, Idle)
  /\ UNCHANGED <<session, once, uses, oneTab>>

\* ... and the client holds what it is answered last.
Answer(r) ==
  /\ request[r].pc = "answer"
  /\ held' = [held EXCEPT ![request[r].of] = request[r].token]
  /\ Becomes(r, Idle)
  /\ UNCHANGED <<session, once, uses, oneTab>>

\* revokeSession, and logoutAllSessions of every live session but one
Revoke(S) ==
  /\ \A s \in S : session[s].status # "none"
  /\ session' = [s \in Ids |-> IF s \in S THEN [session[s] EXCEPT !.status = "revoked"]
                               ELSE session[s]]
  /\ UNCHANGED <<held, once, uses, request, oneTab>>

LogoutAll(keep) == Revoke({s \in Ids : session[s].status = "live"} \ {keep})

Issue(t) ==
  /\ once[t] = "none"
  /\ once' = [once EXCEPT ![t] = "valid"]
  /\ UNCHANGED <<session, held, uses, request, oneTab>>

\* resetPassword, verifyEmail and verify read the token, ...
StartUse(r, t) == once[t] = "valid" /\ Begins(r, [pc |-> "use", of |-> t])

Used(t) == uses' = [uses EXCEPT ![t] = IF @ = 2 THEN 2 ELSE @ + 1]

\* Mutant: deleting a token that is gone is no error.
UseDeletedLink(r) ==
  /\ request[r].pc = "use" /\ request[r].of \in Links
  /\ once' = [once EXCEPT ![request[r].of] = "gone"]
  /\ Used(request[r].of)
  /\ Becomes(r, Idle)
  /\ UNCHANGED <<session, held, oneTab>>

\* ... a link's transaction fails when its token was deleted by another, ...
UseLink(r) ==
  /\ request[r].pc = "use" /\ request[r].of \in Links
  /\ IF once[request[r].of] = "valid"
     THEN once' = [once EXCEPT ![request[r].of] = "gone"] /\ Used(request[r].of)
     ELSE UNCHANGED <<once, uses>>
  /\ Becomes(r, Idle)
  /\ UNCHANGED <<session, held, oneTab>>

\* ... and a code is marked by its id.
UseCode(r) ==
  /\ request[r].pc = "use" /\ request[r].of \in Codes
  /\ once' = [once EXCEPT ![request[r].of] = "gone"]
  /\ Used(request[r].of)
  /\ Becomes(r, Idle)
  /\ UNCHANGED <<session, held, oneTab>>

Next ==
  \/ \E s \in Ids : Login(s) \/ Revoke({s}) \/ LogoutAll(s)
  \/ \E t \in Tokens : Issue(t)
  \/ \E r \in Requests :
       \/ \E s \in Ids : StartRefresh(r, s)
       \/ Rotate(r) \/ Answer(r)
       \/ \E t \in Tokens : StartUse(r, t)
       \/ UseLink(r) \/ UseCode(r)

Spec == Init /\ [][Next]_vars

-----------------------------------------------------------------------------
TypeOK ==
  /\ session \in [Ids -> [status : {"none", "live", "revoked"}, token : 0 .. MaxToken]]
  /\ held \in [Ids -> 0 .. MaxToken]
  /\ once \in [Tokens -> {"none", "valid", "gone"}] /\ uses \in [Tokens -> 0 .. 2]
  /\ \A r \in Requests : request[r].pc \in {"idle", "rotate", "answer", "use"}
  /\ oneTab \in BOOLEAN

\* A revoked session does not come to life again, not even by a refresh that
\* had found it live.
RevokedIsFinal ==
  [][\A s \in Ids : session[s].status = "revoked" => session'[s].status = "revoked"]_session

\* As long as the client of a session refreshes it once at a time, it holds
\* the token that is stored when it has its answer.
ClientCanRefresh ==
  oneTab => \A s \in Ids :
    (\A r \in Busy : request[r].of # s) => held[s] = session[s].token

\* A link is used once, however many requests have read its token; a code is
\* when it is sent once at a time.
TokensWorkOnce ==
  /\ \A t \in Links : uses[t] <= 1
  /\ oneTab => \A t \in Codes : uses[t] <= 1
=============================================================================
