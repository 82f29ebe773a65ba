----------------------------- MODULE ClientSession -----------------------------
(***************************************************************************)
(* The requests of a signed-in browser (http.ts) and the session it keeps  *)
(* in its storage (auth-storage.ts, auth-store.ts): a request whose access *)
(* token is refused refreshes the session and is sent once more; one that  *)
(* gets no answer is sent again if it only reads.                          *)
(***************************************************************************)
EXTENDS Integers

CONSTANTS
  Calls,     \* requests that can be on the way together
  Posts,     \* those of them that do not only read
  MaxToken,  \* bound: refreshes of the session, plus one
  MaxLosses  \* bound: requests and answers that the network loses

VARIABLES
  stored,  \* the token pair in the storage: its number, 0 for none
  server,  \* the session's row: live, and the number of its refresh token
  expired, \* access tokens that have expired
  call,
  ran,     \* how often the server has run each request, up to 2
  single,  \* whether requests wait for one another
  lost

vars == <<stored, server, expired, call, ran, single, lost>>

Done == [pc |-> "done"]
Waiting(c) == call[c] # Done
Becomes(c, r) == call' = [call EXCEPT ![c] = r]

Init ==
  /\ stored = 1 /\ server = [live |-> TRUE, token |-> 1] /\ expired = {}
  /\ call = [c \in Calls |-> Done]
  /\ ran = [c \in Calls |-> 0]
  /\ single \in BOOLEAN
  /\ lost = 0

\* apiRequest, doRequest: the request leaves with the access token of the storage.
Send(c) ==
  /\ call[c] = Done /\ ran[c] = 0
  /\ single => \A d \in Calls : call[d] = Done
  /\ Becomes(c, [pc |-> "sent", token |-> stored, try |-> "first"])
  /\ UNCHANGED <<stored, server, expired, ran, single, lost>>

\* The server checks the token and its session, and runs the request, which it
\* may still refuse.
Serve(c) ==
  /\ call[c].pc = "sent"
  /\ \/ /\ call[c].token = 0 \/ call[c].token \in expired \/ ~server.live
        /\ Becomes(c, [call[c] EXCEPT !.pc = "unauthorized"])
        /\ UNCHANGED ran
     \/ /\ call[c].token \notin expired \cup {0} /\ server.live
        /\ ran' = [ran EXCEPT ![c] = IF @ = 2 THEN 2 ELSE @ + 1]
        /\ Becomes(c, [call[c] EXCEPT !.pc = "ok"])
     \/ /\ call[c].token \notin expired \cup {0} /\ server.live
        /\ Becomes(c, [call[c] EXCEPT !.pc = "refused"])
        /\ UNCHANGED ran
  /\ UNCHANGED <<stored, server, expired, single, lost>>

\* The request or its answer does not arrive.
Lose(c) ==
  /\ call[c].pc \in {"sent", "ok", "refused", "unauthorized", "refresh", "rotated"}
  /\ lost < MaxLosses /\ lost' = lost + 1
  /\ Becomes(c, [call[c] EXCEPT !.pc = "broken"])
  /\ UNCHANGED <<stored, server, expired, ran, single>>

\* The session of the storage is cleared, and the pages are told.
Clear(c) ==
  /\ stored' = 0
  /\ Becomes(c, Done)

Received(c) ==
  /\ call[c].pc = "ok"
  /\ Becomes(c, Done)
  /\ UNCHANGED <<stored, server, expired, ran, single, lost>>

\* A refusal ends the request; after a refresh it ends the session, too.
Refused(c) ==
  /\ call[c].pc = "refused"
  /\ IF call[c].try = "refreshed" THEN Clear(c) ELSE Becomes(c, Done) /\ UNCHANGED stored
  /\ UNCHANGED <<server, expired, ran, single, lost>>

\* Mutant: every request is sent again.
BrokenAny(c) ==
  /\ call[c].pc = "broken"
  /\ \/ /\ call[c].try = "first"
        /\ Becomes(c, [call[c] EXCEPT !.pc = "sent", !.try = "last", !.token = stored])
        /\ UNCHANGED stored
     \/ call[c].try = "last" /\ Becomes(c, Done) /\ UNCHANGED stored
     \/ call[c].try = "refreshed" /\ Clear(c)
  /\ UNCHANGED <<server, expired, ran, single, lost>>

\* fetch throws: half a second later, a first attempt to read is repeated; a
\* failure of the refresh, or after it, ends the session.
Broken(c) ==
  /\ call[c].pc = "broken"
  /\ \/ /\ call[c].try = "first" /\ c \notin Posts
        /\ Becomes(c, [call[c] EXCEPT !.pc = "sent", !.try = "last", !.token = stored])
        /\ UNCHANGED stored
     \/ /\ call[c].try = "last" \/ (call[c].try = "first" /\ c \in Posts)
        /\ Becomes(c, Done) /\ UNCHANGED stored
     \/ call[c].try = "refreshed" /\ Clear(c)
  /\ UNCHANGED <<server, expired, ran, single, lost>>

\* Mutant: an access token that is refused ends the session.
UnauthorizedEnds(c) ==
  /\ call[c].pc = "unauthorized"
  /\ Clear(c)
  /\ UNCHANGED <<server, expired, ran, single, lost>>

\* Status 401: refreshAccessToken, with the refresh token of the storage
Unauthorized(c) ==
  /\ call[c].pc = "unauthorized"
  /\ IF call[c].try = "first"
     THEN IF stored = 0 THEN Clear(c)
          ELSE /\ Becomes(c, [call[c] EXCEPT !.pc = "refresh", !.try = "refreshed", !.token = stored])
               /\ UNCHANGED stored
     ELSE IF call[c].try = "refreshed" THEN Clear(c)
          ELSE Becomes(c, Done) /\ UNCHANGED stored
  /\ UNCHANGED <<server, expired, ran, single, lost>>

\* The server's refresh, as one step: only the session's present token is taken.
Rotate(c) ==
  /\ call[c].pc = "refresh" /\ server.token < MaxToken
  /\ IF server.live /\ call[c].token = server.token
     THEN /\ server' = [server EXCEPT !.token = @ + 1]
          /\ Becomes(c, [call[c] EXCEPT !.pc = "rotated", !.token = @ + 1])
     ELSE /\ Becomes(c, [call[c] EXCEPT !.pc = "unauthorized"])
          /\ UNCHANGED server
  /\ UNCHANGED <<stored, expired, ran, single, lost>>

\* Mutant: the refresh token that came along is not kept.
RefreshedOnce(c) ==
  /\ call[c].pc = "rotated"
  /\ Becomes(c, [call[c] EXCEPT !.pc = "sent"])
  /\ UNCHANGED <<stored, server, expired, ran, single, lost>>

\* saveStoredAuthSession, and the request is sent again with the new token.
Refreshed(c) ==
  /\ call[c].pc = "rotated"
  /\ stored' = call[c].token
  /\ Becomes(c, [call[c] EXCEPT !.pc = "sent"])
  /\ UNCHANGED <<server, expired, ran, single, lost>>

Expire ==
  /\ expired' = expired \cup {stored, server.token}
  /\ expired' # expired
  /\ UNCHANGED <<stored, server, call, ran, single, lost>>

\* An administrator, or another device, revokes the session.
Revoke ==
  /\ server.live
  /\ server' = [server EXCEPT !.live = FALSE]
  /\ UNCHANGED <<stored, expired, call, ran, single, lost>>

Next ==
  \/ Expire \/ Revoke
  \/ \E c \in Calls :
       \/ Send(c) \/ Serve(c) \/ Lose(c) \/ Received(c)
       \/ Refused(c) \/ Broken(c) \/ Unauthorized(c) \/ Rotate(c) \/ Refreshed(c)

Spec == Init /\ [][Next]_vars

-----------------------------------------------------------------------------
TypeOK ==
  /\ stored \in 0 .. MaxToken
  /\ server \in [live : BOOLEAN, token : 1 .. MaxToken]
  /\ expired \subseteq 0 .. MaxToken
  /\ \A c \in Calls : Waiting(c) => call[c].token \in 0 .. MaxToken
                                 /\ call[c].try \in {"first", "last", "refreshed"}
  /\ ran \in [Calls -> 0 .. 2] /\ lost \in 0 .. MaxLosses

\* A request that changes something, an order say, is run once at most,
\* whatever is lost and however often it is sent.
PostsRunOnce == \A c \in Posts : ran[c] <= 1

\* As long as requests wait for one another and nothing is lost, a browser that
\* is signed in holds the present refresh token of its session.
PresentTokenIsHeld ==
  single /\ lost = 0 /\ stored # 0 /\ (\A c \in Calls : ~Waiting(c)) =>
    stored = server.token

\* Then an access token that expires signs nobody out, either: a session ends
\* in the browser because the server has ended it, or after a refresh, because
\* the server refuses the request or the new access token has expired as well.
SignedOutForCause ==
  [][single /\ lost = 0 /\ stored # 0 /\ stored' = 0 =>
       \/ ~server.live
       \/ \E c \in Calls :
            /\ Waiting(c) /\ call[c].try = "refreshed" /\ call[c].token = server.token
            /\ call[c].pc = "refused" \/ call[c].token \in expired]_stored
=============================================================================
