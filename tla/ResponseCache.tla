----------------------------- MODULE ResponseCache -----------------------------
(***************************************************************************)
(* The cache of answers to GET requests (common/cache): the interceptor    *)
(* that reads and fills it, and the services that remove a user's entries  *)
(* once they changed what the entries tell.                                *)
(***************************************************************************)
EXTENDS Integers

CONSTANTS
  Customers,  \* users
  Gets, Puts, \* requests that read and that change
  MaxRow,     \* bound: changes of a user's rows
  MaxMissed   \* bound: removals that never happen

VARIABLES
  rows,   \* in the database, as a count of the changes
  cached, \* answers in Redis, by key
  get, put,
  stuck, \* keys of entries that a change was to remove and did not
  missed,
  apart   \* no read is going when a change commits

vars == <<rows, cached, get, put, stuck, missed, apart>>

NoAnswer == [of |-> "nobody"]
NoRequest == [pc |-> "idle"]

\* Mutant: the scope of the resource is forgotten.
PublicKey(u) == "public"

\* buildCacheKey, of scope user
Key(u) == u

Entries == Customers \cup {"public"}

Init ==
  /\ rows = [u \in Customers |-> 0]
  /\ cached = [k \in Entries |-> NoAnswer]
  /\ get = [g \in Gets |-> NoRequest] /\ put = [p \in Puts |-> NoRequest]
  /\ stuck = {} /\ missed = 0
  /\ apart \in BOOLEAN

\* intercept: what Redis has is the answer, or what the handler reads after
\* Redis had nothing, ...
Ask(g, u) ==
  /\ get[g] = NoRequest
  /\ get' = [get EXCEPT ![g] =
       IF cached[Key(u)] = NoAnswer
       THEN [pc |-> "read", user |-> u, answer |-> [of |-> u, row |-> rows[u]]]
       ELSE [pc |-> "answered", user |-> u, answer |-> cached[Key(u)]]]
  /\ UNCHANGED <<rows, cached, put, stuck, missed, apart>>

\* ... which is sent to Redis first, and then to the client.
Fill(g) ==
  /\ get[g].pc = "read"
  /\ cached' = [cached EXCEPT ![Key(get[g].user)] = get[g].answer]
  /\ get' = [get EXCEPT ![g].pc = "answered"]
  /\ UNCHANGED <<rows, put, stuck, missed, apart>>

Return(g) ==
  /\ get[g].pc = "answered"
  /\ get' = [get EXCEPT ![g] = NoRequest]
  /\ UNCHANGED <<rows, cached, put, stuck, missed, apart>>

NoneReads(u) == \A g \in Gets : get[g] # NoRequest => get[g].user # u

Commits(p, u, next) ==
  /\ put[p] = NoRequest /\ rows[u] < MaxRow
  /\ apart => NoneReads(u)
  /\ rows' = [rows EXCEPT ![u] = @ + 1]
  /\ put' = [put EXCEPT ![p] = next]

\* Mutant: the entries are removed before the change commits.
CommitLast(p, u) ==
  /\ Commits(p, u, NoRequest)
  /\ UNCHANGED <<cached, get, stuck, missed, apart>>

\* A service changes the user's rows: setDefaultAccount, closePosition, ...
Commit(p, u) ==
  /\ Commits(p, u, [pc |-> "committed", user |-> u])
  /\ UNCHANGED <<cached, get, stuck, missed, apart>>

\* deleteByPatterns: the keys that match are looked for, ...
Scan(p) ==
  /\ put[p].pc = "committed"
  /\ put' = [put EXCEPT ![p] =
       [pc |-> "scanned", user |-> @.user, found |-> cached[Key(@.user)] # NoAnswer]]
  /\ UNCHANGED <<rows, cached, get, stuck, missed, apart>>

\* ... and those found are removed.
Remove(p) ==
  /\ put[p].pc = "scanned"
  /\ LET gone == IF put[p].found THEN {Key(put[p].user)} ELSE {} IN
       /\ cached' = [k \in Entries |-> IF k \in gone THEN NoAnswer ELSE cached[k]]
       /\ stuck' = stuck \ gone
  /\ put' = [put EXCEPT ![p] = NoRequest]
  /\ UNCHANGED <<rows, get, missed, apart>>

\* Redis fails, or the process ends: the change stays, and so does the entry.
Miss(p) ==
  /\ put[p] # NoRequest /\ missed < MaxMissed
  /\ missed' = missed + 1
  /\ stuck' = stuck \cup {Key(put[p].user)}
  /\ put' = [put EXCEPT ![p] = NoRequest]
  /\ UNCHANGED <<rows, cached, get, apart>>

\* The entry's time to live is over.
Expire(k) ==
  /\ cached[k] # NoAnswer
  /\ cached' = [cached EXCEPT ![k] = NoAnswer]
  /\ stuck' = stuck \ {k}
  /\ UNCHANGED <<rows, get, put, missed, apart>>

Next ==
  \/ \E g \in Gets :
       Fill(g) \/ Return(g) \/ \E u \in Customers : Ask(g, u)
  \/ \E p \in Puts :
       Scan(p) \/ Remove(p) \/ Miss(p) \/ \E u \in Customers : Commit(p, u)
  \/ \E k \in Entries : Expire(k)

Spec == Init /\ [][Next]_vars

-----------------------------------------------------------------------------
Answers == [of : Customers, row : 0 .. MaxRow]

TypeOK ==
  /\ rows \in [Customers -> 0 .. MaxRow]
  /\ \A k \in Entries : cached[k] = NoAnswer \/ cached[k] \in Answers
  /\ DOMAIN get = Gets /\ DOMAIN put = Puts
  /\ stuck \subseteq Entries /\ missed \in 0 .. MaxMissed /\ apart \in BOOLEAN

\* A user is answered with rows of its own.
AnswersAreOwn ==
  \A g \in Gets : get[g].pc = "answered" => get[g].answer.of = get[g].user

\* The keys whose entry a change is about to remove.
Owed == {Key(put[p].user) : p \in {q \in Puts : put[q] # NoRequest}}

\* As long as no read is going when a change commits, an entry tells the rows as
\* they are, once the change has removed what was there. (A read that began before
\* the change fills the cache after the removal: the entry then stays for its
\* time to live.)
CachedIsCurrent ==
  apart => \A u \in Customers :
             \/ Key(u) \in Owed \cup stuck
             \/ cached[Key(u)] \in {NoAnswer, [of |-> u, row |-> rows[u]]}
=============================================================================
