---------------------------- MODULE BrokerSettings ----------------------------
(***************************************************************************)
(* The broker's settings (broker-settings.service.ts): stored in the       *)
(* database, read from a map of the process that starts with the defaults  *)
(* and is filled from the database in the background of a start.           *)
(***************************************************************************)
EXTENDS Integers

CONSTANTS
  Keys,
  Chiefs,      \* requests that change settings
  MaxCrashes,  \* bound: restarts
  MaxLosses    \* bound: answers of the database that are lost

VARIABLES
  stored,      \* the rows: absent, the default or a choice
  cache,
  start,       \* the background of the start
  snapshot,    \* what findMany returned
  change,      \* of each request: the choice and the keys to write, written and cached
  ordered,     \* whether changes wait for the start and for one another
  lost, crashes

vars == <<stored, cache, start, snapshot, change, ordered, lost, crashes>>

Choices == {"default", "other"}
Quiet == [pc |-> "idle"]
Changing == {x \in Chiefs : change[x] # Quiet}

Init ==
  /\ stored \in [Keys -> Choices \cup {"absent"}]
  /\ cache = [k \in Keys |-> "default"]
  /\ start = [pc |-> "persist", left |-> Keys]
  /\ snapshot = stored
  /\ change = [x \in Chiefs |-> Quiet]
  /\ ordered \in BOOLEAN
  /\ lost = 0 /\ crashes = 0

\* Mutant: the upsert of a start updates, too.
PersistOver(k) ==
  /\ start.pc = "persist" /\ k \in start.left
  /\ stored' = [stored EXCEPT ![k] = "default"]
  /\ start' = [start EXCEPT !.left = @ \ {k}]
  /\ UNCHANGED <<cache, snapshot, change, ordered, lost, crashes>>

\* ensureDefaultsPersisted, one upsert: a row that is there stays as it is.
Persist(k) ==
  /\ start.pc = "persist" /\ k \in start.left
  /\ stored' = IF stored[k] = "absent" THEN [stored EXCEPT ![k] = "default"] ELSE stored
  /\ start' = [start EXCEPT !.left = @ \ {k}]
  /\ UNCHANGED <<cache, snapshot, change, ordered, lost, crashes>>

\* loadCacheFromDatabase: the query, and the loop over its rows
Query ==
  /\ start.pc = "persist" /\ start.left = {}
  /\ snapshot' = stored
  /\ start' = [start EXCEPT !.pc = "queried"]
  /\ UNCHANGED <<stored, cache, change, ordered, lost, crashes>>

Load ==
  /\ start.pc = "queried"
  /\ cache' = [k \in Keys |-> IF snapshot[k] = "absent" THEN cache[k] ELSE snapshot[k]]
  /\ start' = [start EXCEPT !.pc = "over"]
  /\ UNCHANGED <<stored, snapshot, change, ordered, lost, crashes>>

\* The database refuses one of the queries of the start, which is not tried again.
StartFails ==
  /\ start.pc \in {"persist", "queried"} /\ lost < MaxLosses
  /\ start' = [start EXCEPT !.pc = "failed"]
  /\ lost' = lost + 1
  /\ UNCHANGED <<stored, cache, snapshot, change, ordered, crashes>>

\* updateSettings and updateSymbolConfig: the keys are written side by side.
Request(x) ==
  /\ change[x] = Quiet
  /\ ordered => start.pc = "over" /\ Changing = {}
  /\ \E ks \in SUBSET Keys \ {{}}, v \in Choices :
       change' = [change EXCEPT ![x] = [pc |-> "set", to |-> v, write |-> ks, note |-> {}]]
  /\ UNCHANGED <<stored, cache, start, snapshot, ordered, lost, crashes>>

\* setSettingValue: the upsert; its answer may be lost, or the upsert refused.
Write(x, k) ==
  /\ change[x] # Quiet /\ k \in change[x].write
  /\ \/ /\ stored' = [stored EXCEPT ![k] = change[x].to]
        /\ change' = [change EXCEPT ![x].write = @ \ {k}, ![x].note = @ \cup {k}]
        /\ UNCHANGED lost
     \/ /\ lost < MaxLosses /\ lost' = lost + 1
        /\ \/ stored' = [stored EXCEPT ![k] = change[x].to]
           \/ UNCHANGED stored
        /\ change' = [change EXCEPT ![x].write = @ \ {k}]
  /\ UNCHANGED <<cache, start, snapshot, ordered, crashes>>

\* setSettingValue: the map, when the upsert was answered
Note(x, k) ==
  /\ change[x] # Quiet /\ k \in change[x].note
  /\ cache' = [cache EXCEPT ![k] = change[x].to]
  /\ change' = [change EXCEPT ![x].note = @ \ {k}]
  /\ UNCHANGED <<stored, start, snapshot, ordered, lost, crashes>>

Answer(x) ==
  /\ change[x] # Quiet /\ change[x].write = {} /\ change[x].note = {}
  /\ change' = [change EXCEPT ![x] = Quiet]
  /\ UNCHANGED <<stored, cache, start, snapshot, ordered, lost, crashes>>

\* Mutant: a start takes its map along.
CrashWarm ==
  /\ crashes < MaxCrashes /\ crashes' = crashes + 1
  /\ start' = [pc |-> "over", left |-> {}]
  /\ cache' = [k \in Keys |-> "default"]
  /\ change' = [x \in Chiefs |-> Quiet]
  /\ UNCHANGED <<stored, snapshot, ordered, lost>>

\* seedDefaultCache, onModuleInit
Crash ==
  /\ crashes < MaxCrashes /\ crashes' = crashes + 1
  /\ start' = [pc |-> "persist", left |-> Keys]
  /\ cache' = [k \in Keys |-> "default"]
  /\ change' = [x \in Chiefs |-> Quiet]
  /\ UNCHANGED <<stored, snapshot, ordered, lost>>

Next ==
  \/ Query \/ Load \/ StartFails \/ Crash
  \/ \E k \in Keys : Persist(k)
  \/ \E x \in Chiefs : Request(x) \/ Answer(x) \/ \E k \in Keys : Write(x, k) \/ Note(x, k)

Spec == Init /\ [][Next]_vars

-----------------------------------------------------------------------------
TypeOK ==
  /\ stored \in [Keys -> Choices \cup {"absent"}] /\ cache \in [Keys -> Choices]
  /\ start.pc \in {"persist", "queried", "over", "failed"} /\ start.left \subseteq Keys
  /\ \A x \in Changing : change[x].write \cap change[x].note = {}
  /\ lost \in 0 .. MaxLosses /\ crashes \in 0 .. MaxCrashes

\* As long as changes wait for the start and for one another and no answer of
\* the database is lost, what is in force after them is what is stored: a
\* trading halt that was answered holds, and holds again after a restart.
StoredIsInForce ==
  ordered /\ lost = 0 /\ start.pc = "over" /\ Changing = {} => cache = stored

\* A choice is replaced by a change of settings alone, never by a start.
ChoicesSurviveStarts ==
  [][\A k \in Keys : stored[k] \notin {"absent", stored'[k]} =>
       \E x \in Changing : k \in change[x].write /\ change[x].to = stored'[k]]_stored
=============================================================================
