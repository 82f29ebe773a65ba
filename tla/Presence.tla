------------------------------- MODULE Presence -------------------------------
(***************************************************************************)
(* Who of the administrators is online (admin-chat.gateway.ts): a socket   *)
(* counts for its administrator once its token is verified, which takes a  *)
(* while, in which it may disconnect.                                      *)
(***************************************************************************)
CONSTANTS
  Sockets,
  Operators,
  OwnerOf \* the administrator whose token a socket comes with

VARIABLES
  socket, \* away, verifying, joined or gone
  online, \* connectedAdmins: sockets of each administrator that has an entry
  hasty   \* sockets that disconnected before their token was verified

vars == <<socket, online, hasty>>

Init ==
  /\ socket = [s \in Sockets |-> "away"]
  /\ online = [a \in Operators |-> {}]
  /\ hasty = {}

\* handleConnection
Connect(s) ==
  /\ socket[s] = "away"
  /\ socket' = [socket EXCEPT ![s] = "verifying"]
  /\ UNCHANGED <<online, hasty>>

\* The token is refused: client.disconnect.
Refused(s) ==
  /\ socket[s] = "verifying"
  /\ socket' = [socket EXCEPT ![s] = "gone"]
  /\ UNCHANGED <<online, hasty>>

\* It is verified, also for a socket that has disconnected meanwhile.
Verified(s) ==
  /\ socket[s] = "verifying" \/ s \in hasty
  /\ socket' = [socket EXCEPT ![s] = IF @ = "verifying" THEN "joined" ELSE @]
  /\ online' = [online EXCEPT ![OwnerOf[s]] = @ \cup {s}]
  /\ UNCHANGED hasty

\* Mutant: the last tab to go takes the administrator with it.
Without(a, s) == {}

\* handleDisconnect: the entry of an administrator with no socket is deleted.
Remaining(a, s) == online[a] \ {s}

\* client.data.userId is unknown before the token is verified.
Disconnect(s) ==
  \/ /\ socket[s] = "joined"
     /\ online' = [online EXCEPT ![OwnerOf[s]] = Remaining(OwnerOf[s], s)]
     /\ socket' = [socket EXCEPT ![s] = "gone"]
     /\ UNCHANGED hasty
  \/ /\ socket[s] = "verifying"
     /\ socket' = [socket EXCEPT ![s] = "gone"]
     /\ hasty' = hasty \cup {s}
     /\ UNCHANGED online

Next == \E s \in Sockets : Connect(s) \/ Refused(s) \/ Verified(s) \/ Disconnect(s)

Spec == Init /\ [][Next]_vars

-----------------------------------------------------------------------------
TypeOK ==
  /\ socket \in [Sockets -> {"away", "verifying", "joined", "gone"}]
  /\ online \in [Operators -> SUBSET Sockets]
  /\ hasty \subseteq Sockets

\* An administrator is online exactly as long as one of its sockets is
\* connected, except for sockets that left before they were verified.
OnlineIffConnected ==
  \A a \in Operators :
    (\A s \in hasty : OwnerOf[s] # a)
    => (online[a] # {} <=> \E s \in Sockets : OwnerOf[s] = a /\ socket[s] = "joined")
=============================================================================
