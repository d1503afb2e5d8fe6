----------------------------- MODULE Connection -----------------------------
(***************************************************************************)
(* What the rest of the client may assume of its connection to the         *)
(* keyserver, and what UpdateSync takes for granted: there is at most one, *)
(* it is initialised at most once, requests are made on an existing        *)
(* connection, and each of them is settled, by an answer or by a failure,  *)
(* no later than the connection ends.                                      *)
(***************************************************************************)
CONSTANTS
  Requests,   \* messages that wait for an answer
  Initial     \* those that initialise a connection

VARIABLES
  phase,      \* of the connection: none, opening, or initialised
  pending     \* the requests waiting for their answers

vars == <<phase, pending>>

Init == phase = "none" /\ pending = {}

\* a connection is opened, where there was none or in the place of another
Open == phase' = "opening" /\ pending' = {}

\* its initial message, or the one retry of it
Start ==
  /\ phase = "opening"
  /\ pending \cap Initial = {}
  /\ \E r \in Initial : pending' = pending \cup {r}
  /\ UNCHANGED phase

Request ==
  /\ phase # "none"
  /\ \E r \in Requests \ (Initial \cup pending) : pending' = pending \cup {r}
  /\ UNCHANGED phase

Settle ==
  /\ \E r \in pending : pending' = pending \ {r}
  /\ UNCHANGED phase

\* the answer to the initial message initialises the connection
Initialise ==
  /\ phase = "opening"
  /\ \E r \in pending \cap Initial : pending' = pending \ {r}
  /\ phase' = "initialised"

\* a failed initial message is followed at once by its retry
Retry ==
  /\ phase = "opening"
  /\ \E r \in pending \cap Initial, q \in Initial :
       q # r /\ pending' = (pending \ {r}) \cup {q}
  /\ UNCHANGED phase

End == phase' = "none" /\ pending' = {}

Next == Open \/ Start \/ Request \/ Settle \/ Initialise \/ Retry \/ End
Spec == Init /\ [][Next]_vars
=============================================================================
