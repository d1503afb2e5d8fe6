---------------------------- MODULE MCUpdateSync ----------------------------
(***************************************************************************)
(* Instances of UpdateSync for TLC, and the environment under which the    *)
(* checkpoint protocol alone delivers everything.                          *)
(***************************************************************************)
EXTENDS UpdateSync

Active == \E w \in Calls : calls[w].todo # {}

\* from the read of a state sync to the start of the Redis subscription
Blind == \/ sock.phase \in {"hydrate", "reply"}
         \/ sock.phase = "live" /\ sub # "on"

\* One call of createUpdates at a time, each in a millisecond of its own,
\* and none while a socket is between its state sync and its subscription.
\* The code enforces none of this; NothingMissed says what rests on it.
Quiet ==
  /\ made' # made => ~Active /\ ~Blind /\ calls'[made'].time > Clock
  /\ Blind' => ~Active

QuietSpec == Init /\ [][Next /\ Quiet]_vars

Fairness ==
  /\ \A w \in Calls : WF_vars(CallStep(w) /\ Quiet)
  /\ WF_vars(HandlerStep /\ Quiet)
  /\ WF_vars(ClientStep)

FairQuietSpec == QuietSpec /\ Fairness

\* At rest nothing is in progress and the session is connected.
AtRest == /\ ~Active
          /\ client.status = "connected"
          /\ sub = "on"
          /\ inbox = << >>
          /\ wire = << >>

\* In a quiet environment nothing is missed: whatever sockets closed and
\* whatever was ignored, a client at rest has the content of the database.
NothingMissed == AtRest => client.view = truth

\* and it gets there: sockets stop closing and calls stop being made, then
\* the client's store ends up equal to the database
EventuallyInSync == <>[](client.view = truth)
=============================================================================
