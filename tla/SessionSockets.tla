--------------------------- MODULE SessionSockets ---------------------------
(***************************************************************************)
(* The keyserver's sockets of one session.  A client has one socket, but   *)
(* the keyserver may still hold earlier ones it has not found dead, maybe  *)
(* in other processes.  When a handler of a socket is done the socket gets *)
(* a RedisSubscriber, which announces itself with START_SUBSCRIPTION on    *)
(* the session's channel; a subscriber that hears of another one quits and *)
(* terminates its socket.                                                  *)
(*                                                                         *)
(* A subscriber subscribes on a new connection to Redis and announces      *)
(* itself on the publisher's: the announcement may arrive before or after  *)
(* the subscription takes effect.  Of the new connection it is assumed     *)
(* that it takes longer than what was published before it was made.        *)
(***************************************************************************)
EXTENDS Naturals, Sequences

CONSTANTS
  MaxSockets,   \* bound: sockets the client opens
  MaxLosses,    \* bound: connections lost
  MaxRequests,  \* bound: requests made after INITIAL
  MaxFailures   \* bound: handlers that throw or take longer than five seconds

ASSUME BoundsAssumption ==
  /\ MaxSockets \in Nat /\ MaxLosses \in Nat
  /\ MaxRequests \in Nat /\ MaxFailures \in Nat

VARIABLES
  client,    \* the socket the client is using, or 0
  opened,    \* how many it has opened
  ws,        \* the keyserver's end of each
  handler,   \* the message a socket is handling, or INITIAL has failed
  ending,    \* sockets whose onClose has not quit the subscriber yet
  sub,       \* the socket's RedisSubscriber, this.redis
  instance,  \* how many subscribers the socket has created
  starts,    \* START_SUBSCRIPTION messages on their way to Redis, in order
  inbox,     \* those that have reached a subscriber
  losses, requests, failures

vars == <<client, opened, ws, handler, ending, sub, instance, starts, inbox,
          losses, requests, failures>>

Sockets   == 1..MaxSockets

Init ==
  /\ client = 0
  /\ opened = 0
  /\ ws = [s \in Sockets |-> "unused"]
  /\ handler = [s \in Sockets |-> "none"]
  /\ ending = {}
  /\ sub = [s \in Sockets |-> "none"]
  /\ instance = [s \in Sockets |-> 0]
  /\ starts = << >>
  /\ inbox = [s \in Sockets |-> {}]
  /\ losses = 0
  /\ requests = 0
  /\ failures = 0

redisVars == <<sub, instance, starts, inbox>>
bounds    == <<opened, losses, requests, failures>>

-----------------------------------------------------------------------------
(* The client.                                                             *)

ClientOpens ==
  /\ client = 0
  /\ opened < MaxSockets
  /\ opened' = opened + 1
  /\ client' = opened'
  /\ ws' = [ws EXCEPT ![opened'] = "open"]
  /\ handler' = [handler EXCEPT ![opened'] = "initial"]
  /\ UNCHANGED <<ending, redisVars, losses, requests, failures>>

\* an API request, a PING, an ACK: any message but INITIAL
ClientRequests ==
  /\ client # 0
  /\ ws[client] = "open"
  /\ handler[client] = "none"
  /\ requests < MaxRequests
  /\ requests' = requests + 1
  /\ handler' = [handler EXCEPT ![client] = "request"]
  /\ UNCHANGED <<client, opened, ws, ending, redisVars, losses, failures>>

\* the connection breaks, and only the client knows
ConnectionLost ==
  /\ client # 0
  /\ losses < MaxLosses
  /\ losses' = losses + 1
  /\ client' = 0
  /\ UNCHANGED <<opened, ws, handler, ending, redisVars, requests, failures>>

ClientSeesClose ==
  /\ client # 0
  /\ ws[client] = "closed"
  /\ client' = 0
  /\ UNCHANGED <<ws, handler, ending, redisVars, bounds>>

\* initializeSocket gives the socket up when INITIAL is answered with an
\* error; a retry of it on the same socket is answered with one too
ClientGivesUp ==
  /\ client # 0
  /\ handler[client] = "failed"
  /\ client' = 0
  /\ UNCHANGED <<ws, handler, ending, redisVars, bounds>>

-----------------------------------------------------------------------------
(* The keyserver's handlers.                                               *)

\* mutant: every message makes a subscriber
NeedsSubscriber_Always(s) == TRUE

NeedsSubscriber(s) == sub[s] = "none"

\* onMessage after the handler: the socket may have closed in the meantime,
\* and onClose may have taken its subscriber
HandlerEnds(s) ==
  /\ handler[s] \in {"initial", "request"}
  /\ handler' = [handler EXCEPT ![s] = "none"]
  /\ IF NeedsSubscriber(s)
     THEN /\ sub' = [sub EXCEPT ![s] = "requested"]
          /\ instance' = [instance EXCEPT ![s] = @ + 1]
          /\ starts' = Append(starts, <<s, instance[s] + 1>>)
     ELSE UNCHANGED <<sub, instance, starts>>
  /\ UNCHANGED <<client, ws, ending, inbox, bounds>>

\* onMessage when the handler has thrown, or the five seconds are over: an
\* error is sent, and no subscriber created
HandlerFails(s) ==
  /\ handler[s] \in {"initial", "request"}
  /\ failures < MaxFailures
  /\ failures' = failures + 1
  /\ handler' = [handler EXCEPT ![s] = IF @ = "initial" THEN "failed" ELSE "none"]
  /\ UNCHANGED <<client, opened, ws, ending, redisVars, losses, requests>>

-----------------------------------------------------------------------------
(* Redis.                                                                  *)

\* is the announcement of socket s behind that of another?
Behind(s) ==
  \E j \in DOMAIN starts : starts[j] = <<s, instance[s]>> /\ j # 1

SubscriptionTakesEffect(s) ==
  /\ sub[s] = "requested"
  /\ ~Behind(s)
  /\ sub' = [sub EXCEPT ![s] = "active"]
  /\ UNCHANGED <<client, ws, handler, ending, instance, starts, inbox, bounds>>

StartReaches ==
  /\ starts # << >>
  /\ starts' = Tail(starts)
  /\ inbox' = [s \in Sockets |-> IF sub[s] = "active"
                                 THEN inbox[s] \cup {Head(starts)} ELSE inbox[s]]
  /\ UNCHANGED <<client, ws, handler, ending, sub, instance, bounds>>

Own(s, i) == i = <<s, instance[s]>>

\* mutant: the subscriber quits and its socket stays open
TerminatedBy_Quit(s) == ws

\* ws.terminate, if the socket is not closed already
TerminatedBy(s) == [ws EXCEPT ![s] = "closed"]

\* RedisSubscriber.onMessage and processRedisMessage
ReceiveStart(s, i) ==
  /\ i \in inbox[s]
  /\ sub[s] = "active"
  /\ inbox' = [inbox EXCEPT ![s] = IF Own(s, i) THEN @ \ {i} ELSE {}]
  /\ IF Own(s, i)
     THEN UNCHANGED <<ws, ending, sub>>
     ELSE /\ sub' = [sub EXCEPT ![s] = "quit"]
          /\ ws' = TerminatedBy(s)
          /\ ending' = ending \cup (IF ws[s] = "open" THEN {s} ELSE {})
  /\ UNCHANGED <<client, handler, instance, starts, bounds>>

-----------------------------------------------------------------------------
(* The end of a socket.                                                    *)

\* the close frame, or 120 seconds without a message
ServerNoticesClose(s) ==
  /\ ws[s] = "open"
  /\ client # s
  /\ ws' = [ws EXCEPT ![s] = "closed"]
  /\ ending' = ending \cup {s}
  /\ UNCHANGED <<client, handler, redisVars, bounds>>

\* onClose has deleted the session's focused rows and goes on
QuitRedis(s) ==
  /\ s \in ending
  /\ ending' = ending \ {s}
  /\ sub' = [sub EXCEPT ![s] = "none"]
  /\ inbox' = [inbox EXCEPT ![s] = {}]
  /\ UNCHANGED <<client, ws, handler, instance, starts, bounds>>

-----------------------------------------------------------------------------
SocketStep(s) ==
  \/ HandlerEnds(s) \/ HandlerFails(s)
  \/ SubscriptionTakesEffect(s)
  \/ \E i \in inbox[s] : ReceiveStart(s, i)
  \/ ServerNoticesClose(s) \/ QuitRedis(s)

Next ==
  \/ ClientOpens \/ ClientRequests
  \/ ConnectionLost \/ ClientSeesClose \/ ClientGivesUp
  \/ \E s \in Sockets : SocketStep(s)
  \/ StartReaches

\* Handlers, Redis and timers go on; nothing is promised of connections
\* that break or of requests the client may make.
Fairness ==
  /\ WF_vars(ClientOpens) /\ WF_vars(ClientSeesClose) /\ WF_vars(ClientGivesUp)
  /\ \A s \in Sockets : WF_vars(SocketStep(s))
  /\ WF_vars(StartReaches)

Spec == Init /\ [][Next]_vars /\ Fairness

-----------------------------------------------------------------------------
(* Properties.                                                             *)

\* Type invariant of the sockets, their subscribers and Redis.
TypeOK ==
  /\ client \in 0..MaxSockets
  /\ opened \in 0..MaxSockets
  /\ ws \in [Sockets -> {"unused", "open", "closed"}]
  /\ handler \in [Sockets -> {"none", "initial", "request", "failed"}]
  /\ ending \subseteq Sockets
  /\ sub \in [Sockets -> {"none", "requested", "active", "quit"}]
  /\ instance \in [Sockets -> 0..2]
  /\ starts \in Seq(Sockets \X (1..2))
  /\ inbox \in [Sockets -> SUBSET (Sockets \X (1..2))]
  /\ losses \in 0..MaxLosses
  /\ requests \in 0..MaxRequests
  /\ failures \in 0..MaxFailures

\* An open socket whose INITIAL message has been answered, and not with an
\* error, is subscribed or about to be, whatever fails later: a subscriber
\* that quits takes its socket along, so a client is never left on a socket
\* that no update reaches (redis.js, socket.js).
OpenIsSubscribed ==
  \A s \in Sockets :
    ws[s] = "open" /\ handler[s] \in {"none", "request"}
      => sub[s] \in {"requested", "active"}

\* Sockets of a session that terminate each other, handlers that outlive
\* their sockets and subscribe again, come to an end: when no connection is
\* lost and no handler fails any more the client ends up with a socket that
\* stays subscribed.
EventuallyServed ==
  <>[](client # 0 /\ ws[client] = "open" /\ sub[client] = "active")
=============================================================================
