---------------------------- MODULE SocketClient ----------------------------
(***************************************************************************)
(* The client's Socket component: when it opens, initialises, closes and   *)
(* reopens its WebSocket, which requests it waits for, and the connection  *)
(* status it keeps in redux.                                               *)
(*                                                                         *)
(* Every handler (an event of the WebSocket, a timer, a change of props)   *)
(* runs to its end, the continuations of promises it settles included, so  *)
(* it is one action.  A dispatch made outside of React renders at once     *)
(* (legacy root), so componentDidUpdate runs inside of it; a dispatch made *)
(* by componentDidUpdate is rendered when that has returned.               *)
(*                                                                         *)
(* The component keeps at most one WebSocket (this.socket).  Events of     *)
(* earlier ones are dropped by comparing with it, so only the current one  *)
(* is part of the state, with the keyserver's end of it.                   *)
(***************************************************************************)
EXTENDS Naturals, Sequences

CONSTANTS
  MaxUser,    \* bound: changes of active and of the openSocket function
  MaxFaults   \* bound: errors, lost connections, timeouts of late answers

ASSUME BoundsAssumption == MaxUser \in Nat /\ MaxFaults \in Nat

VARIABLES
  app,        \* the component, its props and the connection status
  user,       \* how many changes the user has made
  faults      \* how many faults have happened

vars == <<app, user, faults>>

-----------------------------------------------------------------------------
Initial  == {"init", "retry"}                   \* INITIAL, and INITIAL again
Ops      == Initial \cup {"ping", "api", "unfocus"}
Requests == [op : Initial, expects : {"sync", "act"}] \cup
            [op : {"ping"}, expects : {"pong"}] \cup
            [op : {"api", "unfocus"}, expects : {"api"}]
Errors   == {"unknown", "other"}     \* unknown_error, any other ServerError
Messages == [type : {"sync", "act", "answer", "auth", "close"} \cup Errors,
             op : Ops]

Socket == [ready : {"none", "connecting", "open", "closing"},
           retries : 0..1,           \* retriesLeft of its initializeSocket
           synced : BOOLEAN,         \* history: STATE_SYNC was dispatched
           alive : BOOLEAN,          \* does the keyserver hear it?
           viewer : BOOLEAN,         \* keyserver: this.viewer is set
           todo : SUBSET Requests,   \* keyserver: requests being handled
           wire : Seq(Messages)]     \* answers on the way to the client

NoSocket  == [ready |-> "none", retries |-> 0,
              synced |-> FALSE, alive |-> FALSE, viewer |-> FALSE,
              todo |-> {}, wire |-> << >>]
\* mutant: two retries
NewSocket_TwoRetries == [NoSocket EXCEPT !.ready = "connecting", !.retries = 2,
                                         !.alive = TRUE]

NewSocket == [NoSocket EXCEPT !.ready = "connecting", !.retries = 1,
                              !.alive = TRUE]

Init ==
  /\ app = [active |-> FALSE, status |-> "disconnected", sock |-> NoSocket,
            inflight |-> {},       \* InflightRequests.data
            reopen |-> FALSE,      \* reopenConnectionAfterClosing
            recovering |-> FALSE,  \* invalidationRecoveryInProgress
            recoveries |-> 0,      \* recoveries that have not ended
            throttled |-> FALSE,   \* two seconds after reconnect
            due |-> FALSE]         \* reconnect again when they are over
  /\ user = 0
  /\ faults = 0

-----------------------------------------------------------------------------
(* The methods of the component, as functions of its state.                *)

Opening == {"connecting", "reconnecting"}
Closing == {"disconnecting", "forcedDisconnecting"}

\* mutant: a socket that is being closed is given up for a new one
OpenSocket_Anew(a, newStatus) ==
  CASE a.sock.ready # "none" /\ a.status \in Opening \cup {"connected"} -> a
    [] OTHER -> [a EXCEPT !.status = newStatus, !.sock = NewSocket]

OpenSocket(a, newStatus) ==
  CASE a.sock.ready # "none" /\ a.status = "forcedDisconnecting" ->
         [a EXCEPT !.reopen = TRUE]
    [] a.sock.ready = "open" /\ a.status = "disconnecting" ->
         [a EXCEPT !.status = "connected"]
    [] a.sock.ready # "none" /\ a.status \in Opening \cup {"connected"} -> a
    [] OTHER ->
         [a EXCEPT !.status = newStatus, !.sock = NewSocket, !.inflight = {}]

\* mutant: a call while the throttle waits is dropped
Reconnect_Dropped(a) ==
  IF a.throttled THEN a
  ELSE OpenSocket([a EXCEPT !.throttled = TRUE], "reconnecting")

Reconnect(a) ==
  IF a.throttled THEN [a EXCEPT !.due = TRUE]
  ELSE OpenSocket([a EXCEPT !.throttled = TRUE], "reconnecting")

\* dispatch of "disconnected", and the componentDidUpdate it leads to
Disconnect(a) ==
  LET b == [a EXCEPT !.status = "disconnected"]
  IN IF a.status # "disconnected" /\ a.active /\ ~a.recovering
     THEN Reconnect(b) ELSE b

Released(a) == [a EXCEPT !.sock = NoSocket, !.inflight = {}]

Reopen(a) ==
  LET b == [a EXCEPT !.reopen = FALSE]
  IN IF a.reopen /\ a.active THEN OpenSocket(b, "connecting") ELSE b

\* allRequestsResolvedExcept
Resolved(a, op) == \A r \in a.inflight : r.expects = "pong" \/ r.op = op

NoOp == "none"

FinishClosing(a, op) ==
  IF Resolved(a, op) THEN Reopen(Disconnect(Released(a))) ELSE a

\* forceCloseSocket, called by componentDidUpdate
ForceClose(a) ==
  LET b == [a EXCEPT !.reopen = TRUE,
                     !.status = IF a.status = "disconnected" THEN @
                                ELSE "forcedDisconnecting"]
  IN IF Resolved(b, NoOp)
     THEN Reopen([Released(b) EXCEPT !.status = "disconnected"]) ELSE b

\* a message of the client, and the answers it waits for
Send(a, op, expected) ==
  LET rs == {[op |-> op, expects |-> e] : e \in expected}
  IN [a EXCEPT !.inflight = @ \cup rs,
               !.sock.todo = IF a.sock.alive THEN @ \cup rs ELSE @]

\* with a thread open, ActivityHandler gets its update out on a connected
\* socket first, and the socket waits for the answer
CloseSocket(a, activityUpdatePending) ==
  CASE a.status = "disconnected" -> a
    [] a.status \in Closing -> [a EXCEPT !.reopen = FALSE]
    [] OTHER ->
         LET b == [a EXCEPT !.status = "disconnecting"]
         IN CASE ~activityUpdatePending -> FinishClosing(b, NoOp)
              [] activityUpdatePending /\ a.status = "connected" ->
                   Send(b, "unfocus", {"api"})
              [] OTHER -> b

Close(a) == IF a.sock.ready = "none" THEN a
            ELSE [a EXCEPT !.sock.ready = "closing"]

\* the state sync, and the answer to the activity updates it carries
InitialAnswers(withActivity) == IF withActivity THEN {"sync", "act"} ELSE {"sync"}

\* What initializeSocket does about an error of sendInitialMessage: retries
\* is what it was called with, the rest of its state is read now.  A retry
\* throws at once when the socket is not open.
InitialFails(a, retries, error, withActivity) ==
  IF error = "offline" \/ a.status \notin Opening THEN a
  ELSE IF retries > 0 /\ error \in {"unknown", "plain"} /\ a.sock.ready = "open"
  THEN Send([a EXCEPT !.sock.retries = retries - 1], "retry",
            InitialAnswers(withActivity))
  ELSE Close(a)

\* is an initializeSocket waiting for its answers?
Waiting(a) == \E r \in a.inflight : r.op \in Initial

-----------------------------------------------------------------------------
(* Steps.  A handler whose socket is gone when an initialisation of it     *)
(* fails may touch the socket opened since.                                *)

Do(a) == app' = a

\* after is the state the rest of the handler left, the socket of the
\* initialisation released or not
InitialisationFails(after, retries, error) ==
  \E withActivity \in BOOLEAN :
    Do(InitialFails(after, retries, error, withActivity))

UserStep  == user < MaxUser /\ user' = user + 1 /\ UNCHANGED faults
FaultStep == faults < MaxFaults /\ faults' = faults + 1 /\ UNCHANGED user
Step      == UNCHANGED <<user, faults>>

\* componentDidUpdate: the app comes to the foreground, or a user logs in.
\* A log-in changes the cookie and with it the openSocket function, but
\* that is looked at only while the app stays active.
BecomeActive ==
  /\ UserStep
  /\ ~app.active
  /\ Do(OpenSocket([app EXCEPT !.active = TRUE], "connecting"))

BecomeInactive(threadOpen) ==
  /\ UserStep
  /\ app.active
  /\ Do(CloseSocket([app EXCEPT !.active = FALSE], threadOpen))

\* urlPrefix or the cookie changes while the app is active
ChangeFunction ==
  /\ UserStep
  /\ app.active
  /\ Do(ForceClose(app))

OnOpen(withActivity) ==
  /\ app.sock.ready = "connecting"
  /\ app.sock.alive
  /\ Step
  /\ Do(Send([app EXCEPT !.sock.ready = "open"], "init",
             InitialAnswers(withActivity)))

SendRequest ==
  /\ app.status = "connected"
  /\ \A r \in app.inflight : r.op # "api"
  /\ Step
  /\ Do(Send(app, "api", {"api"}))

SendPing ==
  /\ app.status = "connected"
  /\ \A r \in app.inflight : r.op # "ping"
  /\ Step
  /\ Do(Send(app, "ping", {"pong"}))

ThrottleEnds ==
  /\ app.throttled
  /\ Step
  /\ Do(IF app.due THEN OpenSocket([app EXCEPT !.due = FALSE], "reconnecting")
        ELSE [app EXCEPT !.throttled = FALSE])

-----------------------------------------------------------------------------
(* The keyserver.  It handles messages concurrently.                       *)

Handled(op) == {r \in app.sock.todo : r.op # op}

Replied(op, types, viewer) ==
  [app EXCEPT !.sock.todo = Handled(op),
              !.sock.viewer = @ \/ viewer,
              !.sock.wire = @ \o [i \in 1..Len(types) |->
                                    [type |-> types[i], op |-> op]]]

AnswerRequest(r) ==
  /\ r \in app.sock.todo
  /\ r.op \notin Initial
  /\ Step
  /\ Do(Replied(r.op, <<"answer">>, FALSE))

\* ACTIVITY_UPDATE_RESPONSE goes before STATE_SYNC
AnswerInitial(op) ==
  /\ \E r \in app.sock.todo : r.op = op
  /\ op \in Initial
  /\ ~app.sock.viewer
  /\ Step
  /\ Do(Replied(op, IF [op |-> op, expects |-> "act"] \in app.sock.todo
                    THEN <<"act", "sync">> ELSE <<"sync">>, TRUE))

\* socket_already_initialized
RefuseInitial(op) ==
  /\ \E r \in app.sock.todo : r.op = op
  /\ op \in Initial
  /\ app.sock.viewer
  /\ Step
  /\ Do(Replied(op, <<"other">>, TRUE))

\* Without a viewer when fetchViewerForSocket throws, which is never an
\* unknown_error: the client does not retry after that.
FailInitial(op, error, viewer) ==
  /\ \E r \in app.sock.todo : r.op = op
  /\ op \in Initial
  /\ ~app.sock.viewer
  /\ error = "unknown" => viewer
  /\ FaultStep
  /\ Do(Replied(op, <<error>>, viewer))

\* socket_deauthorized: the keyserver closes the socket as well
Deauthorize(op) ==
  /\ \E r \in app.sock.todo : r.op = op
  /\ op \in Initial
  /\ ~app.sock.viewer
  /\ FaultStep
  /\ Do(Replied(op, <<"auth", "close">>, FALSE))

CloseOnWire == \E i \in DOMAIN app.sock.wire : app.sock.wire[i].type = "close"

\* The connection is lost and nobody notices.  The close frame after an
\* AUTH_ERROR is sent with it and not lost once that has arrived.
Die ==
  /\ app.sock.ready \in {"connecting", "open"}
  /\ app.sock.alive
  /\ CloseOnWire => Head(app.sock.wire).type # "close"
  /\ FaultStep
  /\ Do([app EXCEPT !.sock.alive = FALSE, !.sock.todo = {}, !.sock.wire = << >>])

-----------------------------------------------------------------------------
(* receiveMessage.                                                         *)

Head1 == Head(app.sock.wire)

\* does message m answer request r? (by its ID and its type)
Matches(m, r) ==
  /\ r.op = m.op
  /\ m.type \in {"sync", "act"} => r.expects = m.type

\* the synchronous part: resolve requests, finish closing
Received(m) ==
  LET a == [app EXCEPT !.sock.wire = Tail(@),
                       !.inflight = {r \in @ : ~Matches(m, r)}]
  IN IF a.status \in Closing THEN FinishClosing(a, m.op) ELSE a

\* did that part leave the socket as it was?
KeptBy(m) ==
  ~(app.status \in Closing /\ Resolved(app, m.op))

ReceiveAnswer ==
  /\ app.sock.ready = "open"
  /\ app.sock.wire # << >>
  /\ Head1.type = "answer" \/
     (Head1.type \in {"sync", "act"} /\
      \E r \in app.inflight : r.op = Head1.op /\ ~Matches(Head1, r))
  /\ Step
  /\ Do(Received(Head1))

\* The last answer to INITIAL: sendInitialMessage goes on, dispatches the
\* state sync, acknowledges it and marks the socket initialised.
ReceiveStateSync ==
  /\ app.sock.ready = "open"
  /\ app.sock.wire # << >>
  /\ Head1.type = "sync"
  /\ \A r \in app.inflight : r.op = Head1.op => Matches(Head1, r)
  /\ Step
  /\ IF KeptBy(Head1)
     THEN Do([Received(Head1) EXCEPT !.status = "connected", !.sock.synced = TRUE])
     ELSE InitialisationFails(Received(Head1), app.sock.retries, "plain")

ReceiveError ==
  /\ app.sock.ready = "open"
  /\ app.sock.wire # << >>
  /\ Head1.type \in Errors
  /\ Step
  /\ InitialisationFails(Received(Head1), app.sock.retries, Head1.type)

ReceiveAuthError ==
  /\ app.sock.ready = "open"
  /\ app.sock.wire # << >>
  /\ Head1.type = "auth"
  /\ Step
  /\ Do([Received(Head1) EXCEPT !.recovering = TRUE, !.recoveries = @ + 1])

\* fetchNewCookieFromNativeCredentials logs in again, which changes the
\* cookie, or fails, which logs the user out
RecoveryEnds(success, threadOpen) ==
  /\ app.recoveries > 0
  /\ Step
  /\ LET b == CASE app.active /\ success  -> ForceClose(app)
                [] app.active /\ ~success ->
                     CloseSocket([app EXCEPT !.active = FALSE], threadOpen)
                [] OTHER -> app
     IN Do([b EXCEPT !.recovering = FALSE, !.recoveries = @ - 1])

-----------------------------------------------------------------------------
(* The end of a socket.                                                    *)

\* onClose: the rejected initialisation goes on after the dispatch
OnClose ==
  LET after == Disconnect(Released(app))
  IN IF Waiting(app) THEN InitialisationFails(after, app.sock.retries, "plain")
     ELSE Do(after)

\* the close event of a socket the client has closed, or the keyserver
CloseEvent ==
  /\ \/ app.sock.ready = "closing"
     \/ app.sock.ready = "open" /\ app.sock.wire # << >> /\ Head1.type = "close"
  /\ Step
  /\ OnClose

ConnectionLost ==
  /\ app.sock.ready \in {"connecting", "open"}
  /\ FaultStep
  /\ OnClose

\* nobody opens the socket within ten seconds
ConnectTimeout ==
  /\ app.sock.ready = "connecting"
  /\ IF app.sock.alive THEN FaultStep ELSE Step
  /\ Do(FinishClosing(app, NoOp))

\* can the answer still arrive?
Answerable(r) ==
  \/ r \in app.sock.todo
  \/ \E i \in DOMAIN app.sock.wire : Matches(app.sock.wire[i], r)

\* mutant: an unanswered ping is forgotten instead
RequestTimeout_NotPing(r) ==
  /\ r \in app.inflight
  /\ app.sock.ready = "open"
  /\ IF Answerable(r) THEN FaultStep ELSE Step
  /\ IF r.op = "ping" THEN Do([app EXCEPT !.inflight = @ \ {r}])
     ELSE Do(FinishClosing([app EXCEPT !.inflight = {}], NoOp))

\* fetchResponse: the others are rejected, then the socket is closed
RequestTimeout(r) ==
  /\ r \in app.inflight
  /\ app.sock.ready = "open"
  /\ IF Answerable(r) THEN FaultStep ELSE Step
  /\ LET after == FinishClosing([app EXCEPT !.inflight = {}], NoOp)
     IN IF Waiting(app) /\ r.op \notin Initial
        THEN InitialisationFails(after, app.sock.retries, "plain")
        ELSE Do(after)

\* detectUnsupervisedBackground: 120 seconds without a message
UnsupervisedBackground ==
  /\ FaultStep
  /\ app.active
  /\ app.status = "connected"
  /\ ~app.sock.alive
  /\ Do(Close([app EXCEPT !.active = FALSE, !.status = "disconnected"]))

-----------------------------------------------------------------------------
ServerStep ==
  \/ \E r \in Requests : AnswerRequest(r)
  \/ \E op \in Initial : AnswerInitial(op) \/ RefuseInitial(op)

Receive ==
  ReceiveAnswer \/ ReceiveStateSync \/ ReceiveError \/ ReceiveAuthError

Next ==
  \/ BecomeActive
  \/ \E t \in BOOLEAN : BecomeInactive(t)
  \/ ChangeFunction
  \/ \E w \in BOOLEAN : OnOpen(w)
  \/ SendRequest \/ SendPing \/ ThrottleEnds
  \/ ServerStep
  \/ \E op \in Initial, e \in Errors, v \in BOOLEAN : FailInitial(op, e, v)
  \/ \E op \in Initial : Deauthorize(op)
  \/ Die
  \/ Receive
  \/ \E s, t \in BOOLEAN : RecoveryEnds(s, t)
  \/ CloseEvent \/ ConnectionLost \/ ConnectTimeout
  \/ \E r \in Requests : RequestTimeout(r)
  \/ UnsupervisedBackground

Fairness ==
  /\ WF_vars(\E w \in BOOLEAN : OnOpen(w))
  /\ WF_vars(SendPing)
  /\ WF_vars(ThrottleEnds)
  /\ WF_vars(\E r \in Requests : AnswerRequest(r))
  /\ WF_vars(\E op \in Initial : AnswerInitial(op) \/ RefuseInitial(op))
  /\ WF_vars(Receive)
  /\ WF_vars(\E s, t \in BOOLEAN : RecoveryEnds(s, t))
  /\ WF_vars(CloseEvent)
  /\ WF_vars(ConnectTimeout)
  /\ WF_vars(\E r \in Requests : RequestTimeout(r))

Spec == Init /\ [][Next]_vars /\ Fairness

-----------------------------------------------------------------------------
(* Properties.                                                             *)

\* Type invariant of the component, the socket and its keyserver end.
TypeOK ==
  /\ app \in [active : BOOLEAN, sock : Socket, inflight : SUBSET Requests,
              status : Opening \cup Closing \cup {"connected", "disconnected"},
              reopen : BOOLEAN, recovering : BOOLEAN, recoveries : 0..MaxFaults,
              throttled : BOOLEAN, due : BOOLEAN]
  /\ user \in 0..MaxUser
  /\ faults \in 0..MaxFaults

\* an active app without a connection has somebody who opens one
DisconnectedReopens ==
  app.active /\ app.status = "disconnected" => app.due \/ app.recovering

\* any other status is about a socket, whose close event will change it
StatusHasSocket == app.status # "disconnected" => app.sock.ready # "none"

\* a socket an active app is closing waits for an answer or a close event
ClosingEnds ==
  app.active /\ app.status \in Closing =>
    \/ ~Resolved(app, NoOp)
    \/ app.sock.ready # "open"
    \/ CloseOnWire

\* The status never says something nothing will change: the component keeps
\* no connection it has forgotten, and forgets none it should reopen
\* (finishClosingSocket, onClose, componentDidUpdate, openSocket).
NothingForgotten == DisconnectedReopens /\ StatusHasSocket /\ ClosingEnds

\* When the user and the faults have come to an end, an active app is
\* connected for good, and to a keyserver that hears it: every failure is
\* noticed and leads back to a reconnection.
EventuallyConnected ==
  <>[](app.active => app.status = "connected" /\ app.sock.alive)

\* What Connection promises, INITIAL and its retry included.
ConnectionPromise == INSTANCE Connection WITH
  Requests <- Ops,
  Initial  <- Initial,
  phase    <- CASE app.sock.ready = "none" -> "none"
                [] app.sock.ready # "none" /\ app.sock.synced -> "initialised"
                [] OTHER -> "opening",
  pending  <- {r.op : r \in app.inflight}
ImplementsConnection == ConnectionPromise!Spec

=============================================================================
