------------------------- MODULE SocketClientProofs -------------------------
(***************************************************************************)
(* Proofs about SocketClient, for any number of changes the user makes and *)
(* of faults.                                                              *)
(*                                                                         *)
(* The methods of the component are functions of its state, so the         *)
(* invariant is a predicate on a state, and a lemma per method says what   *)
(* the method makes of it.                                                 *)
(***************************************************************************)
EXTENDS SocketClient, SequenceTheorems, TLAPS

-----------------------------------------------------------------------------
(* The invariant.                                                          *)

Status == Opening \cup Closing \cup {"connected", "disconnected"}

App == [active : BOOLEAN, sock : Socket, inflight : SUBSET Requests,
        status : Status, reopen : BOOLEAN, recovering : BOOLEAN,
        recoveries : Nat, throttled : BOOLEAN, due : BOOLEAN]

InitRequest == [op |-> "init", expects |-> "sync"]
RetryRequests(withActivity) ==
  {[op |-> "retry", expects |-> e] : e \in InitialAnswers(withActivity)}

\* nothing has been said on a socket that is not there or has not opened
Silent(a) ==
  a.sock.ready \in {"none", "connecting"} =>
    /\ a.inflight = {} /\ a.sock.todo = {} /\ a.sock.wire = << >>
    /\ ~a.sock.viewer /\ ~a.sock.synced

\* Until this.viewer is set the retry has not been sent and INITIAL has no
\* answer but an AUTH_ERROR or an error that is not retried.
BeforeViewer(a) ==
  ~a.sock.viewer =>
    /\ \A r \in a.inflight \cup a.sock.todo : r.op # "retry"
    /\ \A i \in DOMAIN a.sock.wire :
         a.sock.wire[i].type \in {"answer", "auth", "close", "other"}

\* INITIAL is pending while it is handled and while its answer is on its
\* way, and it is answered once: by a state sync (activities first), an
\* error, or an AUTH_ERROR and the close frame.
InitialOnce(a) ==
  /\ \A r \in a.sock.todo : r.op = "init" =>
       /\ InitRequest \in a.inflight
       /\ \A i \in DOMAIN a.sock.wire : a.sock.wire[i].op # "init"
  /\ \A i \in DOMAIN a.sock.wire :
       a.sock.wire[i].op = "init" /\ a.sock.wire[i].type # "close"
         => InitRequest \in a.inflight
  /\ \A i, j \in DOMAIN a.sock.wire :
       i < j /\ a.sock.wire[i].op = "init" /\ a.sock.wire[j].op = "init"
         => \/ a.sock.wire[i].type = "act" /\ a.sock.wire[j].type = "sync"
            \/ a.sock.wire[i].type = "auth" /\ a.sock.wire[j].type = "close"

\* These are answers to INITIAL, never to its retry, which is refused; the
\* close frame and the AUTH_ERROR come together.
AnswersInit(a) ==
  \A i \in DOMAIN a.sock.wire :
    /\ a.sock.wire[i].type \in {"sync", "act", "unknown", "auth", "close"}
         => a.sock.wire[i].op = "init"
    /\ a.sock.wire[i].type = "auth"
         => i + 1 \in DOMAIN a.sock.wire /\ a.sock.wire[i + 1].type = "close"
    /\ a.sock.wire[i].type = "close" /\ i # 1
         => i - 1 \in DOMAIN a.sock.wire /\ a.sock.wire[i - 1].type = "auth"

\* the state sync is dispatched once
SyncedOnce(a) ==
  a.sock.synced =>
    /\ a.sock.viewer
    /\ \A i \in DOMAIN a.sock.wire : a.sock.wire[i].type \notin {"sync", "unknown"}

Talk(a) == /\ Silent(a) /\ BeforeViewer(a) /\ InitialOnce(a)
           /\ AnswersInit(a) /\ SyncedOnce(a)

ClosesOnWire(a) == \E i \in DOMAIN a.sock.wire : a.sock.wire[i].type = "close"

\* what the status says of the socket
StatusFits(a) ==
  /\ a.status = "connected" => a.sock.ready = "open"
  /\ a.status = "disconnected" => a.sock.ready \in {"none", "closing"}
  /\ a.status # "disconnected" => a.sock.ready # "none"
  /\ a.status = "forcedDisconnecting" =>
       ~Resolved(a, NoOp) \/ a.sock.ready # "open" \/ ClosesOnWire(a)

\* an active component
Awake(a) ==
  a.active =>
    /\ a.status # "disconnecting"
    /\ a.status = "disconnected" => a.inflight = {} /\ (a.due \/ a.recovering)

AuthOnWire(a) == \E i \in DOMAIN a.sock.wire : a.sock.wire[i].type = "auth"

\* every recovery was started by a fault
RecoveriesCounted ==
  /\ user \in 0..MaxUser /\ faults \in 0..MaxFaults
  /\ app.recoveries <= faults
  /\ AuthOnWire(app) => app.recoveries < faults

Sound(a) == Talk(a) /\ StatusFits(a) /\ Awake(a)

Inv == app \in App /\ Sound(app) /\ RecoveriesCounted

-----------------------------------------------------------------------------
(* The methods.                                                            *)

\* a socket in the place of whatever there was, nothing said on it yet
Blank(ready) == [NewSocket EXCEPT !.ready = ready]

Fresh(a) ==
  /\ a.inflight = {}
  /\ \/ /\ a.sock = NoSocket /\ a.status = "disconnected"
        /\ a.active => a.due \/ a.recovering
     \/ /\ a.status \in Opening
        /\ a.sock \in {Blank("connecting"), Blank("closing")}

SameProps(a, b) ==
  /\ b.active = a.active /\ b.recovering = a.recovering
  /\ b.recoveries = a.recoveries

SameTalk(a, b) == b.sock = a.sock /\ b.inflight = a.inflight

\* Sockets that have just been put in place are sockets.
LEMMA BlankType ==
  /\ NoSocket \in Socket
  /\ \A ready \in {"connecting", "closing"} : Blank(ready) \in Socket
  /\ NewSocket = Blank("connecting")
<1> DEFINE no == FALSE
           yes == TRUE
           none == << >>
           s0 == [ready |-> "none", retries |-> 0, synced |-> no, alive |-> no,
                  viewer |-> no, todo |-> {}, wire |-> none]
           s1 == [s0 EXCEPT !.ready = "connecting", !.retries = 1, !.alive = yes]
<1>1. no \in BOOLEAN /\ yes \in BOOLEAN /\ none \in Seq(Messages)
  OBVIOUS
<1>2. s0 = NoSocket  BY DEF NoSocket
<1>3. s1 = NewSocket
  <2> HIDE DEF s0
  <2> QED BY <1>2 DEF NewSocket
<1> HIDE DEF no, yes, none
<1>4. s0 \in Socket  BY <1>1 DEF Socket
<1>5. s1 \in Socket /\ s1.ready = "connecting"
  <2> DEFINE one == 1
  <2>1. one \in 0..1 /\ s1 = [s0 EXCEPT !.ready = "connecting", !.retries = one,
                                        !.alive = yes]
    OBVIOUS
  <2> HIDE DEF s0, s1, one
  <2> QED BY <1>1, <1>4, <2>1 DEF Socket
<1>6. \A ready \in {"connecting", "closing"} : Blank(ready) \in Socket
  BY <1>3, <1>5 DEF Blank, Socket
<1>7. NewSocket = Blank("connecting")
  <2> HIDE DEF s1
  <2> QED BY <1>3, <1>5 DEF Blank, Socket
<1> QED BY <1>2, <1>4, <1>6, <1>7

\* Nothing has been said on them.
LEMMA BlankFields ==
  ASSUME NEW s, s \in {NoSocket, Blank("connecting"), Blank("closing")}
  PROVE  s.todo = {} /\ s.wire = << >> /\ ~s.viewer /\ ~s.synced
<1>1. /\ s.todo = {} /\ s.wire = << >>
      /\ s.viewer = FALSE /\ s.synced = FALSE
  <2>1. CASE s = NoSocket  BY <2>1, Zenon DEF NoSocket
  <2>2. CASE s = Blank("connecting")
    BY <2>2, Zenon DEF NoSocket, NewSocket, Blank
  <2>3. CASE s = Blank("closing")
    BY <2>3, Zenon DEF NoSocket, NewSocket, Blank
  <2> QED BY <2>1, <2>2, <2>3
<1> QED BY <1>1

\* Their state is as it was asked for.
LEMMA BlankReady ==
  /\ NoSocket.ready = "none" /\ Blank("connecting").ready = "connecting"
  /\ Blank("closing").ready = "closing"
BY DEF NoSocket, NewSocket, Blank

\* after a socket has been replaced the component is sound
LEMMA FreshIsSound ==
  ASSUME NEW a, a \in App, Fresh(a)
  PROVE  Sound(a)
<1>1. /\ a.sock.todo = {} /\ a.sock.wire = << >> /\ DOMAIN a.sock.wire = {}
      /\ ~a.sock.viewer /\ ~a.sock.synced /\ a.inflight = {}
  BY BlankFields DEF Fresh
<1>2. Talk(a)
  BY <1>1
  DEF Talk, Silent, BeforeViewer, InitialOnce, AnswersInit, SyncedOnce
<1>3. StatusFits(a)
  BY BlankReady DEF Fresh, StatusFits, Opening
<1>4. Awake(a)
  BY DEF Fresh, Awake, Opening
<1> QED BY <1>2, <1>3, <1>4 DEF Sound

\* openSocket opens a socket, or keeps the one there is
LEMMA OpenSocketOpens ==
  ASSUME NEW a \in App, NEW s \in Opening
  PROVE  /\ OpenSocket(a, s) \in App
         /\ SameProps(a, OpenSocket(a, s))
         /\ OpenSocket(a, s).due = a.due /\ OpenSocket(a, s).throttled = a.throttled
         /\ \/ /\ Fresh(OpenSocket(a, s))
               /\ OpenSocket(a, s).status = s
            \/ /\ SameTalk(a, OpenSocket(a, s)) /\ a.sock.ready # "none"
               /\ \/ /\ a.status \in Opening \cup {"connected", "forcedDisconnecting"}
                     /\ OpenSocket(a, s).status = a.status
                  \/ /\ a.status = "disconnecting" /\ a.sock.ready = "open"
                     /\ OpenSocket(a, s).status = "connected"
<1> DEFINE b == OpenSocket(a, s)
<1>1. CASE a.sock.ready # "none" /\ a.status = "forcedDisconnecting"
  <2>1. a.status # "disconnecting" /\ a.status \notin Opening \cup {"connected"}
    BY <1>1 DEF Opening
  <2>2. b = [a EXCEPT !.reopen = TRUE]
    BY <1>1, <2>1, Zenon DEF OpenSocket
  <2> QED BY <1>1, <2>2 DEF App, SameProps, SameTalk
<1>2. CASE a.sock.ready = "open" /\ a.status = "disconnecting"
  <2>1. b = [a EXCEPT !.status = "connected"]  BY <1>2 DEF OpenSocket, Opening
  <2> QED BY <1>2, <2>1 DEF App, SameProps, SameTalk, Status
<1>3. CASE a.sock.ready # "none" /\ a.status \in Opening \cup {"connected"}
  <2>1. b = a  BY <1>3 DEF OpenSocket, Opening
  <2> QED BY <1>3, <2>1 DEF App, SameProps, SameTalk
<1>4. ASSUME ~(a.sock.ready # "none" /\ a.status = "forcedDisconnecting"),
             ~(a.sock.ready = "open" /\ a.status = "disconnecting"),
             ~(a.sock.ready # "none" /\ a.status \in Opening \cup {"connected"})
      PROVE  b \in App /\ SameProps(a, b) /\ Fresh(b) /\ b.status = s
             /\ b.due = a.due /\ b.throttled = a.throttled
  <2>1. b = [a EXCEPT !.status = s, !.sock = NewSocket, !.inflight = {}]
    BY <1>4 DEF OpenSocket
  <2>2. NewSocket \in Socket /\ s \in Status  BY BlankType DEF Status
  <2> QED BY <2>1, <2>2, BlankType DEF App, SameProps, Fresh
<1> QED BY <1>1, <1>2, <1>3, <1>4

\* Where nothing has been said yet, nothing has after openSocket.
LEMMA FreshStaysFresh ==
  ASSUME NEW a \in App, Fresh(a), NEW s \in Opening
  PROVE  Fresh(OpenSocket(a, s)) /\ SameProps(a, OpenSocket(a, s))
         /\ OpenSocket(a, s) \in App
<1> DEFINE b == OpenSocket(a, s)
<1>1. ASSUME SameTalk(a, b), a.sock.ready # "none",
             \/ a.status \in Opening \cup {"connected", "forcedDisconnecting"}
                /\ b.status = a.status
             \/ a.status = "disconnecting"
      PROVE  Fresh(b)
  <2>1. a.status \in Opening  BY <1>1, BlankReady DEF Fresh
  <2>2. b.status = a.status  BY <1>1, <2>1 DEF Opening
  <2>3. a.inflight = {} /\ a.sock \in {Blank("connecting"), Blank("closing")}
    BY <2>1 DEF Fresh, Opening
  <2> QED BY <1>1, <2>1, <2>2, <2>3 DEF Fresh, SameTalk
<1> HIDE DEF b
<1>2. /\ b \in App /\ SameProps(a, b)
      /\ \/ Fresh(b)
         \/ /\ SameTalk(a, b) /\ a.sock.ready # "none"
            /\ \/ a.status \in Opening \cup {"connected", "forcedDisconnecting"}
                  /\ b.status = a.status
               \/ a.status = "disconnecting"
  BY OpenSocketOpens DEF b
<1> QED BY <1>1, <1>2 DEF b

\* one field of the state is assigned
LEMMA Assigned ==
  ASSUME NEW a \in App
  PROVE  /\ \A s \in Status : LET b == [a EXCEPT !.status = s]
                              IN /\ b \in App /\ SameProps(a, b) /\ SameTalk(a, b)
                                 /\ b.status = s /\ b.due = a.due
                                 /\ b.throttled = a.throttled /\ b.reopen = a.reopen
         /\ \A x \in BOOLEAN : LET b == [a EXCEPT !.reopen = x]
                               IN /\ b \in App /\ SameProps(a, b) /\ SameTalk(a, b)
                                  /\ b.status = a.status /\ b.due = a.due
                                  /\ b.throttled = a.throttled /\ b.reopen = x
         /\ \A x \in BOOLEAN : LET b == [a EXCEPT !.due = x]
                               IN /\ b \in App /\ SameProps(a, b) /\ SameTalk(a, b)
                                  /\ b.status = a.status /\ b.due = x
                                  /\ b.throttled = a.throttled /\ b.reopen = a.reopen
         /\ \A x \in BOOLEAN : LET b == [a EXCEPT !.throttled = x]
                               IN /\ b \in App /\ SameProps(a, b) /\ SameTalk(a, b)
                                  /\ b.status = a.status /\ b.due = a.due
                                  /\ b.throttled = x /\ b.reopen = a.reopen
BY DEF App, SameProps, SameTalk

\* What is left when a socket has gone: no socket, and no request waiting.
LEMMA ReleasedSocket ==
  ASSUME NEW a \in App
  PROVE  LET b == Released(a)
         IN /\ b \in App /\ SameProps(a, b) /\ b.status = a.status
            /\ b.due = a.due /\ b.throttled = a.throttled /\ b.reopen = a.reopen
            /\ b.sock = NoSocket /\ b.inflight = {}
<1>1. NoSocket \in Socket  BY BlankType
<1> QED BY <1>1 DEF Released, App, SameProps

\* dispatching "disconnected" when the socket is gone leads back to a
\* connection, unless a recovery will, or the user
LEMMA DisconnectReconnects ==
  ASSUME NEW a \in App, a.sock = NoSocket, a.inflight = {},
         a.active /\ a.status = "disconnected" => a.due \/ a.recovering
  PROVE  /\ Disconnect(a) \in App /\ SameProps(a, Disconnect(a))
         /\ Fresh(Disconnect(a))
<1> DEFINE b == [a EXCEPT !.status = "disconnected"]
<1>1. /\ b \in App /\ SameProps(a, b) /\ b.sock = NoSocket /\ b.inflight = {}
      /\ b.status = "disconnected" /\ b.due = a.due /\ b.throttled = a.throttled
  BY Assigned DEF SameTalk, Status
<1>2. ASSUME a.status # "disconnected" /\ a.active /\ ~a.recovering
      PROVE  Reconnect(b) \in App /\ SameProps(a, Reconnect(b)) /\ Fresh(Reconnect(b))
  <2> HIDE DEF b
  <2> DEFINE yes == TRUE
             c == [b EXCEPT !.due = yes]
             d == [b EXCEPT !.throttled = yes]
  <2>1. yes \in BOOLEAN /\ yes  OBVIOUS
  <2>2. /\ b.throttled => Reconnect(b) = c
        /\ ~b.throttled => Reconnect(b) = OpenSocket(d, "reconnecting")
    BY DEF Reconnect
  <2> HIDE DEF yes
  <2>3. /\ c \in App /\ SameProps(b, c) /\ SameTalk(b, c)
        /\ c.status = b.status /\ c.due = yes
        /\ d \in App /\ SameProps(b, d) /\ SameTalk(b, d) /\ d.status = b.status
        /\ d.due = b.due
    <3>1. b \in App /\ yes \in BOOLEAN  BY <1>1, <2>1
    <3>2. /\ c \in App /\ SameProps(b, c) /\ SameTalk(b, c)
          /\ c.status = b.status /\ c.due = yes
      BY <3>1, Assigned
    <3>3. /\ d \in App /\ SameProps(b, d) /\ SameTalk(b, d)
          /\ d.status = b.status /\ d.due = b.due
      BY <3>1, Assigned
    <3> QED BY <3>2, <3>3
  <2> HIDE DEF c, d
  <2>4. Fresh(c)  BY <1>1, <2>1, <2>3 DEF Fresh, SameTalk
  <2>5. OpenSocket(d, "reconnecting") \in App /\ SameProps(d, OpenSocket(d, "reconnecting"))
        /\ Fresh(OpenSocket(d, "reconnecting"))
    <3>1. d.sock.ready = "none"  BY <1>1, <2>3, BlankReady DEF SameTalk
    <3> QED BY <2>3, <3>1, OpenSocketOpens DEF Opening
  <2> QED BY <1>1, <2>2, <2>3, <2>4, <2>5 DEF SameProps
<1>3. ASSUME ~(a.status # "disconnected" /\ a.active /\ ~a.recovering)
      PROVE  Fresh(b)
  <2> HIDE DEF b
  <2>1. b.active = a.active /\ b.recovering = a.recovering
    BY <1>1 DEF SameProps
  <2> QED BY <1>1, <1>3, <2>1 DEF Fresh
<1>4. Disconnect(a) = IF a.status # "disconnected" /\ a.active /\ ~a.recovering
                      THEN Reconnect(b) ELSE b
  BY DEF Disconnect
<1> HIDE DEF b
<1> QED BY <1>1, <1>2, <1>3, <1>4

\* An active app that is to reopen its socket does so at once.
LEMMA ReopenFresh ==
  ASSUME NEW a \in App, Fresh(a)
  PROVE  /\ Reopen(a) \in App /\ SameProps(a, Reopen(a)) /\ Fresh(Reopen(a))
         /\ a.reopen /\ a.active => Reopen(a).status # "disconnected"
<1> DEFINE no == FALSE
           b == [a EXCEPT !.reopen = no]
<1>1. no \in BOOLEAN  OBVIOUS
<1>2. Reopen(a) = IF a.reopen /\ a.active THEN OpenSocket(b, "connecting") ELSE b
  BY DEF Reopen
<1> HIDE DEF no
<1>3. /\ b \in App /\ SameProps(a, b) /\ SameTalk(a, b)
      /\ b.status = a.status /\ b.due = a.due
  BY <1>1, Assigned
<1> HIDE DEF b
<1>4. Fresh(b)  BY <1>3 DEF Fresh, SameTalk, SameProps
<1> DEFINE c == OpenSocket(b, "connecting")
<1>5. c \in App /\ SameProps(b, c) /\ Fresh(c)
  BY <1>3, <1>4, FreshStaysFresh DEF Opening
<1>6. c.status # "disconnected"
  <2>1. \/ c.status = "connecting"
        \/ c.status = b.status /\ b.sock.ready # "none"
        \/ c.status = "connected"
    BY <1>3, OpenSocketOpens DEF Opening
  <2>2. b.sock.ready # "none" => b.status # "disconnected"
    BY <1>4, BlankReady DEF Fresh, Opening
  <2> QED BY <2>1, <2>2
<1> HIDE DEF c
<1>7. Reopen(a) = IF a.reopen /\ a.active THEN c ELSE b  BY <1>2 DEF c
<1> QED BY <1>3, <1>4, <1>5, <1>6, <1>7 DEF SameProps

\* finishClosingSocket either waits, or leaves no trace of the old socket
LEMMA FinishClosingEnds ==
  ASSUME NEW a \in App, NEW op,
         a.active /\ a.status = "disconnected" => a.due \/ a.recovering
  PROVE  /\ FinishClosing(a, op) \in App /\ SameProps(a, FinishClosing(a, op))
         /\ Resolved(a, op) => Fresh(FinishClosing(a, op))
         /\ ~Resolved(a, op) => FinishClosing(a, op) = a
         /\ Reopen(Disconnect(Released(a))) \in App
         /\ SameProps(a, Reopen(Disconnect(Released(a))))
         /\ Fresh(Reopen(Disconnect(Released(a))))
<1> DEFINE b == Released(a)
           c == Disconnect(b)
           d == Reopen(c)
<1>1. /\ b \in App /\ SameProps(a, b) /\ b.status = a.status /\ b.due = a.due
      /\ b.sock = NoSocket /\ b.inflight = {}
  BY ReleasedSocket
<1>2. b.active /\ b.status = "disconnected" => b.due \/ b.recovering
  BY <1>1 DEF SameProps
<1> HIDE DEF b
<1>3. c \in App /\ SameProps(b, c) /\ Fresh(c)
  BY <1>1, <1>2, DisconnectReconnects
<1> HIDE DEF c
<1>4. d \in App /\ SameProps(c, d) /\ Fresh(d)  BY <1>3, ReopenFresh
<1> HIDE DEF d
<1>5. SameProps(a, d)  BY <1>1, <1>3, <1>4 DEF SameProps
<1>6. FinishClosing(a, op) = IF Resolved(a, op) THEN d ELSE a
  BY DEF FinishClosing, b, c, d
<1>7. d = Reopen(Disconnect(Released(a)))  BY DEF b, c, d
<1>8. SameProps(a, a)  BY DEF SameProps
<1> QED BY <1>4, <1>5, <1>6, <1>7, <1>8

\* a message is sent
LEMMA SendFields ==
  ASSUME NEW a \in App, NEW op, NEW expected,
         {[op |-> op, expects |-> e] : e \in expected} \subseteq Requests
  PROVE  LET b == Send(a, op, expected)
             rs == {[op |-> op, expects |-> e] : e \in expected}
         IN /\ b \in App /\ SameProps(a, b) /\ b.status = a.status
            /\ b.due = a.due /\ b.throttled = a.throttled
            /\ b.inflight = a.inflight \cup rs
            /\ b.sock.todo \in {a.sock.todo, a.sock.todo \cup rs}
            /\ b.sock.ready = a.sock.ready /\ b.sock.retries = a.sock.retries
            /\ b.sock.synced = a.sock.synced /\ b.sock.viewer = a.sock.viewer
            /\ b.sock.wire = a.sock.wire
<1> DEFINE rs == {[op |-> op, expects |-> e] : e \in expected}
           s == a.sock
           todo == IF s.alive THEN s.todo \cup rs ELSE s.todo
           t == [s EXCEPT !.todo = todo]
           f == a.inflight \cup rs
           b == [a EXCEPT !.inflight = f, !.sock = t]
<1>1. s \in Socket /\ a.inflight \in SUBSET Requests  BY DEF App
<1>2. rs \in SUBSET Requests  OBVIOUS
<1>3. todo \in SUBSET Requests /\ todo \in {s.todo, s.todo \cup rs}
  <2> HIDE DEF rs, s
  <2> QED BY <1>1, <1>2 DEF Socket
<1>4. f \in SUBSET Requests
  <2> HIDE DEF rs
  <2> QED BY <1>1, <1>2
<1>5. Send(a, op, expected) = b
  BY DEF Send, App
<1> HIDE DEF rs, todo, f
<1>6. /\ t \in Socket /\ t.todo = todo /\ t.ready = s.ready /\ t.retries = s.retries
      /\ t.synced = s.synced /\ t.viewer = s.viewer /\ t.wire = s.wire
  <2> HIDE DEF s
  <2> QED BY <1>1, <1>3 DEF Socket
<1> HIDE DEF t
<1>7. /\ b \in App /\ SameProps(a, b) /\ b.status = a.status
      /\ b.due = a.due /\ b.throttled = a.throttled
      /\ b.inflight = f /\ b.sock = t
  BY <1>4, <1>6 DEF App, SameProps
<1> HIDE DEF b
<1> QED BY <1>3, <1>5, <1>6, <1>7 DEF rs, f

\* sending anything but INITIAL leaves the exchange about INITIAL sound
LEMMA SendKeepsTalk ==
  ASSUME NEW a \in App, NEW b \in App, NEW rs \in SUBSET Requests, Talk(a),
         a.sock.ready \notin {"none", "connecting"},
         \A r \in rs : r.op # "init" /\ (r.op = "retry" => a.sock.viewer),
         b.inflight = a.inflight \cup rs,
         b.sock.todo \in {a.sock.todo, a.sock.todo \cup rs},
         b.sock.ready = a.sock.ready, b.sock.synced = a.sock.synced,
         b.sock.viewer = a.sock.viewer, b.sock.wire = a.sock.wire
  PROVE  Talk(b)
<1>1. Silent(b)  BY DEF Silent
<1>2. BeforeViewer(b)  BY DEF BeforeViewer, Talk
<1>3. InitialOnce(b)  BY DEF InitialOnce, Talk
<1>4. AnswersInit(b)  BY DEF AnswersInit, Talk
<1>5. SyncedOnce(b)  BY DEF SyncedOnce, Talk
<1> QED BY <1>1, <1>2, <1>3, <1>4, <1>5 DEF Talk

\* more requests in flight, the rest unchanged
LEMMA StatusStillFits ==
  ASSUME NEW a, NEW b, StatusFits(a), b.status = a.status,
         b.sock.ready = a.sock.ready, b.sock.wire = a.sock.wire,
         a.inflight \subseteq b.inflight
  PROVE  StatusFits(b)
BY DEF StatusFits, Resolved, ClosesOnWire

\* closeSocket marks the socket and leaves what has been said on it.
LEMMA CloseFields ==
  ASSUME NEW a \in App
  PROVE  LET b == Close(a)
         IN /\ b \in App /\ SameProps(a, b) /\ b.status = a.status
            /\ b.due = a.due /\ b.inflight = a.inflight
            /\ b.sock.ready = IF a.sock.ready = "none" THEN "none" ELSE "closing"
            /\ b.sock.todo = a.sock.todo
            /\ b.sock.synced = a.sock.synced /\ b.sock.viewer = a.sock.viewer
            /\ b.sock.wire = a.sock.wire
<1> DEFINE s == a.sock
           t == [s EXCEPT !.ready = "closing"]
           b == [a EXCEPT !.sock = t]
<1>1. Close(a) = IF a.sock.ready = "none" THEN a ELSE b
  BY DEF Close, App
<1>2. s \in Socket  BY DEF App
<1>3. /\ t \in Socket /\ t.todo = s.todo /\ t.ready = "closing"
      /\ t.synced = s.synced /\ t.viewer = s.viewer /\ t.wire = s.wire
  <2> HIDE DEF s
  <2> QED BY <1>2 DEF Socket
<1> HIDE DEF t
<1>4. /\ b \in App /\ SameProps(a, b) /\ b.status = a.status
      /\ b.due = a.due /\ b.inflight = a.inflight /\ b.sock = t
  BY <1>3 DEF App, SameProps
<1> HIDE DEF b
<1> QED BY <1>1, <1>3, <1>4 DEF SameProps

\* So what has been said stays in order.
LEMMA CloseKeepsTalk ==
  ASSUME NEW a \in App, Talk(a)
  PROVE  Talk(Close(a))
<1> DEFINE b == Close(a)
<1>1. /\ b.inflight = a.inflight /\ b.sock.todo = a.sock.todo
      /\ b.sock.synced = a.sock.synced /\ b.sock.viewer = a.sock.viewer
      /\ b.sock.wire = a.sock.wire
      /\ b.sock.ready = IF a.sock.ready = "none" THEN "none" ELSE "closing"
  BY CloseFields
<1> HIDE DEF b
<1>2. Silent(b)  BY <1>1 DEF Silent, Talk
<1>3. BeforeViewer(b) /\ InitialOnce(b)
  BY <1>1 DEF BeforeViewer, InitialOnce, Talk
<1>4. AnswersInit(b) /\ SyncedOnce(b)  BY <1>1 DEF AnswersInit, SyncedOnce, Talk
<1> QED BY <1>2, <1>3, <1>4 DEF Talk, b

\* A failed initialisation may close the socket that has been opened since;
\* there is nothing to retry on it.
LEMMA FailOfFresh ==
  ASSUME NEW a \in App, Fresh(a), NEW retries, NEW error, NEW w \in BOOLEAN
  PROVE  LET b == InitialFails(a, retries, error, w)
         IN b \in App /\ SameProps(a, b) /\ Fresh(b)
<1>1. a.sock.ready # "open"  BY BlankReady DEF Fresh
<1>2. \/ InitialFails(a, retries, error, w) = a
      \/ a.status \in Opening /\ InitialFails(a, retries, error, w) = Close(a)
  BY <1>1, Zenon DEF InitialFails
<1>3. ASSUME a.status \in Opening PROVE Fresh(Close(a))
  <2>1. a.sock \in {Blank("connecting"), Blank("closing")} /\ a.inflight = {}
    BY <1>3 DEF Fresh, Opening
  <2>2. /\ Close(a).status \in Opening /\ Close(a).inflight = {}
    BY <1>3, <2>1, CloseFields
  <2>3. a.sock.ready # "none"  BY <2>1, BlankReady
  <2>4. Close(a).sock = [a.sock EXCEPT !.ready = "closing"]
    BY <2>3 DEF Close, App
  <2>5. \A x \in {"connecting", "closing"} :
          [Blank(x) EXCEPT !.ready = "closing"] = Blank("closing")
    <3>1. NewSocket \in Socket  BY BlankType
    <3> QED BY <3>1 DEF Blank, Socket
  <2>6. Close(a).sock = Blank("closing")  BY <2>1, <2>4, <2>5
  <2> QED BY <2>2, <2>6 DEF Fresh
<1> QED BY <1>2, <1>3, CloseFields DEF SameProps

\* A failed initialisation is retried, given up with its socket, or of no
\* more concern to an app that has stopped opening one.
LEMMA InitialFailsSound ==
  ASSUME NEW a \in App, Sound(a), NEW retries \in 0..1, NEW error,
         NEW w \in BOOLEAN, error = "unknown" => a.sock.viewer, error # "plain"
  PROVE  LET b == InitialFails(a, retries, error, w)
         IN /\ b \in App /\ SameProps(a, b) /\ Sound(b)
            /\ (b.sock.ready = "none") <=> (a.sock.ready = "none")
            /\ b.sock.synced = a.sock.synced /\ b.sock.wire = a.sock.wire
            /\ \/ b.inflight = a.inflight
               \/ /\ error = "unknown"
                  /\ b.inflight = a.inflight \cup RetryRequests(w)
<1> DEFINE b == InitialFails(a, retries, error, w)
           es == InitialAnswers(w)
           less == retries - 1
           s == a.sock
           t == [s EXCEPT !.retries = less]
           c == [a EXCEPT !.sock = t]
           rs == {[op |-> "retry", expects |-> e] : e \in es}
<1>1. \/ b = a
      \/ /\ a.status \in Opening /\ b = Close(a)
      \/ /\ a.status \in Opening /\ error = "unknown" /\ retries > 0
         /\ a.sock.ready = "open" /\ b = Send(c, "retry", es)
  <2>1. [a EXCEPT !.sock.retries = retries - 1] = c  BY DEF App
  <2> HIDE DEF c
  <2> QED BY <2>1 DEF InitialFails
<1>2. CASE b = a
  BY <1>2 DEF SameProps
<1>3. ASSUME a.status \in Opening PROVE Sound(Close(a))
  <2>1. Talk(Close(a))  BY CloseKeepsTalk DEF Sound
  <2>2. /\ Close(a).status \in Opening /\ Close(a).sock.ready \in {"none", "closing"}
        /\ Close(a).sock.ready = "none" => a.sock.ready = "none"
    BY <1>3, CloseFields
  <2>3. StatusFits(Close(a)) /\ Awake(Close(a))
    BY <1>3, <2>2 DEF StatusFits, Awake, Opening, Sound
  <2> QED BY <2>1, <2>3 DEF Sound
<1>4. ASSUME a.status \in Opening, error = "unknown", retries > 0, a.sock.ready = "open"
      PROVE  LET d == Send(c, "retry", es)
             IN /\ d \in App /\ SameProps(a, d) /\ Sound(d)
                /\ d.sock.ready = "open" /\ d.sock.synced = a.sock.synced
                /\ d.sock.wire = a.sock.wire /\ d.inflight = a.inflight \cup rs
  <2>1. less \in 0..1 /\ s \in Socket  BY <1>4 DEF App
  <2> HIDE DEF less, s
  <2>2. /\ t \in Socket /\ t.todo = s.todo /\ t.ready = s.ready
        /\ t.synced = s.synced /\ t.viewer = s.viewer /\ t.wire = s.wire
    BY <2>1 DEF Socket
  <2> HIDE DEF t
  <2>3. /\ c \in App /\ SameProps(a, c) /\ c.status = a.status
        /\ c.inflight = a.inflight /\ c.sock = t
    BY <2>2 DEF App, SameProps
  <2> HIDE DEF c
  <2>4. rs \in SUBSET Requests  BY DEF Requests, Initial, InitialAnswers
  <2> HIDE DEF es
  <2> DEFINE d == Send(c, "retry", es)
  <2>5. /\ d \in App /\ SameProps(c, d) /\ d.status = c.status
        /\ d.inflight = c.inflight \cup rs
        /\ d.sock.todo \in {c.sock.todo, c.sock.todo \cup rs}
        /\ d.sock.ready = c.sock.ready
        /\ d.sock.synced = c.sock.synced /\ d.sock.viewer = c.sock.viewer
        /\ d.sock.wire = c.sock.wire
    BY <2>3, <2>4, SendFields
  <2>6. \A r \in rs : r.op = "retry"  OBVIOUS
  <2> HIDE DEF rs, d
  <2>7. /\ d.status = a.status /\ d.inflight = a.inflight \cup rs
        /\ d.sock.todo \in {a.sock.todo, a.sock.todo \cup rs}
        /\ d.sock.ready = a.sock.ready
        /\ d.sock.synced = a.sock.synced /\ d.sock.viewer = a.sock.viewer
        /\ d.sock.wire = a.sock.wire /\ SameProps(a, d) /\ d \in App
    BY <2>2, <2>3, <2>5 DEF SameProps, s
  <2>8. Talk(d)
    <3>1. Talk(a) /\ a.sock.viewer /\ a.sock.ready \notin {"none", "connecting"}
      BY <1>4 DEF Sound
    <3> QED BY <2>4, <2>6, <2>7, <3>1, SendKeepsTalk
  <2>9. StatusFits(d)
    <3>1. StatusFits(a)  BY DEF Sound
    <3> QED BY <2>7, <3>1, StatusStillFits
  <2>10. Awake(d)  BY <1>4, <2>7 DEF Awake, Opening
  <2> QED BY <1>4, <2>7, <2>8, <2>9, <2>10 DEF Sound, d
<1>5. rs = RetryRequests(w)  BY DEF RetryRequests
<1> HIDE DEF c, es, rs
<1>6. CASE a.status \in Opening /\ b = Close(a)
  BY <1>3, <1>6, CloseFields
<1>7. CASE a.status \in Opening /\ error = "unknown" /\ retries > 0
           /\ a.sock.ready = "open" /\ b = Send(c, "retry", es)
  BY <1>4, <1>5, <1>7
<1> QED BY <1>1, <1>2, <1>6, <1>7

\* forceCloseSocket never leaves an active app disconnected
LEMMA ForceCloseSound ==
  ASSUME NEW a \in App, Sound(a), a.active
  PROVE  LET b == ForceClose(a)
         IN /\ b \in App /\ SameProps(a, b) /\ Sound(b)
            /\ b.status # "disconnected"
            /\ Fresh(b) \/ SameTalk(a, b)
<1> DEFINE yes == TRUE
           no == FALSE
           st == IF a.status = "disconnected" THEN a.status ELSE "forcedDisconnecting"
           b == [a EXCEPT !.reopen = yes, !.status = st]
           c == Released(b)
           d == [c EXCEPT !.status = "disconnected"]
           e == [d EXCEPT !.reopen = no]
           f == OpenSocket(e, "connecting")
<1>1. yes \in BOOLEAN /\ no \in BOOLEAN /\ yes /\ st \in Status
  BY DEF App, Status, Closing
<1>2. ForceClose(a) = IF Resolved(b, NoOp) THEN Reopen(d) ELSE b
  BY DEF ForceClose
<1> HIDE DEF yes, no, st
<1>3. /\ b \in App /\ SameProps(a, b) /\ SameTalk(a, b)
      /\ b.status = st /\ b.reopen = yes
  BY <1>1 DEF App, SameProps, SameTalk
<1> HIDE DEF b
<1>4. /\ c \in App /\ SameProps(b, c) /\ c.reopen = b.reopen
      /\ c.sock = NoSocket /\ c.inflight = {}
  BY <1>3, ReleasedSocket
<1> HIDE DEF c
<1>5. /\ d \in App /\ SameProps(c, d) /\ SameTalk(c, d) /\ d.reopen = c.reopen
  BY <1>4, Assigned DEF Status
<1> HIDE DEF d
<1>6. /\ e \in App /\ SameProps(d, e) /\ SameTalk(d, e)
  BY <1>1, <1>5, Assigned
<1>7. Reopen(d) = f
  <2>1. d.reopen /\ d.active  BY <1>1, <1>3, <1>4, <1>5 DEF SameProps
  <2> QED BY <2>1 DEF Reopen, no
<1> HIDE DEF e
<1>8. /\ f \in App /\ SameProps(e, f) /\ Fresh(f) /\ f.status = "connecting"
  <2>1. e.sock.ready = "none"  BY <1>4, <1>5, <1>6, BlankReady DEF SameTalk
  <2> QED BY <1>6, <2>1, OpenSocketOpens DEF Opening
<1> HIDE DEF f
<1>9. CASE Resolved(b, NoOp)
  <2>1. SameProps(a, f)  BY <1>3, <1>4, <1>5, <1>6, <1>8 DEF SameProps
  <2> QED BY <1>2, <1>7, <1>8, <1>9, <2>1, FreshIsSound
<1>10. CASE ~Resolved(b, NoOp)
  <2>1. b.status = "forcedDisconnecting" /\ a.status # "disconnected"
    BY <1>3, <1>10 DEF st, Sound, Awake, SameTalk, Resolved
  <2>2. Talk(b)
    <3>1. Talk(a) /\ b.sock = a.sock /\ b.inflight = a.inflight
      BY <1>3 DEF Sound, SameTalk
    <3> QED
      BY <3>1
      DEF Talk, Silent, BeforeViewer, InitialOnce, AnswersInit, SyncedOnce
  <2>3. StatusFits(b) /\ Awake(b)
    BY <1>3, <1>10, <2>1 DEF StatusFits, Awake, Sound, SameTalk
  <2> QED BY <1>2, <1>3, <1>10, <2>1, <2>2, <2>3 DEF Sound
<1> QED BY <1>9, <1>10

\* closeSocket, when the app goes to the background or the user logs out
LEMMA CloseSocketSound ==
  ASSUME NEW a \in App, Talk(a), StatusFits(a), ~a.active, NEW pending \in BOOLEAN
  PROVE  LET b == CloseSocket(a, pending)
         IN /\ b \in App /\ SameProps(a, b) /\ Sound(b)
            /\ \/ Fresh(b)
               \/ SameTalk(a, b)
               \/ /\ b.sock.wire = a.sock.wire /\ b.sock.synced = a.sock.synced
                  /\ b.sock.ready = a.sock.ready /\ a.sock.ready # "none"
                  /\ b.inflight = a.inflight \cup {[op |-> "unfocus", expects |-> "api"]}
<1> DEFINE b == CloseSocket(a, pending)
           d == [a EXCEPT !.status = "disconnecting"]
           rs == {[op |-> "unfocus", expects |-> e] : e \in {"api"}}
           u == Send(d, "unfocus", {"api"})
           f == FinishClosing(d, NoOp)
           no == FALSE
           k == [a EXCEPT !.reopen = no]
<1>1. /\ a.status = "disconnected" => b = a
      /\ a.status \in Closing => b = k
      /\ a.status \notin Closing \cup {"disconnected"} =>
           b = f \/ b = d \/ (b = u /\ a.status = "connected")
  <2> HIDE DEF d
  <2>1. CASE a.status = "disconnected"
    <3>1. a.status \notin Closing  BY <2>1 DEF Closing
    <3> QED BY <2>1, <3>1, Zenon DEF CloseSocket
  <2>2. CASE a.status \in Closing
    <3>1. a.status # "disconnected"  BY <2>2 DEF Closing
    <3> QED BY <2>2, <3>1, Zenon DEF CloseSocket
  <2>3. CASE a.status \notin Closing \cup {"disconnected"}
    <3>1. a.status \notin Closing /\ a.status # "disconnected"  BY <2>3
    <3>2. b = f \/ b = d \/ (b = u /\ a.status = "connected")
      <4>1. ASSUME pending, a.status = "connected" PROVE b = u
        BY <2>3, <4>1 DEF CloseSocket, d
      <4>2. ASSUME pending, a.status # "connected" PROVE b = d
        BY <2>3, <4>2 DEF CloseSocket, d
      <4>3. ASSUME ~pending PROVE b = f
        BY <2>3, <4>3 DEF CloseSocket, d
      <4> HIDE DEF b, f, u
      <4> QED BY <4>1, <4>2, <4>3
    <3> QED BY <3>1, <3>2
  <2> QED BY <2>1, <2>2, <2>3
<1>2. no \in BOOLEAN  OBVIOUS
<1> HIDE DEF no
<1>3. /\ d \in App /\ SameProps(a, d) /\ SameTalk(a, d) /\ d.status = "disconnecting"
      /\ k \in App /\ SameProps(a, k) /\ SameTalk(a, k) /\ k.status = a.status
  BY <1>2, Assigned DEF Status, Closing
<1> HIDE DEF d, k
<1>4. ASSUME NEW x, SameTalk(a, x) PROVE Talk(x)
  BY <1>4
  DEF SameTalk, Talk, Silent, BeforeViewer, InitialOnce, AnswersInit, SyncedOnce
<1>5. ASSUME NEW x, SameProps(a, x) PROVE Awake(x)
  BY <1>5 DEF SameProps, Awake
<1>6. CASE a.status = "disconnected"
  BY <1>1, <1>5, <1>6 DEF SameProps, SameTalk, Sound
<1>7. CASE a.status \in Closing
  <2>1. StatusFits(k)
    BY <1>3, <1>7 DEF StatusFits, SameTalk, Resolved, ClosesOnWire
  <2> QED BY <1>1, <1>3, <1>4, <1>5, <1>7, <2>1 DEF Sound
<1>8. ASSUME a.status \notin Closing \cup {"disconnected"}
      PROVE  StatusFits(d) /\ Sound(d)
  <2>1. StatusFits(d)
    BY <1>3, <1>8 DEF StatusFits, SameTalk
  <2> QED BY <1>3, <1>4, <1>5, <2>1 DEF Sound
<1>9. f \in App /\ SameProps(d, f) /\ (Fresh(f) \/ f = d)
  <2>1. d.active /\ d.status = "disconnected" => d.due \/ d.recovering
    BY <1>3
  <2> QED BY <1>3, <2>1, FinishClosingEnds
<1>10. ASSUME a.status = "connected"
       PROVE  /\ u \in App /\ SameProps(a, u) /\ Sound(u)
              /\ u.sock.wire = a.sock.wire /\ u.sock.synced = a.sock.synced
              /\ u.sock.ready = a.sock.ready /\ a.sock.ready # "none"
              /\ u.inflight = a.inflight \cup rs
  <2>1. rs \in SUBSET Requests  BY DEF Requests
  <2>2. /\ u \in App /\ SameProps(d, u) /\ u.status = d.status
        /\ u.inflight = d.inflight \cup rs
        /\ u.sock.todo \in {d.sock.todo, d.sock.todo \cup rs}
        /\ u.sock.ready = d.sock.ready /\ u.sock.synced = d.sock.synced
        /\ u.sock.viewer = d.sock.viewer /\ u.sock.wire = d.sock.wire
    BY <1>3, <2>1, SendFields
  <2>3. \A r \in rs : r.op = "unfocus"  OBVIOUS
  <2> HIDE DEF u, rs
  <2>4. a.sock.ready = "open"  BY <1>10 DEF StatusFits
  <2>5. Talk(u)
    <3>1. Talk(d) /\ d.sock.ready \notin {"none", "connecting"}
      BY <1>3, <1>4, <2>4 DEF SameTalk
    <3> QED BY <1>3, <2>1, <2>2, <2>3, <3>1, SendKeepsTalk
  <2>6. StatusFits(u)
    <3>1. StatusFits(d)  BY <1>8, <1>10 DEF Closing
    <3> QED BY <2>2, <3>1, StatusStillFits
  <2>7. SameProps(a, u)  BY <1>3, <2>2 DEF SameProps
  <2> QED BY <1>3, <1>5, <2>2, <2>4, <2>5, <2>6, <2>7 DEF Sound, SameTalk
<1>11. rs = {[op |-> "unfocus", expects |-> "api"]}  OBVIOUS
<1> HIDE DEF rs, f, u
<1>12. CASE b = f /\ a.status \notin Closing \cup {"disconnected"}
  <2>1. SameProps(a, f)  BY <1>3, <1>9 DEF SameProps
  <2> QED BY <1>3, <1>8, <1>9, <1>12, <2>1, FreshIsSound
<1>13. CASE b = d /\ a.status \notin Closing \cup {"disconnected"}
  BY <1>3, <1>8, <1>13
<1>14. CASE b = u /\ a.status = "connected"
  BY <1>10, <1>11, <1>14
<1> QED BY <1>1, <1>6, <1>7, <1>12, <1>13, <1>14

-----------------------------------------------------------------------------
(* Messages.                                                               *)

\* reading a message leaves the exchange about INITIAL sound
LEMMA TailKeepsTalk ==
  ASSUME NEW a \in App, NEW b \in App, Talk(a), a.sock.wire # << >>,
         b.inflight = {r \in a.inflight : ~Matches(Head(a.sock.wire), r)},
         b.sock.todo = a.sock.todo, b.sock.ready = a.sock.ready,
         b.sock.synced = a.sock.synced, b.sock.viewer = a.sock.viewer,
         b.sock.wire = Tail(a.sock.wire), Head(a.sock.wire).type # "close"
  PROVE  Talk(b)
<1> DEFINE w == a.sock.wire
           m == Head(w)
<1>1. w \in Seq(Messages) /\ w # << >>  BY DEF App, Socket
<1>2. /\ DOMAIN w = 1..Len(w) /\ Len(w) \in Nat \ {0} /\ m = w[1]
      /\ DOMAIN Tail(w) = 1..(Len(w) - 1)
      /\ \A i \in 1..(Len(w) - 1) : Tail(w)[i] = w[i + 1] /\ i + 1 \in DOMAIN w
  <2> HIDE DEF w
  <2>1. /\ DOMAIN w = 1..Len(w) /\ Len(w) \in Nat /\ Len(w) # 0 /\ m = w[1]
        /\ Tail(w) \in Seq(Messages) /\ Len(Tail(w)) = Len(w) - 1
        /\ \A i \in 1..Len(Tail(w)) : Tail(w)[i] = w[i + 1]
    BY <1>1, HeadTailProperties, EmptySeq, LenProperties
  <2>2. DOMAIN Tail(w) = 1..Len(Tail(w))  BY <2>1, LenProperties
  <2> QED BY <2>1, <2>2
<1>3. 1 \in DOMAIN w  BY <1>2
<1>4. ASSUME InitRequest \in a.inflight, InitRequest \notin b.inflight
      PROVE  m.op = "init" /\ m.type # "act"
  BY <1>4 DEF Matches, InitRequest
<1>5. Silent(b)
  BY <1>2 DEF Silent, Talk
<1>6. BeforeViewer(b)
  BY <1>2 DEF BeforeViewer, Talk
<1> HIDE DEF m
<1>7. InitialOnce(b)
  <2>1. ASSUME NEW r \in b.sock.todo, r.op = "init"
        PROVE  /\ InitRequest \in b.inflight
               /\ \A i \in DOMAIN b.sock.wire : b.sock.wire[i].op # "init"
    <3>1. InitRequest \in a.inflight /\ \A i \in DOMAIN w : w[i].op # "init"
      BY <2>1 DEF Talk, InitialOnce
    <3> QED BY <1>2, <1>3, <1>4, <3>1
  <2>2. ASSUME NEW i \in DOMAIN b.sock.wire, b.sock.wire[i].op = "init",
               b.sock.wire[i].type # "close"
        PROVE  InitRequest \in b.inflight
    <3>1. /\ i + 1 \in DOMAIN w /\ 1 < i + 1
          /\ w[i + 1].op = "init" /\ w[i + 1].type # "close"
      BY <1>2, <2>2
    <3>2. InitRequest \in a.inflight  BY <3>1 DEF Talk, InitialOnce
    <3>3. m.op = "init" => m.type = "act"
      BY <1>2, <1>3, <3>1 DEF Talk, InitialOnce
    <3> QED BY <1>4, <3>2, <3>3
  <2>3. ASSUME NEW i \in DOMAIN b.sock.wire, NEW j \in DOMAIN b.sock.wire,
               i < j, b.sock.wire[i].op = "init", b.sock.wire[j].op = "init"
        PROVE  \/ b.sock.wire[i].type = "act" /\ b.sock.wire[j].type = "sync"
               \/ b.sock.wire[i].type = "auth" /\ b.sock.wire[j].type = "close"
    <3>1. /\ i + 1 \in DOMAIN w /\ j + 1 \in DOMAIN w /\ i + 1 < j + 1
          /\ b.sock.wire[i] = w[i + 1] /\ b.sock.wire[j] = w[j + 1]
      BY <1>2, <2>3
    <3> QED BY <2>3, <3>1, ZenonT(40) DEF Talk, InitialOnce
  <2> QED BY <2>1, <2>2, <2>3 DEF InitialOnce
<1>8. AnswersInit(b)
  <2> SUFFICES ASSUME NEW i \in DOMAIN b.sock.wire
      PROVE  /\ b.sock.wire[i].type \in {"sync", "act", "unknown", "auth", "close"}
                  => b.sock.wire[i].op = "init"
             /\ b.sock.wire[i].type = "auth"
                  => i + 1 \in DOMAIN b.sock.wire /\ b.sock.wire[i + 1].type = "close"
             /\ b.sock.wire[i].type = "close" /\ i # 1
                  => i - 1 \in DOMAIN b.sock.wire /\ b.sock.wire[i - 1].type = "auth"
    BY DEF AnswersInit
  <2>1. /\ i \in 1..(Len(w) - 1) /\ i + 1 \in DOMAIN w /\ b.sock.wire[i] = w[i + 1]
    BY <1>2
  <2>2. /\ w[i + 1].type \in {"sync", "act", "unknown", "auth", "close"}
             => w[i + 1].op = "init"
        /\ w[i + 1].type = "auth" => i + 2 \in DOMAIN w /\ w[i + 2].type = "close"
        /\ w[i + 1].type = "close" => i \in DOMAIN w /\ w[i].type = "auth"
    <3>1. i \in Nat /\ i # 0
      <4> HIDE DEF w
      <4> QED BY <1>2, <2>1
    <3>2. (i + 1) + 1 = i + 2 /\ (i + 1) - 1 = i /\ i + 1 # 1  BY <3>1
    <3> QED BY <2>1, <3>2 DEF Talk, AnswersInit
  <2>3. i + 2 \in DOMAIN w =>
          i + 1 \in DOMAIN b.sock.wire /\ b.sock.wire[i + 1] = w[i + 2]
    BY <1>2, <2>1
  <2>4. i # 1 => i - 1 \in DOMAIN b.sock.wire /\ b.sock.wire[i - 1] = w[i]
    BY <1>2, <2>1, SMTT(40)
  <2> QED BY <2>1, <2>2, <2>3, <2>4
<1>9. SyncedOnce(b)
  BY <1>2 DEF SyncedOnce, Talk
<1> QED BY <1>5, <1>6, <1>7, <1>8, <1>9 DEF Talk

\* the synchronous part of receiveMessage
LEMMA ReceivedSound ==
  ASSUME app \in App, Sound(app), app.sock.wire # << >>, Head1.type # "close"
  PROVE  LET b == Received(Head1)
         IN /\ b \in App /\ SameProps(app, b) /\ Sound(b)
            /\ KeptBy(Head1) =>
                 /\ b.inflight = {r \in app.inflight : ~Matches(Head1, r)}
                 /\ b.status = app.status
                 /\ b.sock.wire = Tail(app.sock.wire)
                 /\ b.sock.ready = app.sock.ready
                 /\ b.sock.synced = app.sock.synced
                 /\ b.sock.viewer = app.sock.viewer
            /\ ~KeptBy(Head1) => Fresh(b)
<1> DEFINE m == Head1
           s == app.sock
           t == [s EXCEPT !.wire = Tail(s.wire)]
           left == {r \in app.inflight : ~Matches(m, r)}
           a == [app EXCEPT !.sock = t, !.inflight = left]
           b == Received(m)
<1>1. s \in Socket /\ s.wire # << >>  BY DEF App
<1>2. Tail(s.wire) \in Seq(Messages)
  <2> HIDE DEF s
  <2> QED BY <1>1, HeadTailProperties DEF Socket
<1>3. /\ t \in Socket /\ t.wire = Tail(s.wire) /\ t.ready = s.ready
      /\ t.synced = s.synced /\ t.viewer = s.viewer /\ t.todo = s.todo
  <2> HIDE DEF s
  <2> QED BY <1>1, <1>2 DEF Socket
<1>4. left \in SUBSET Requests
  <2>1. app.inflight \in SUBSET Requests  BY DEF App
  <2> HIDE DEF m
  <2> QED BY <2>1
<1>5. b = IF a.status \in Closing THEN FinishClosing(a, m.op) ELSE a
  <2>1. a = [app EXCEPT !.sock.wire = Tail(@), !.inflight = {r \in @ : ~Matches(m, r)}]
    BY DEF App
  <2> HIDE DEF a, m
  <2> QED BY <2>1 DEF Received
<1> HIDE DEF t, left
<1>6. /\ a \in App /\ SameProps(app, a) /\ a.status = app.status /\ a.due = app.due
      /\ a.inflight = left /\ a.sock = t
  BY <1>3, <1>4 DEF App, SameProps
<1> HIDE DEF a
<1>7. Resolved(a, m.op) <=> Resolved(app, m.op)
  <2>1. \A r : Matches(m, r) => r.op = m.op  BY DEF Matches
  <2>2. \A r : r \in left <=> r \in app.inflight /\ ~Matches(m, r)  BY DEF left
  <2> HIDE DEF m
  <2> QED BY <1>6, <2>1, <2>2 DEF Resolved
<1>8. KeptBy(m) <=> ~(a.status \in Closing /\ Resolved(a, m.op))
  BY <1>6, <1>7 DEF KeptBy
<1>9. Talk(a)
  <2>1. Talk(app)  BY DEF Sound
  <2>2. /\ a.inflight = {r \in app.inflight : ~Matches(Head(app.sock.wire), r)}
        /\ Head(app.sock.wire).type # "close"
    BY <1>6 DEF left, Head1
  <2>3. /\ a.sock.todo = app.sock.todo /\ a.sock.ready = app.sock.ready
        /\ a.sock.synced = app.sock.synced /\ a.sock.viewer = app.sock.viewer
        /\ a.sock.wire = Tail(app.sock.wire)
    BY <1>3, <1>6
  <2> QED BY <1>6, <2>1, <2>2, <2>3, TailKeepsTalk
<1>10. ASSUME KeptBy(m) PROVE Sound(a)
  <2>1. ASSUME app.status \in Closing PROVE ~Resolved(a, NoOp)
    <3>1. PICK r \in app.inflight : r.expects # "pong" /\ r.op # m.op
      BY <1>10, <2>1 DEF KeptBy, Resolved
    <3>2. r \in a.inflight  BY <1>6, <3>1 DEF left, Matches
    <3>3. r.op # NoOp
      <4>1. r \in Requests  BY DEF App
      <4>2. r.op \in Ops  BY <4>1 DEF Requests, Ops
      <4> QED BY <4>2 DEF Ops, Initial, NoOp
    <3> QED BY <3>1, <3>2, <3>3 DEF Resolved
  <2>2. StatusFits(a)
    BY <1>3, <1>6, <2>1 DEF StatusFits, Sound, Closing
  <2>3. Awake(a)
    BY <1>6 DEF Awake, Sound, SameProps, left
  <2> QED BY <1>9, <2>2, <2>3 DEF Sound
<1>11. /\ FinishClosing(a, m.op) \in App /\ SameProps(a, FinishClosing(a, m.op))
       /\ Resolved(a, m.op) => Fresh(FinishClosing(a, m.op))
       /\ ~Resolved(a, m.op) => FinishClosing(a, m.op) = a
  <2>1. a.active /\ a.status = "disconnected" => a.due \/ a.recovering
    BY <1>6 DEF SameProps, Sound, Awake
  <2> QED BY <1>6, <2>1, FinishClosingEnds
<1> DEFINE f == FinishClosing(a, m.op)
<1>12. b = IF a.status \in Closing THEN f ELSE a  BY <1>5
<1> HIDE DEF f
<1>13. CASE KeptBy(m)
  <2>1. b = a  BY <1>8, <1>11, <1>12, <1>13 DEF f
  <2> QED BY <1>3, <1>6, <1>10, <1>13, <2>1 DEF left
<1>14. CASE ~KeptBy(m)
  <2>1. b = f /\ Fresh(f)  BY <1>8, <1>11, <1>12, <1>14 DEF f
  <2>2. f \in App /\ SameProps(app, f)  BY <1>6, <1>11 DEF f, SameProps
  <2> QED BY <1>14, <2>1, <2>2, FreshIsSound
<1> QED BY <1>13, <1>14

\* a reply of the keyserver
LEMMA ReplyFields ==
  ASSUME app \in App, NEW op \in Ops, NEW viewer \in BOOLEAN,
         NEW types \in Seq({"sync", "act", "answer", "auth", "close"} \cup Errors)
  PROVE  LET b == Replied(op, types, viewer)
             w == app.sock.wire
         IN /\ b \in App /\ SameProps(app, b) /\ b.status = app.status
            /\ b.due = app.due /\ b.inflight = app.inflight
            /\ b.sock.todo = {r \in app.sock.todo : r.op # op}
            /\ b.sock.viewer = (app.sock.viewer \/ viewer)
            /\ b.sock.ready = app.sock.ready /\ b.sock.synced = app.sock.synced
            /\ b.sock.wire \in Seq(Messages)
            /\ DOMAIN b.sock.wire = 1..(Len(w) + Len(types))
            /\ DOMAIN w = 1..Len(w) /\ Len(w) \in Nat
            /\ \A i \in 1..Len(w) : b.sock.wire[i] = w[i]
            /\ \A i \in 1..Len(types) :
                 b.sock.wire[Len(w) + i] = [type |-> types[i], op |-> op]
<1> DEFINE T == {"sync", "act", "answer", "auth", "close"} \cup Errors
           s == app.sock
           w == s.wire
           ts == [i \in 1..Len(types) |-> [type |-> types[i], op |-> op]]
           both == w \o ts
           todo == Handled(op)
           v == s.viewer \/ viewer
           t == [s EXCEPT !.todo = todo, !.viewer = v, !.wire = both]
           b == [app EXCEPT !.sock = t]
<1>1. s \in Socket /\ w \in Seq(Messages)  BY DEF App, Socket
<1>2. Len(types) \in Nat /\ \A i \in 1..Len(types) : types[i] \in T
  <2> HIDE DEF T
  <2> QED BY LenProperties, ElementOfSeq DEF T
<1>3. ts \in Seq(Messages) /\ Len(ts) = Len(types)
  <2>1. \A i \in 1..Len(types) : [type |-> types[i], op |-> op] \in Messages
    BY <1>2 DEF Messages
  <2>2. ts \in [1..Len(types) -> Messages]
    <3> HIDE DEF T
    <3> QED BY <2>1
  <2> HIDE DEF ts
  <2> QED BY <1>2, <2>2, IsASeq
<1>4. /\ both \in Seq(Messages) /\ Len(both) = Len(w) + Len(types)
      /\ Len(w) \in Nat
      /\ \A i \in 1..Len(w) : both[i] = w[i]
      /\ \A i \in 1..Len(types) : both[Len(w) + i] = ts[i]
  <2>1. /\ both \in Seq(Messages) /\ Len(both) = Len(w) + Len(ts)
        /\ \A i \in 1..Len(both) : both[i] = IF i <= Len(w) THEN w[i] ELSE ts[i - Len(w)]
    <3> HIDE DEF w, ts
    <3> QED BY <1>1, <1>3, ConcatProperties, ZenonT(60)
  <2>2. Len(w) \in Nat
    <3> HIDE DEF w
    <3> QED BY <1>1, LenProperties
  <2> HIDE DEF w, ts, both
  <2> QED BY <1>2, <1>3, <2>1, <2>2, SMTT(60)
<1>5. DOMAIN both = 1..Len(both) /\ DOMAIN w = 1..Len(w)
  <2> HIDE DEF w, both
  <2> QED BY <1>1, <1>4, LenProperties
<1>6. todo \in SUBSET Requests /\ todo = {r \in s.todo : r.op # op}
  <2>1. s.todo \in SUBSET Requests  BY <1>1 DEF Socket
  <2> QED BY <2>1 DEF Handled
<1>7. v \in BOOLEAN  OBVIOUS
<1>8. Replied(op, types, viewer) = b
  BY DEF Replied, App
<1> HIDE DEF v, todo, both, ts
<1>9. /\ t \in Socket /\ t.todo = todo /\ t.viewer = v /\ t.wire = both
      /\ t.ready = s.ready /\ t.synced = s.synced
  <2> HIDE DEF s
  <2> QED BY <1>1, <1>4, <1>6, <1>7 DEF Socket
<1> HIDE DEF t
<1>10. /\ b \in App /\ SameProps(app, b) /\ b.status = app.status
       /\ b.due = app.due /\ b.inflight = app.inflight /\ b.sock = t
  BY <1>9 DEF App, SameProps
<1>11. \A i \in 1..Len(types) : ts[i] = [type |-> types[i], op |-> op]
  BY DEF ts
<1> HIDE DEF b
<1>12. b.sock.viewer = (app.sock.viewer \/ viewer)
  BY <1>9, <1>10 DEF v
<1> HIDE DEF s, w
<1> QED
  BY <1>1, <1>4, <1>5, <1>6, <1>8, <1>9, <1>10, <1>11, <1>12 DEF s, w

Replies == {<<"answer">>, <<"act", "sync">>, <<"sync">>, <<"other">>,
            <<"unknown">>, <<"auth", "close">>}

\* What the keyserver says at once: one message, or one of two pairs.
LEMMA ReplyTypes ==
  ASSUME NEW types \in Replies
  PROVE  /\ types \in Seq({"sync", "act", "answer", "auth", "close"} \cup Errors)
         /\ Len(types) \in {1, 2}
         /\ types \in {<<"act", "sync">>, <<"auth", "close">>} <=> Len(types) = 2
         /\ types[1] \in {"answer", "act", "sync", "other", "unknown", "auth"}
         /\ types[1] = "answer" => types = <<"answer">>
         /\ types[1] = "auth" => Len(types) = 2 /\ types[2] = "close"
         /\ Len(types) = 2 => \/ types[1] = "auth" /\ types[2] = "close"
                              \/ types[1] = "act" /\ types[2] = "sync"
<1>1. CASE types = <<"answer">>  BY <1>1
<1>2. CASE types = <<"act", "sync">>  BY <1>2
<1>3. CASE types = <<"sync">>  BY <1>3
<1>4. CASE types = <<"other">>  BY <1>4 DEF Errors
<1>5. CASE types = <<"unknown">>  BY <1>5 DEF Errors
<1>6. CASE types = <<"auth", "close">>  BY <1>6
<1> QED BY <1>1, <1>2, <1>3, <1>4, <1>5, <1>6 DEF Replies

\* A reply keeps the exchange about INITIAL sound: only INITIAL itself is
\* answered with a state sync or an unknown error, and only once.
LEMMA ReplyKeepsTalk ==
  ASSUME NEW a \in App, NEW b \in App, Talk(a),
         NEW op \in Ops, NEW types \in Replies, NEW n \in Nat,
         \E r \in a.sock.todo : r.op = op,
         op \in Initial <=> types # <<"answer">>,
         types[1] \in {"act", "sync", "unknown", "auth"}
           => op = "init" /\ ~a.sock.viewer,
         types[1] \notin {"answer", "auth", "other"} => b.sock.viewer,
         a.sock.viewer => b.sock.viewer,
         b.inflight = a.inflight, b.sock.todo = {r \in a.sock.todo : r.op # op},
         b.sock.ready = a.sock.ready, b.sock.synced = a.sock.synced,
         DOMAIN a.sock.wire = 1..n,
         DOMAIN b.sock.wire = 1..(n + Len(types)),
         \A i \in 1..n : b.sock.wire[i] = a.sock.wire[i],
         \A i \in 1..Len(types) :
           b.sock.wire[n + i] = [type |-> types[i], op |-> op]
  PROVE  Talk(b)
<1> DEFINE w == a.sock.wire
           x == b.sock.wire
<1>1. /\ Len(types) \in {1, 2}
      /\ types[1] \in {"answer", "act", "sync", "other", "unknown", "auth"}
      /\ types[1] = "answer" => types = <<"answer">>
      /\ types[1] = "auth" => Len(types) = 2 /\ types[2] = "close"
      /\ Len(types) = 2 => \/ types[1] = "auth" /\ types[2] = "close"
                           \/ types[1] = "act" /\ types[2] = "sync"
  BY ReplyTypes
<1>2. /\ n + 1 \in DOMAIN x /\ x[n + 1].type = types[1] /\ x[n + 1].op = op
      /\ Len(types) = 2 =>
           n + 2 \in DOMAIN x /\ x[n + 2].type = types[2] /\ x[n + 2].op = op
  <2> DEFINE L == Len(types)
  <2>1. L \in {1, 2}  BY <1>1
  <2>2. /\ DOMAIN x = 1..(n + L)
        /\ \A i \in 1..L : x[n + i] = [type |-> types[i], op |-> op]
    OBVIOUS
  <2> HIDE DEF L, x
  <2>3. 1 \in 1..L /\ n + 1 \in 1..(n + L)  BY <2>1
  <2>4. L = 2 => 2 \in 1..L /\ n + 2 \in 1..(n + L)  BY <2>1
  <2>5. x[n + 1] = [type |-> types[1], op |-> op]  BY <2>2, <2>3
  <2>6. L = 2 => x[n + 2] = [type |-> types[2], op |-> op]  BY <2>2, <2>4
  <2> QED BY <2>2, <2>3, <2>4, <2>5, <2>6 DEF L
<1>3. \A i \in DOMAIN x : \/ i \in DOMAIN w /\ x[i] = w[i] /\ i <= n
                          \/ i = n + 1
                          \/ i = n + 2 /\ Len(types) = 2
  <2> DEFINE L == Len(types)
  <2>1. DOMAIN w = 1..n /\ DOMAIN x = 1..(n + L) /\ \A i \in 1..n : x[i] = w[i]
    OBVIOUS
  <2>2. L = 1 \/ L = 2  BY <1>1
  <2> HIDE DEF L, w, x
  <2>3. ASSUME NEW i \in 1..(n + L)
        PROVE  i \in 1..n \/ i = n + 1 \/ (i = n + 2 /\ L = 2)
    BY <2>2
  <2>4. \A i \in 1..n : i <= n  OBVIOUS
  <2> QED BY <2>1, <2>3, <2>4 DEF L
<1>4. \A i \in DOMAIN w : i \in DOMAIN x /\ x[i] = w[i]
  <2> DEFINE L == Len(types)
  <2>1. L \in Nat  BY <1>1
  <2>2. DOMAIN w = 1..n /\ DOMAIN x = 1..(n + L) /\ \A i \in 1..n : x[i] = w[i]
    OBVIOUS
  <2> HIDE DEF L, w, x
  <2> QED BY <2>1, <2>2
<1>5. op = "init" => /\ InitRequest \in a.inflight
                     /\ \A i \in DOMAIN w : w[i].op # "init"
  BY DEF Talk, InitialOnce
<1>6. types[1] = "answer" <=> op \notin Initial
  BY <1>1 DEF Replies
<1>7. Silent(b)  BY DEF Silent, Talk
<1> HIDE DEF w, x
<1>8. BeforeViewer(b)
  <2> SUFFICES ASSUME ~b.sock.viewer
               PROVE  /\ \A r \in b.inflight \cup b.sock.todo : r.op # "retry"
                      /\ \A i \in DOMAIN x :
                           x[i].type \in {"answer", "auth", "close", "other"}
    BY DEF BeforeViewer, x
  <2>1. ~a.sock.viewer  OBVIOUS
  <2>2. /\ \A r \in a.inflight \cup a.sock.todo : r.op # "retry"
        /\ \A i \in DOMAIN w : w[i].type \in {"answer", "auth", "close", "other"}
    BY <2>1 DEF Talk, BeforeViewer, w
  <2>3. types[1] \in {"answer", "auth", "other"}  BY <1>1
  <2>4. \A i \in DOMAIN x : x[i].type \in {"answer", "auth", "close", "other"}
    BY <1>1, <1>2, <1>3, <2>2, <2>3
  <2> QED BY <2>2, <2>4
<1>9. InitialOnce(b)
  <2>1. ASSUME NEW r \in b.sock.todo, r.op = "init"
        PROVE  InitRequest \in b.inflight /\ \A i \in DOMAIN x : x[i].op # "init"
    <3>1. r \in a.sock.todo /\ op # "init"  BY <2>1
    <3>2. InitRequest \in a.inflight /\ \A i \in DOMAIN w : w[i].op # "init"
      BY <2>1, <3>1 DEF Talk, InitialOnce, w
    <3> QED BY <1>1, <1>2, <1>3, <3>1, <3>2
  <2>2. ASSUME NEW i \in DOMAIN x, x[i].op = "init", x[i].type # "close"
        PROVE  InitRequest \in b.inflight
    <3>1. CASE i \in DOMAIN w /\ x[i] = w[i]
      BY <2>2, <3>1 DEF Talk, InitialOnce, w
    <3>2. CASE i = n + 1 \/ (i = n + 2 /\ Len(types) = 2)
      BY <1>2, <1>5, <2>2, <3>2
    <3> QED BY <1>3, <3>1, <3>2
  <2>3. ASSUME NEW i \in DOMAIN x, NEW j \in DOMAIN x, i < j,
               x[i].op = "init", x[j].op = "init"
        PROVE  \/ x[i].type = "act" /\ x[j].type = "sync"
               \/ x[i].type = "auth" /\ x[j].type = "close"
    <3>1. CASE i \in DOMAIN w /\ x[i] = w[i] /\ j \in DOMAIN w /\ x[j] = w[j]
      BY <2>3, <3>1 DEF Talk, InitialOnce, w
    <3>2. CASE op = "init"
      <4>1. i \notin DOMAIN w /\ j \notin DOMAIN w
        BY <1>4, <1>5, <2>3, <3>2
      <4>2. i = n + 1 /\ j = n + 2 /\ Len(types) = 2
        BY <1>3, <2>3, <4>1
      <4> QED BY <1>1, <1>2, <4>2
    <3>3. CASE op # "init"
      <4>1. i # n + 1 /\ j # n + 1 /\ (Len(types) = 2 => i # n + 2 /\ j # n + 2)
        BY <1>2, <2>3, <3>3
      <4> QED BY <1>3, <3>1, <4>1
    <3> QED BY <3>2, <3>3
  <2> QED BY <2>1, <2>2, <2>3 DEF InitialOnce, x
<1>10. AnswersInit(b)
  <2> SUFFICES ASSUME NEW i \in DOMAIN x
               PROVE  /\ x[i].type \in {"sync", "act", "unknown", "auth", "close"}
                           => x[i].op = "init"
                      /\ x[i].type = "auth"
                           => i + 1 \in DOMAIN x /\ x[i + 1].type = "close"
                      /\ x[i].type = "close" /\ i # 1
                           => i - 1 \in DOMAIN x /\ x[i - 1].type = "auth"
    BY DEF AnswersInit, x
  <2>1. CASE i \in DOMAIN w /\ x[i] = w[i] /\ i <= n
    <3>1. /\ w[i].type \in {"sync", "act", "unknown", "auth", "close"}
               => w[i].op = "init"
          /\ w[i].type = "auth"
               => i + 1 \in DOMAIN w /\ w[i + 1].type = "close"
          /\ w[i].type = "close" /\ i # 1
               => i - 1 \in DOMAIN w /\ w[i - 1].type = "auth"
      BY <2>1 DEF Talk, AnswersInit, w
    <3> QED BY <1>4, <2>1, <3>1
  <2>2. CASE i = n + 1
    <3>1. x[i].type = types[1] /\ x[i].op = op  BY <1>2, <2>2
    <3>2. i + 1 = n + 2  BY <2>2
    <3>3. types[1] = "auth" => i + 1 \in DOMAIN x /\ x[i + 1].type = "close"
      BY <1>1, <1>2, <3>2
    <3>4. types[1] # "close"  BY <1>1
    <3> QED BY <3>1, <3>3, <3>4
  <2>3. CASE i = n + 2 /\ Len(types) = 2
    <3>1. x[i].type = types[2] /\ x[i].op = op  BY <1>2, <2>3
    <3>2. i - 1 = n + 1  BY <2>3
    <3>3. \/ types[1] = "auth" /\ types[2] = "close"
          \/ types[1] = "act" /\ types[2] = "sync"
      BY <1>1, <2>3
    <3> QED BY <1>2, <3>1, <3>2, <3>3
  <2> QED BY <1>3, <2>1, <2>2, <2>3
<1>11. SyncedOnce(b)
  <2> SUFFICES ASSUME b.sock.synced
               PROVE  /\ b.sock.viewer
                      /\ \A i \in DOMAIN x : x[i].type \notin {"sync", "unknown"}
    BY DEF SyncedOnce, x
  <2>1. a.sock.viewer /\ \A i \in DOMAIN w : w[i].type \notin {"sync", "unknown"}
    BY DEF Talk, SyncedOnce, w
  <2>2. types[1] \in {"answer", "other"}  BY <1>1, <2>1
  <2>3. Len(types) # 2  BY <1>1, <2>2
  <2> QED BY <1>2, <1>3, <2>1, <2>2, <2>3
<1> QED BY <1>7, <1>8, <1>9, <1>10, <1>11 DEF Talk

-----------------------------------------------------------------------------
(* Steps.  Each keeps the invariant, and is one of these to an observer of *)
(* the connection and its requests.                                        *)

SamePhase(a, b) ==
  /\ (b.sock.ready = "none") <=> (a.sock.ready = "none")
  /\ b.sock.synced <=> a.sock.synced

Sends(a, b) ==
  /\ SamePhase(a, b) /\ a.sock.ready # "none"
  /\ \E op \in Ops \ Initial, e \in {"pong", "api"} :
       b.inflight = a.inflight \cup {[op |-> op, expects |-> e]}

Starts(a, b) ==
  /\ SamePhase(a, b) /\ a.sock.ready # "none" /\ ~a.sock.synced
  /\ a.inflight = {} /\ b.inflight # {} /\ \A r \in b.inflight : r.op = "init"

Settles(a, b) ==
  /\ SamePhase(a, b)
  /\ \E m \in Messages : b.inflight = {r \in a.inflight : ~Matches(m, r)}

Initialises(a, b) ==
  /\ a.sock.ready # "none" /\ b.sock.ready # "none"
  /\ ~a.sock.synced /\ b.sock.synced
  /\ InitRequest \in a.inflight
  /\ b.inflight = {r \in a.inflight : r.op # "init"}

Retries(a, b) ==
  /\ SamePhase(a, b) /\ a.sock.ready # "none" /\ ~a.sock.synced
  /\ InitRequest \in a.inflight
  /\ \E w \in BOOLEAN :
       b.inflight = {r \in a.inflight : r.op # "init"} \cup RetryRequests(w)

Outcome(a, b) ==
  \/ Fresh(b)
  \/ SamePhase(a, b) /\ b.inflight = a.inflight
  \/ Sends(a, b) \/ Starts(a, b) \/ Settles(a, b)
  \/ Initialises(a, b) \/ Retries(a, b)

\* No authorization error is on its way on a socket that is new.
LEMMA FreshIsQuiet ==
  ASSUME NEW a, Fresh(a)
  PROVE  ~AuthOnWire(a)
BY BlankFields DEF Fresh, AuthOnWire

\* a step that keeps the recoveries and puts no AUTH_ERROR on the wire
LEMMA Changed ==
  ASSUME Inv, NEW b \in App, app' = b, Sound(b), b.recoveries = app.recoveries,
         AuthOnWire(b) => AuthOnWire(app), UserStep \/ FaultStep \/ Step
  PROVE  Inv'
<1>1. app' \in App /\ Sound(app')  OBVIOUS
<1>2. app'.recoveries = app.recoveries /\ (AuthOnWire(app') => AuthOnWire(app))
  OBVIOUS
<1>3. /\ user' \in 0..MaxUser /\ faults' \in 0..MaxFaults /\ faults' >= faults
      /\ faults \in Nat /\ app.recoveries \in Nat
  BY BoundsAssumption DEF Inv, RecoveriesCounted, UserStep, FaultStep, Step, App
<1>4. RecoveriesCounted'
  BY <1>2, <1>3 DEF Inv, RecoveriesCounted
<1> QED BY <1>1, <1>4 DEF Inv

\* what a method leaves of the connection when it keeps it
LEMMA Keeps ==
  ASSUME NEW a, NEW b, Fresh(b) \/ SameTalk(a, b)
  PROVE  Outcome(a, b) /\ (AuthOnWire(b) => AuthOnWire(a))
BY FreshIsQuiet DEF Outcome, SamePhase, SameTalk, AuthOnWire

\* openSocket opens a new socket or leaves the one there is.
LEMMA OpenSocketSound ==
  ASSUME NEW a \in App, Talk(a), StatusFits(a), NEW s \in Opening
  PROVE  LET b == OpenSocket(a, s)
         IN /\ b \in App /\ SameProps(a, b) /\ Sound(b)
            /\ Fresh(b) \/ SameTalk(a, b)
<1> DEFINE b == OpenSocket(a, s)
<1>1. /\ b \in App /\ SameProps(a, b)
      /\ \/ Fresh(b)
         \/ /\ SameTalk(a, b) /\ a.sock.ready # "none"
            /\ \/ /\ a.status \in Opening \cup {"connected", "forcedDisconnecting"}
                  /\ b.status = a.status
               \/ /\ a.status = "disconnecting" /\ a.sock.ready = "open"
                  /\ b.status = "connected"
  BY OpenSocketOpens
<1> HIDE DEF b
<1>2. CASE Fresh(b)  BY <1>1, <1>2, FreshIsSound DEF b
<1>3. ASSUME SameTalk(a, b), a.sock.ready # "none",
             \/ /\ a.status \in Opening \cup {"connected", "forcedDisconnecting"}
                /\ b.status = a.status
             \/ /\ a.status = "disconnecting" /\ a.sock.ready = "open"
                /\ b.status = "connected"
      PROVE  Sound(b)
  <2>1. Talk(b)
    BY <1>3
    DEF SameTalk, Talk, Silent, BeforeViewer, InitialOnce, AnswersInit, SyncedOnce
  <2>2. StatusFits(b)
    BY <1>3 DEF StatusFits, SameTalk, Resolved, ClosesOnWire, Opening
  <2>3. Awake(b)  BY <1>3 DEF Awake, Opening
  <2> QED BY <2>1, <2>2, <2>3 DEF Sound
<1> QED BY <1>1, <1>2, <1>3 DEF b

\* the app comes to the foreground, or goes to the background
LEMMA Activated ==
  ASSUME NEW a \in App, NEW x \in BOOLEAN
  PROVE  LET b == [a EXCEPT !.active = x]
         IN /\ b \in App /\ b.active = x /\ SameTalk(a, b) /\ b.status = a.status
            /\ b.recoveries = a.recoveries /\ b.recovering = a.recovering
            /\ b.due = a.due /\ b.reopen = a.reopen /\ b.throttled = a.throttled
BY DEF App, SameTalk

\* What has been said depends on the socket and on the requests alone.
LEMMA TalkIsOfSocket ==
  ASSUME NEW a, NEW b, SameTalk(a, b)
  PROVE  /\ Talk(a) => Talk(b)
         /\ StatusFits(a) /\ b.status = a.status => StatusFits(b)
<1>1. Talk(a) => Talk(b)
  BY DEF SameTalk, Talk, Silent, BeforeViewer, InitialOnce, AnswersInit, SyncedOnce
<1>2. StatusFits(a) /\ b.status = a.status => StatusFits(b)
  BY DEF SameTalk, StatusFits, Resolved, ClosesOnWire
<1> QED BY <1>1, <1>2

\* The app comes to the foreground, or its user logs in.
LEMMA BecomeActiveStep == Inv /\ BecomeActive => Inv' /\ Outcome(app, app')
<1> SUFFICES ASSUME Inv, BecomeActive PROVE Inv' /\ Outcome(app, app')
  OBVIOUS
<1> DEFINE yes == TRUE
           a == [app EXCEPT !.active = yes]
           b == OpenSocket(a, "connecting")
<1>1. yes \in BOOLEAN /\ app \in App /\ Talk(app) /\ StatusFits(app)
  BY DEF Inv, Sound
<1>2. app' = b /\ UserStep  BY DEF BecomeActive, Do
<1> HIDE DEF yes
<1>3. /\ a \in App /\ SameTalk(app, a) /\ a.status = app.status
      /\ a.recoveries = app.recoveries
  BY <1>1, Activated
<1> HIDE DEF a
<1>4. Talk(a) /\ StatusFits(a)  BY <1>1, <1>3, TalkIsOfSocket
<1>5. b \in App /\ SameProps(a, b) /\ Sound(b) /\ (Fresh(b) \/ SameTalk(a, b))
  BY <1>3, <1>4, OpenSocketSound DEF Opening
<1> HIDE DEF b
<1>6. Fresh(b) \/ SameTalk(app, b)  BY <1>3, <1>5 DEF SameTalk
<1>7. b.recoveries = app.recoveries  BY <1>3, <1>5 DEF SameProps
<1> QED BY <1>2, <1>5, <1>6, <1>7, Keeps, Changed

\* The app goes to the background, or its user logs out.
LEMMA BecomeInactiveStep ==
  ASSUME Inv, NEW threadOpen \in BOOLEAN, BecomeInactive(threadOpen)
  PROVE  Inv' /\ Outcome(app, app')
<1> DEFINE no == FALSE
           a == [app EXCEPT !.active = no]
           b == CloseSocket(a, threadOpen)
<1>1. no \in BOOLEAN /\ app \in App /\ Talk(app) /\ StatusFits(app) /\ ~no
  BY DEF Inv, Sound
<1>2. app' = b /\ UserStep  BY DEF BecomeInactive, Do
<1> HIDE DEF no
<1>3. /\ a \in App /\ SameTalk(app, a) /\ a.status = app.status
      /\ a.recoveries = app.recoveries /\ ~a.active
  BY <1>1, Activated
<1> HIDE DEF a
<1>4. Talk(a) /\ StatusFits(a)  BY <1>1, <1>3, TalkIsOfSocket
<1>5. /\ b \in App /\ SameProps(a, b) /\ Sound(b)
      /\ \/ Fresh(b)
         \/ SameTalk(a, b)
         \/ /\ b.sock.wire = a.sock.wire /\ b.sock.synced = a.sock.synced
            /\ b.sock.ready = a.sock.ready /\ a.sock.ready # "none"
            /\ b.inflight = a.inflight \cup {[op |-> "unfocus", expects |-> "api"]}
  BY <1>3, <1>4, CloseSocketSound
<1> HIDE DEF b
<1>6. Outcome(app, b) /\ (AuthOnWire(b) => AuthOnWire(app))
  <2>1. CASE Fresh(b) \/ SameTalk(a, b)
    BY <1>3, <2>1, Keeps DEF SameTalk
  <2>2. ASSUME b.sock.wire = a.sock.wire, b.sock.synced = a.sock.synced,
               b.sock.ready = a.sock.ready, a.sock.ready # "none",
               b.inflight = a.inflight \cup {[op |-> "unfocus", expects |-> "api"]}
        PROVE  Outcome(app, b) /\ (AuthOnWire(b) => AuthOnWire(app))
    <3>1. SamePhase(app, b)  BY <1>3, <2>2 DEF SamePhase, SameTalk
    <3>2. "unfocus" \in Ops \ Initial  BY DEF Ops, Initial
    <3>3. Sends(app, b)  BY <1>3, <2>2, <3>1, <3>2 DEF Sends, SameTalk
    <3> QED BY <1>3, <2>2, <3>3 DEF Outcome, AuthOnWire, SameTalk
  <2> QED BY <1>5, <2>1, <2>2
<1>7. b.recoveries = app.recoveries  BY <1>3, <1>5 DEF SameProps
<1> QED BY <1>2, <1>5, <1>6, <1>7, Changed

\* componentDidUpdate with another openSocket.
LEMMA ChangeFunctionStep == Inv /\ ChangeFunction => Inv' /\ Outcome(app, app')
<1> SUFFICES ASSUME Inv, ChangeFunction PROVE Inv' /\ Outcome(app, app')
  OBVIOUS
<1> DEFINE b == ForceClose(app)
<1>1. app' = b /\ UserStep /\ app \in App /\ Sound(app) /\ app.active
  BY DEF ChangeFunction, Do, Inv
<1>2. /\ b \in App /\ SameProps(app, b) /\ Sound(b)
      /\ Fresh(b) \/ SameTalk(app, b)
  BY <1>1, ForceCloseSound
<1> HIDE DEF b
<1> QED BY <1>1, <1>2, Keeps, Changed DEF SameProps

\* INITIAL is sent when the socket has opened
LEMMA OnOpenStep ==
  ASSUME Inv, NEW withActivity \in BOOLEAN, OnOpen(withActivity)
  PROVE  Inv' /\ Outcome(app, app')
<1> DEFINE es == InitialAnswers(withActivity)
           s == app.sock
           t == [s EXCEPT !.ready = "open"]
           a == [app EXCEPT !.sock = t]
           rs == {[op |-> "init", expects |-> e] : e \in es}
           b == Send(a, "init", es)
<1>1. app \in App /\ Sound(app) /\ s.ready = "connecting" /\ s \in Socket
  BY DEF Inv, OnOpen, App
<1>2. app' = b /\ Step
  <2>1. [app EXCEPT !.sock.ready = "open"] = a  BY <1>1 DEF App
  <2> HIDE DEF a
  <2> QED BY <2>1 DEF OnOpen, Do
<1>3. rs \in SUBSET Requests /\ InitRequest \in rs /\ \A r \in rs : r.op = "init"
  BY DEF Requests, Initial, InitRequest, InitialAnswers
<1>4. /\ app.inflight = {} /\ s.todo = {} /\ s.wire = << >>
      /\ ~s.viewer /\ ~s.synced
  BY <1>1 DEF Sound, Talk, Silent
<1> HIDE DEF es
<1>5. /\ t \in Socket /\ t.ready = "open" /\ t.todo = s.todo /\ t.wire = s.wire
      /\ t.viewer = s.viewer /\ t.synced = s.synced
  <2> HIDE DEF s
  <2> QED BY <1>1 DEF Socket
<1> HIDE DEF t
<1>6. /\ a \in App /\ SameProps(app, a) /\ a.status = app.status
      /\ a.inflight = app.inflight /\ a.sock = t
  BY <1>1, <1>5 DEF App, SameProps
<1> HIDE DEF a
<1>7. /\ b \in App /\ SameProps(a, b) /\ b.status = a.status
      /\ b.inflight = a.inflight \cup rs
      /\ b.sock.todo \in {a.sock.todo, a.sock.todo \cup rs}
      /\ b.sock.ready = a.sock.ready /\ b.sock.synced = a.sock.synced
      /\ b.sock.viewer = a.sock.viewer /\ b.sock.wire = a.sock.wire
  BY <1>3, <1>6, SendFields
<1> HIDE DEF b, rs
<1>8. /\ b.status = app.status /\ b.active = app.active /\ b.inflight = rs
      /\ b.recoveries = app.recoveries
      /\ b.sock.todo \subseteq rs /\ b.sock.ready = "open" /\ ~b.sock.synced
      /\ ~b.sock.viewer /\ b.sock.wire = << >> /\ DOMAIN b.sock.wire = {}
  BY <1>4, <1>5, <1>6, <1>7 DEF SameProps
<1>9. Talk(b)
  <2>1. Silent(b) /\ SyncedOnce(b)  BY <1>8 DEF Silent, SyncedOnce
  <2>2. BeforeViewer(b)  BY <1>3, <1>8 DEF BeforeViewer
  <2>3. InitialOnce(b)  BY <1>3, <1>8 DEF InitialOnce
  <2>4. AnswersInit(b)  BY <1>8 DEF AnswersInit
  <2> QED BY <2>1, <2>2, <2>3, <2>4 DEF Talk
<1>10. StatusFits(b) /\ Awake(b)
  <2>1. app.status # "disconnected"
    BY <1>1 DEF Sound, StatusFits
  <2>2. ~Resolved(b, NoOp)
    BY <1>3, <1>8 DEF Resolved, NoOp, InitRequest
  <2>3. Awake(app)  BY <1>1 DEF Sound
  <2> QED BY <1>8, <2>1, <2>2, <2>3 DEF StatusFits, Awake
<1>11. Sound(b)  BY <1>9, <1>10 DEF Sound
<1>12. Starts(app, b)
  BY <1>1, <1>3, <1>4, <1>8 DEF Starts, SamePhase
<1>13. ~AuthOnWire(b)  BY <1>8 DEF AuthOnWire
<1> QED BY <1>2, <1>7, <1>8, <1>11, <1>12, <1>13, Changed DEF Outcome

\* any other request goes out on a connected socket
LEMMA RequestStep == Inv /\ (SendRequest \/ SendPing) => Inv' /\ Outcome(app, app')
<1> SUFFICES ASSUME Inv, NEW op \in Ops \ Initial, NEW e \in {"pong", "api"},
                    [op |-> op, expects |-> e] \in Requests,
                    app' = Send(app, op, {e}), app.status = "connected", Step
             PROVE  Inv' /\ Outcome(app, app')
  <2>1. ASSUME Inv, SendRequest PROVE Inv' /\ Outcome(app, app')
    <3>1. "api" \in Ops \ Initial /\ [op |-> "api", expects |-> "api"] \in Requests
      BY DEF Ops, Initial, Requests
    <3> QED BY <2>1, <3>1 DEF SendRequest, Do
  <2>2. ASSUME Inv, SendPing PROVE Inv' /\ Outcome(app, app')
    <3>1. "ping" \in Ops \ Initial /\ [op |-> "ping", expects |-> "pong"] \in Requests
      BY DEF Ops, Initial, Requests
    <3> QED BY <2>2, <3>1 DEF SendPing, Do
  <2> QED BY <2>1, <2>2
<1> DEFINE es == {e}
           rs == {[op |-> op, expects |-> x] : x \in es}
           b == Send(app, op, es)
<1>1. app \in App /\ Sound(app) /\ Talk(app) /\ StatusFits(app) /\ Awake(app)
  BY DEF Inv, Sound
<1>2. rs \in SUBSET Requests /\ rs = {[op |-> op, expects |-> e]}  OBVIOUS
<1>5. app' = b  OBVIOUS
<1> HIDE DEF es
<1>3. /\ b \in App /\ SameProps(app, b) /\ b.status = app.status
      /\ b.inflight = app.inflight \cup rs
      /\ b.sock.todo \in {app.sock.todo, app.sock.todo \cup rs}
      /\ b.sock.ready = app.sock.ready /\ b.sock.synced = app.sock.synced
      /\ b.sock.viewer = app.sock.viewer /\ b.sock.wire = app.sock.wire
  BY <1>1, <1>2, SendFields
<1>4. \A r \in rs : r.op # "init" /\ r.op # "retry"  BY <1>2 DEF Initial
<1> HIDE DEF b, rs
<1>6. app.sock.ready = "open"  BY <1>1 DEF StatusFits
<1>7. Talk(b)
  <2>1. app.sock.ready \notin {"none", "connecting"}  BY <1>6
  <2> QED BY <1>1, <1>2, <1>3, <1>4, <2>1, SendKeepsTalk
<1>8. StatusFits(b)
  BY <1>1, <1>3, StatusStillFits
<1>9. Awake(b)  BY <1>3 DEF Awake
<1>10. Sound(b)  BY <1>7, <1>8, <1>9 DEF Sound
<1>11. Sends(app, b)
  BY <1>2, <1>3, <1>6 DEF Sends, SamePhase
<1>12. (AuthOnWire(b) => AuthOnWire(app)) /\ b.recoveries = app.recoveries
  BY <1>3 DEF AuthOnWire, SameProps
<1> QED BY <1>3, <1>5, <1>10, <1>11, <1>12, Changed DEF Outcome

\* The throttled call of openSocket that was due.
LEMMA ThrottleEndsStep == Inv /\ ThrottleEnds => Inv' /\ Outcome(app, app')
<1> SUFFICES ASSUME Inv, ThrottleEnds PROVE Inv' /\ Outcome(app, app')
  OBVIOUS
<1> DEFINE no == FALSE
           a == [app EXCEPT !.due = no]
           b == OpenSocket(a, "reconnecting")
           c == [app EXCEPT !.throttled = no]
<1>1. app \in App /\ Sound(app) /\ Talk(app) /\ StatusFits(app) /\ Awake(app)
      /\ no \in BOOLEAN
  BY DEF Inv, Sound
<1>2. app' = (IF app.due THEN b ELSE c) /\ Step  BY DEF ThrottleEnds, Do
<1> HIDE DEF no
<1>3. /\ a \in App /\ SameProps(app, a) /\ SameTalk(app, a) /\ a.status = app.status
      /\ c \in App /\ SameProps(app, c) /\ SameTalk(app, c) /\ c.status = app.status
      /\ c.due = app.due
  BY <1>1, Assigned
<1> HIDE DEF a, c
<1>4. Talk(a) /\ StatusFits(a) /\ Talk(c) /\ StatusFits(c)
  BY <1>1, <1>3, TalkIsOfSocket
<1>5. b \in App /\ SameProps(a, b) /\ Sound(b) /\ (Fresh(b) \/ SameTalk(a, b))
  BY <1>3, <1>4, OpenSocketSound DEF Opening
<1> HIDE DEF b
<1>6. (Fresh(b) \/ SameTalk(app, b)) /\ b.recoveries = app.recoveries
  BY <1>3, <1>5 DEF SameTalk, SameProps
<1>7. Sound(c) /\ c.recoveries = app.recoveries
  <2>1. Awake(c)  BY <1>1, <1>3 DEF Awake, SameProps, SameTalk
  <2> QED BY <1>3, <1>4, <2>1 DEF Sound, SameProps
<1>8. CASE app' = b  BY <1>2, <1>5, <1>6, <1>8, Keeps, Changed
<1>9. CASE app' = c  BY <1>2, <1>3, <1>7, <1>9, Keeps, Changed
<1> QED BY <1>2, <1>8, <1>9

\* what the keyserver does with a message that it is handling
LEMMA ReplySound ==
  ASSUME Inv, NEW op \in Ops, NEW types \in Replies, NEW viewer \in BOOLEAN,
         \E r \in app.sock.todo : r.op = op,
         op \in Initial <=> types # <<"answer">>,
         types[1] \in {"act", "sync", "unknown", "auth"} => ~app.sock.viewer,
         types[1] \notin {"answer", "auth", "other"} => viewer
  PROVE  LET b == Replied(op, types, viewer)
         IN /\ b \in App /\ Sound(b) /\ b.recoveries = app.recoveries
            /\ Outcome(app, b)
            /\ types[1] # "auth" /\ AuthOnWire(b) => AuthOnWire(app)
            /\ types[1] = "auth" => ~AuthOnWire(app)
<1> DEFINE b == Replied(op, types, viewer)
           w == app.sock.wire
           n == Len(w)
           T == {"sync", "act", "answer", "auth", "close"} \cup Errors
<1>1. app \in App /\ Sound(app) /\ Talk(app) /\ StatusFits(app) /\ Awake(app)
  BY DEF Inv, Sound
<1>2. types \in Seq(T) /\ Len(types) \in {1, 2}
      /\ types[1] \in {"answer", "act", "sync", "other", "unknown", "auth"}
      /\ (types[1] = "auth" => Len(types) = 2 /\ types[2] = "close")
      /\ (Len(types) = 2 => \/ types[1] = "auth" /\ types[2] = "close"
                            \/ types[1] = "act" /\ types[2] = "sync")
      /\ (types[1] = "answer" => types = <<"answer">>)
  BY ReplyTypes
<1>3. /\ b \in App /\ SameProps(app, b) /\ b.status = app.status
      /\ b.due = app.due /\ b.inflight = app.inflight
      /\ b.sock.todo = {r \in app.sock.todo : r.op # op}
      /\ b.sock.viewer = (app.sock.viewer \/ viewer)
      /\ b.sock.ready = app.sock.ready /\ b.sock.synced = app.sock.synced
      /\ DOMAIN b.sock.wire = 1..(n + Len(types))
      /\ DOMAIN w = 1..n /\ n \in Nat
      /\ \A i \in 1..n : b.sock.wire[i] = w[i]
      /\ \A i \in 1..Len(types) :
           b.sock.wire[n + i] = [type |-> types[i], op |-> op]
  BY <1>1, <1>2, ReplyFields
<1>4. ~app.sock.viewer => op # "retry"
  BY <1>1 DEF Talk, BeforeViewer
<1>5. types[1] \in {"act", "sync", "unknown", "auth"} => op = "init" /\ ~app.sock.viewer
  <2>1. ASSUME types[1] \in {"act", "sync", "unknown", "auth"} PROVE op = "init"
    <3>1. types # <<"answer">>  BY <2>1
    <3> QED BY <1>4, <2>1, <3>1 DEF Initial
  <2> QED BY <2>1
<1> HIDE DEF b, n
<1>6. Talk(b)
  <2>1. types[1] \notin {"answer", "auth", "other"} => b.sock.viewer  BY <1>3
  <2>2. app.sock.viewer => b.sock.viewer  BY <1>3
  <2> QED BY <1>1, <1>3, <1>5, <2>1, <2>2, ReplyKeepsTalk
<1>7. \A i \in DOMAIN w : i \in DOMAIN b.sock.wire /\ b.sock.wire[i] = w[i]
  BY <1>2, <1>3
<1>8. StatusFits(b)
  <2>1. ClosesOnWire(app) => ClosesOnWire(b)  BY <1>7 DEF ClosesOnWire
  <2>2. Resolved(b, NoOp) <=> Resolved(app, NoOp)  BY <1>3 DEF Resolved
  <2> QED BY <1>1, <1>3, <2>1, <2>2 DEF StatusFits
<1>9. Awake(b)  BY <1>1, <1>3 DEF Awake, SameProps
<1>10. Outcome(app, b)  BY <1>3 DEF Outcome, SamePhase
<1>11. ASSUME types[1] # "auth", AuthOnWire(b) PROVE AuthOnWire(app)
  <2>1. PICK i \in DOMAIN b.sock.wire : b.sock.wire[i].type = "auth"
    BY <1>11 DEF AuthOnWire
  <2>2. ASSUME i \notin DOMAIN w PROVE FALSE
    <3>1. PICK j \in 1..Len(types) : i = n + j
      <4>1. i \in 1..(n + Len(types)) /\ i \notin 1..n /\ n \in Nat /\ Len(types) \in Nat
        BY <1>2, <1>3, <2>2
      <4>2. i - n \in 1..Len(types) /\ i = n + (i - n)  BY <4>1
      <4> QED BY <4>2
    <3>2. types[j] = "auth"
      <4>1. b.sock.wire[n + j] = [type |-> types[j], op |-> op]  BY <1>3
      <4> QED BY <2>1, <3>1, <4>1
    <3>3. j = 1 \/ (j = 2 /\ Len(types) = 2)
      <4> DEFINE L == Len(types)
      <4>1. (L = 1 \/ L = 2) /\ j \in 1..L  BY <1>2
      <4> HIDE DEF L
      <4>2. j = 1 \/ (j = 2 /\ L = 2)  BY <4>1
      <4> QED BY <4>2 DEF L
    <3> QED BY <1>2, <1>11, <3>2, <3>3
  <2> QED BY <1>7, <2>1, <2>2 DEF AuthOnWire
<1>12. ASSUME types[1] = "auth" PROVE ~AuthOnWire(app)
  <2>1. \A i \in DOMAIN w : w[i].op # "init"
    BY <1>1, <1>5, <1>12 DEF Talk, InitialOnce
  <2> QED BY <1>1, <2>1 DEF AuthOnWire, Talk, AnswersInit
<1> QED
  BY <1>3, <1>6, <1>8, <1>9, <1>10, <1>11, <1>12 DEF Sound, SameProps, b

\* Whatever the keyserver does puts a message on the wire.
LEMMA ServerSteps ==
  Inv /\ (\/ ServerStep
          \/ \E op \in Initial, e \in Errors, v \in BOOLEAN : FailInitial(op, e, v)
          \/ \E op \in Initial : Deauthorize(op))
    => Inv' /\ Outcome(app, app')
<1> DEFINE yes == TRUE
           no == FALSE
<1>0. yes \in BOOLEAN /\ no \in BOOLEAN /\ yes /\ Initial \subseteq Ops
  BY DEF Ops
<1> HIDE DEF yes, no
<1>1. ASSUME Inv, NEW op \in Ops, NEW types \in Replies, NEW viewer \in BOOLEAN,
             \E r \in app.sock.todo : r.op = op,
             op \in Initial <=> types # <<"answer">>,
             types[1] \in {"act", "sync", "unknown"} => ~app.sock.viewer,
             types[1] # "auth", types[1] \in {"act", "sync", "unknown"} => viewer,
             app' = Replied(op, types, viewer), Step \/ FaultStep
      PROVE  Inv' /\ Outcome(app, app')
  <2> DEFINE b == Replied(op, types, viewer)
  <2>1. /\ b \in App /\ Sound(b) /\ b.recoveries = app.recoveries
        /\ Outcome(app, b) /\ (AuthOnWire(b) => AuthOnWire(app))
    <3>1. types[1] \notin {"answer", "auth", "other"} => viewer
      BY <1>1, ReplyTypes
    <3> QED BY <1>1, <3>1, ReplySound
  <2>2. app' = b  BY <1>1
  <2> HIDE DEF b
  <2> QED BY <1>1, <2>1, <2>2, Changed
<1>2. ASSUME Inv, NEW r \in Requests, AnswerRequest(r) PROVE Inv' /\ Outcome(app, app')
  <2> DEFINE types == <<"answer">>
  <2>1. types \in Replies /\ types[1] = "answer" /\ types = <<"answer">>
    BY DEF Replies
  <2>2. r.op \in Ops /\ r.op \notin Initial /\ r \in app.sock.todo /\ Step
        /\ app' = Replied(r.op, types, no)
    BY <1>2 DEF AnswerRequest, Do, Requests, Ops, no
  <2> HIDE DEF types
  <2> QED BY <1>0, <1>1, <1>2, <2>1, <2>2
<1>3. ASSUME Inv, NEW op \in Initial, AnswerInitial(op) PROVE Inv' /\ Outcome(app, app')
  <2> DEFINE types == IF [op |-> op, expects |-> "act"] \in app.sock.todo
                      THEN <<"act", "sync">> ELSE <<"sync">>
  <2>1. /\ types \in Replies /\ types # <<"answer">>
        /\ types[1] \in {"act", "sync"}
    BY DEF Replies
  <2>2. /\ \E r \in app.sock.todo : r.op = op
        /\ ~app.sock.viewer /\ Step /\ app' = Replied(op, types, yes)
    BY <1>3 DEF AnswerInitial, Do, yes
  <2> HIDE DEF types
  <2>3. types[1] # "auth"  BY <2>1
  <2> QED BY <1>0, <1>1, <1>3, <2>1, <2>2, <2>3
<1>4. ASSUME Inv, NEW op \in Initial, RefuseInitial(op) PROVE Inv' /\ Outcome(app, app')
  <2> DEFINE types == <<"other">>
  <2>1. types \in Replies /\ types # <<"answer">> /\ types[1] = "other"
    BY DEF Replies
  <2>2. /\ \E r \in app.sock.todo : r.op = op
        /\ Step /\ app' = Replied(op, types, yes)
    BY <1>4 DEF RefuseInitial, Do, yes
  <2> HIDE DEF types
  <2> QED BY <1>0, <1>1, <1>4, <2>1, <2>2
<1>5. ASSUME Inv, NEW op \in Initial, NEW e \in Errors, NEW v \in BOOLEAN,
             FailInitial(op, e, v)
      PROVE  Inv' /\ Outcome(app, app')
  <2> DEFINE types == <<e>>
  <2>1. /\ types \in Replies /\ types # <<"answer">>
        /\ types[1] \in {"other", "unknown"} /\ types[1] = e
    BY DEF Replies, Errors
  <2>2. /\ \E r \in app.sock.todo : r.op = op
        /\ e = "unknown" => v
        /\ ~app.sock.viewer /\ FaultStep /\ app' = Replied(op, types, v)
    BY <1>5 DEF FailInitial, Do
  <2> HIDE DEF types
  <2>3. types[1] # "auth"  BY <2>1
  <2> QED BY <1>0, <1>1, <1>5, <2>1, <2>2, <2>3
<1>6. ASSUME Inv, NEW op \in Initial, Deauthorize(op) PROVE Inv' /\ Outcome(app, app')
  <2> DEFINE types == <<"auth", "close">>
             b == Replied(op, types, no)
  <2>1. types \in Replies /\ types # <<"answer">> /\ types[1] = "auth"
    BY DEF Replies
  <2>2. /\ \E r \in app.sock.todo : r.op = op
        /\ ~app.sock.viewer /\ FaultStep /\ app' = b
    BY <1>6 DEF Deauthorize, Do, no
  <2> HIDE DEF types
  <2>3. /\ b \in App /\ Sound(b) /\ b.recoveries = app.recoveries
        /\ Outcome(app, b) /\ ~AuthOnWire(app)
    BY <1>0, <1>6, <2>1, <2>2, ReplySound
  <2> HIDE DEF b
  <2>4. RecoveriesCounted'
    <3>1. app'.recoveries <= faults /\ faults' = faults + 1 /\ faults' \in 0..MaxFaults
          /\ faults \in Nat /\ user' \in 0..MaxUser /\ app'.recoveries \in Nat
      BY <1>6, <2>2, <2>3, BoundsAssumption
      DEF Inv, RecoveriesCounted, FaultStep, App
    <3> QED BY <3>1 DEF RecoveriesCounted
  <2>5. app' \in App /\ Sound(app')  BY <2>2, <2>3
  <2> QED BY <2>2, <2>3, <2>4, <2>5 DEF Inv
<1> QED BY <1>2, <1>3, <1>4, <1>5, <1>6 DEF ServerStep

\* The connection is lost unnoticed: whoever waited for a close frame still
\* waits for an answer to INITIAL.
LEMMA DieStep == Inv /\ Die => Inv' /\ Outcome(app, app')
<1> SUFFICES ASSUME Inv, Die PROVE Inv' /\ Outcome(app, app')
  OBVIOUS
<1> DEFINE no == FALSE
           none == << >>
           s == app.sock
           t == [s EXCEPT !.alive = no, !.todo = {}, !.wire = none]
           b == [app EXCEPT !.sock = t]
<1>1. app \in App /\ s \in Socket /\ Talk(app) /\ StatusFits(app) /\ Awake(app)
      /\ no \in BOOLEAN /\ none \in Seq(Messages) /\ DOMAIN none = {}
  BY DEF Inv, Sound, App
<1>2. app' = b /\ FaultStep
  <2>1. [app EXCEPT !.sock.alive = no, !.sock.todo = {}, !.sock.wire = none] = b
    <3> HIDE DEF no, none
    <3> QED BY <1>1 DEF App
  <2> HIDE DEF b
  <2> QED BY <2>1 DEF Die, Do
<1> HIDE DEF no, none
<1>3. /\ t \in Socket /\ t.ready = s.ready /\ t.synced = s.synced
      /\ t.viewer = s.viewer /\ t.todo = {} /\ t.wire = none
  <2> HIDE DEF s
  <2> QED BY <1>1 DEF Socket
<1> HIDE DEF t
<1>4. /\ b \in App /\ SameProps(app, b) /\ b.status = app.status /\ b.due = app.due
      /\ b.inflight = app.inflight /\ b.sock = t
  BY <1>1, <1>3 DEF App, SameProps
<1> HIDE DEF b
<1>5. Talk(b)
  <2>1. Silent(b)  BY <1>1, <1>3, <1>4 DEF Silent, Talk, none
  <2>2. BeforeViewer(b)  BY <1>1, <1>3, <1>4 DEF BeforeViewer, Talk
  <2>3. InitialOnce(b) /\ AnswersInit(b)
    BY <1>1, <1>3, <1>4 DEF InitialOnce, AnswersInit
  <2>4. SyncedOnce(b)  BY <1>1, <1>3, <1>4 DEF SyncedOnce, Talk
  <2> QED BY <2>1, <2>2, <2>3, <2>4 DEF Talk
<1>6. ASSUME ClosesOnWire(app) PROVE ~Resolved(app, NoOp)
  <2>1. PICK i \in DOMAIN s.wire : s.wire[i].type = "close"
    BY <1>6 DEF ClosesOnWire
  <2>2. i # 1
    <3>1. s.wire \in Seq(Messages)  BY <1>1 DEF Socket
    <3>2. Head(s.wire) = s.wire[1]
      <4> HIDE DEF s
      <4> QED BY <2>1, <3>1, EmptySeq, HeadTailProperties
    <3>3. Head(s.wire).type # "close"
      BY <1>6, <2>1 DEF Die, CloseOnWire
    <3> QED BY <2>1, <3>2, <3>3
  <2>3. i - 1 \in DOMAIN s.wire /\ s.wire[i - 1].type = "auth"
    BY <1>1, <2>1, <2>2 DEF Talk, AnswersInit
  <2>4. s.wire[i - 1].op = "init"
    BY <1>1, <2>3 DEF Talk, AnswersInit
  <2>5. InitRequest \in app.inflight
    BY <1>1, <2>3, <2>4 DEF Talk, InitialOnce
  <2> QED BY <2>5 DEF Resolved, InitRequest, NoOp
<1>7. StatusFits(b)
  <2>1. Resolved(b, NoOp) <=> Resolved(app, NoOp)  BY <1>4 DEF Resolved
  <2> QED BY <1>1, <1>3, <1>4, <1>6, <2>1 DEF StatusFits
<1>8. Awake(b)  BY <1>1, <1>4 DEF Awake, SameProps
<1>9. Sound(b) /\ b.recoveries = app.recoveries
  BY <1>4, <1>5, <1>7, <1>8 DEF Sound, SameProps
<1>10. ~AuthOnWire(b)  BY <1>1, <1>3, <1>4 DEF AuthOnWire
<1>11. Outcome(app, b)  BY <1>3, <1>4 DEF Outcome, SamePhase
<1> QED BY <1>2, <1>4, <1>9, <1>10, <1>11, Changed

\* reading a message settles the request it answers, or ends the connection
LEMMA ReceivedOutcome ==
  ASSUME Inv, app.sock.wire # << >>, Head1.type # "close"
  PROVE  LET b == Received(Head1)
         IN /\ Fresh(b) \/ Settles(app, b)
            /\ AuthOnWire(b) => AuthOnWire(app)
            /\ Head1.type \in {"sync", "unknown", "auth"} =>
                 /\ ~AuthOnWire(b)
                 /\ Head1.op = "init" /\ InitRequest \in app.inflight
                 /\ \A i \in DOMAIN b.sock.wire :
                      b.sock.wire[i].type \notin {"sync", "unknown"}
            /\ Head1.type = "auth" => AuthOnWire(app)
            /\ Head1.type \in {"sync", "unknown"} =>
                 app.sock.viewer /\ ~app.sock.synced
            /\ Head1 \in Messages
<1> DEFINE b == Received(Head1)
           w == app.sock.wire
<1>1. app \in App /\ Sound(app) /\ Talk(app) /\ w \in Seq(Messages) /\ w # << >>
  BY DEF Inv, Sound, App, Socket
<1>2. /\ KeptBy(Head1) =>
           /\ b.inflight = {r \in app.inflight : ~Matches(Head1, r)}
           /\ b.sock.wire = Tail(w)
           /\ b.sock.ready = app.sock.ready /\ b.sock.synced = app.sock.synced
      /\ ~KeptBy(Head1) => Fresh(b)
  BY <1>1, ReceivedSound
<1> HIDE DEF b
<1>3. /\ Head1 = w[1] /\ 1 \in DOMAIN w /\ Head1 \in Messages
      /\ \A i \in DOMAIN Tail(w) : i + 1 \in DOMAIN w /\ Tail(w)[i] = w[i + 1] /\ 1 < i + 1
  <2>1. Head1 = Head(w)  BY DEF Head1
  <2> HIDE DEF w
  <2>2. /\ Head(w) = w[1] /\ 1 \in DOMAIN w /\ Head(w) \in Messages
        /\ DOMAIN w = 1..Len(w) /\ Len(w) \in Nat
        /\ Tail(w) \in Seq(Messages) /\ Len(Tail(w)) = Len(w) - 1
        /\ \A i \in 1..Len(Tail(w)) : Tail(w)[i] = w[i + 1]
    BY <1>1, HeadTailProperties, EmptySeq, LenProperties
  <2>3. DOMAIN Tail(w) = 1..Len(Tail(w))  BY <2>2, LenProperties
  <2> QED BY <2>1, <2>2, <2>3
<1>4. Fresh(b) \/ Settles(app, b)
  <2>1. ASSUME KeptBy(Head1) PROVE Settles(app, b)
    <3>1. SamePhase(app, b)  BY <1>2, <2>1 DEF SamePhase
    <3> QED BY <1>2, <1>3, <2>1, <3>1 DEF Settles
  <2> QED BY <1>2, <2>1
<1>5. \A i \in DOMAIN b.sock.wire : \E j \in DOMAIN w : 1 < j /\ b.sock.wire[i] = w[j]
  <2>1. CASE KeptBy(Head1)  BY <1>2, <1>3, <2>1
  <2>2. CASE ~KeptBy(Head1)
    <3>1. DOMAIN b.sock.wire = {}  BY <1>2, <2>2, BlankFields DEF Fresh
    <3> QED BY <3>1
  <2> QED BY <2>1, <2>2
<1>6. AuthOnWire(b) => AuthOnWire(app)  BY <1>5 DEF AuthOnWire
<1>7. ASSUME Head1.type \in {"sync", "unknown", "auth"}
      PROVE  /\ ~AuthOnWire(b)
             /\ Head1.op = "init" /\ InitRequest \in app.inflight
             /\ \A i \in DOMAIN b.sock.wire :
                  b.sock.wire[i].type \notin {"sync", "unknown"}
  <2>1. Head1.op = "init" /\ InitRequest \in app.inflight
    <3>1. w[1].op = "init"  BY <1>1, <1>3, <1>7 DEF Talk, AnswersInit
    <3>2. w[1].type # "close"  BY <1>3
    <3> QED BY <1>1, <1>3, <3>1, <3>2 DEF Talk, InitialOnce
  <2>2. ASSUME NEW j \in DOMAIN w, 1 < j
        PROVE  w[j].type \notin {"sync", "unknown", "auth"}
    <3>1. ASSUME w[j].type \in {"sync", "unknown", "auth"} PROVE FALSE
      <4>1. w[j].op = "init"  BY <1>1, <3>1 DEF Talk, AnswersInit
      <4>2. \/ w[1].type = "act" /\ w[j].type = "sync"
            \/ w[1].type = "auth" /\ w[j].type = "close"
        BY <1>1, <1>3, <2>1, <2>2, <4>1 DEF Talk, InitialOnce
      <4> QED BY <1>3, <1>7, <3>1, <4>2
    <3> QED BY <3>1
  <2> QED BY <1>5, <2>1, <2>2 DEF AuthOnWire
<1>8. Head1.type = "auth" => AuthOnWire(app)  BY <1>3 DEF AuthOnWire
<1>9. Head1.type \in {"sync", "unknown"} => app.sock.viewer /\ ~app.sock.synced
  BY <1>1, <1>3 DEF Talk, BeforeViewer, SyncedOnce
<1> QED BY <1>3, <1>4, <1>6, <1>7, <1>8, <1>9 DEF b

\* A response to a request of the client.
LEMMA ReceiveAnswerStep == Inv /\ ReceiveAnswer => Inv' /\ Outcome(app, app')
<1> SUFFICES ASSUME Inv, ReceiveAnswer PROVE Inv' /\ Outcome(app, app')
  OBVIOUS
<1> DEFINE b == Received(Head1)
<1>1. /\ app \in App /\ Sound(app) /\ app.sock.wire # << >> /\ Head1.type # "close"
      /\ app' = b /\ Step
  BY DEF Inv, ReceiveAnswer, Do
<1>2. b \in App /\ SameProps(app, b) /\ Sound(b)  BY <1>1, ReceivedSound
<1>3. (Fresh(b) \/ Settles(app, b)) /\ (AuthOnWire(b) => AuthOnWire(app))
  BY <1>1, ReceivedOutcome
<1> HIDE DEF b
<1>4. Outcome(app, b)  BY <1>3 DEF Outcome
<1> QED BY <1>1, <1>2, <1>3, <1>4, Changed DEF SameProps

\* the state sync is dispatched
LEMMA ReceiveStateSyncStep == Inv /\ ReceiveStateSync => Inv' /\ Outcome(app, app')
<1> SUFFICES ASSUME Inv, ReceiveStateSync PROVE Inv' /\ Outcome(app, app')
  OBVIOUS
<1> DEFINE yes == TRUE
           b == Received(Head1)
           s == b.sock
           t == [s EXCEPT !.synced = yes]
           c == [b EXCEPT !.status = "connected", !.sock = t]
           f(w) == InitialFails(b, app.sock.retries, "plain", w)
<1>1. /\ app \in App /\ Sound(app) /\ app.sock.wire # << >>
      /\ app.sock.ready = "open" /\ Head1.type = "sync" /\ Step
      /\ \A r \in app.inflight : r.op = Head1.op => Matches(Head1, r)
  BY DEF Inv, ReceiveStateSync
<1>2. /\ b \in App /\ SameProps(app, b) /\ Sound(b)
      /\ KeptBy(Head1) =>
           /\ b.inflight = {r \in app.inflight : ~Matches(Head1, r)}
           /\ b.sock.ready = app.sock.ready /\ b.sock.synced = app.sock.synced
           /\ b.sock.viewer = app.sock.viewer
      /\ ~KeptBy(Head1) => Fresh(b)
  BY <1>1, ReceivedSound
<1>3. /\ ~AuthOnWire(b) /\ Head1.op = "init" /\ InitRequest \in app.inflight
      /\ \A i \in DOMAIN b.sock.wire : b.sock.wire[i].type \notin {"sync", "unknown"}
      /\ app.sock.viewer /\ ~app.sock.synced
  BY <1>1, ReceivedOutcome
<1>4. /\ KeptBy(Head1) => app' = c
      /\ ~KeptBy(Head1) => \E w \in BOOLEAN : app' = f(w)
  <2>1. b \in App  BY <1>2
  <2> HIDE DEF b
  <2>2. [b EXCEPT !.status = "connected", !.sock.synced = yes] = c
    BY <2>1 DEF App
  <2> HIDE DEF c, f
  <2> QED BY <2>2 DEF ReceiveStateSync, InitialisationFails, Do, b, f
<1>5. yes \in BOOLEAN /\ yes  OBVIOUS
<1> HIDE DEF b, yes
<1>6. CASE KeptBy(Head1)
  <2>1. s \in Socket  BY <1>2 DEF App
  <2>2. /\ t \in Socket /\ t.ready = s.ready /\ t.viewer = s.viewer /\ t.todo = s.todo
        /\ t.wire = s.wire /\ t.synced
    <3> HIDE DEF s
    <3> QED BY <1>5, <2>1 DEF Socket
  <2> HIDE DEF t
  <2>3. /\ c \in App /\ SameProps(b, c) /\ c.status = "connected"
        /\ c.inflight = b.inflight /\ c.sock = t
    BY <1>2, <2>2 DEF App, SameProps, Status
  <2> HIDE DEF c
  <2>4. Talk(c)
    <3>1. Silent(c)  BY <1>1, <1>2, <1>6, <2>2, <2>3 DEF Silent
    <3>2. BeforeViewer(c) /\ InitialOnce(c) /\ AnswersInit(c)
      BY <1>2, <2>2, <2>3 DEF Sound, Talk, BeforeViewer, InitialOnce, AnswersInit
    <3>3. SyncedOnce(c)  BY <1>2, <1>3, <1>6, <2>2, <2>3 DEF SyncedOnce
    <3> QED BY <3>1, <3>2, <3>3 DEF Talk
  <2>5. StatusFits(c) /\ Awake(c)
    BY <1>1, <1>2, <1>6, <2>2, <2>3 DEF StatusFits, Awake
  <2>6. Sound(c) /\ c.recoveries = app.recoveries /\ ~AuthOnWire(c)
    BY <1>2, <1>3, <2>2, <2>3, <2>4, <2>5 DEF Sound, SameProps, AuthOnWire
  <2>7. c.inflight = {r \in app.inflight : r.op # "init"}
    <3>1. \A r \in app.inflight : Matches(Head1, r) <=> r.op = "init"
      BY <1>1, <1>3 DEF Matches
    <3> QED BY <1>2, <1>6, <2>3, <3>1
  <2>8. Initialises(app, c)
    BY <1>1, <1>2, <1>3, <1>6, <2>2, <2>3, <2>7 DEF Initialises
  <2> QED BY <1>1, <1>4, <1>6, <2>3, <2>6, <2>8, Changed DEF Outcome
<1>7. CASE ~KeptBy(Head1)
  <2>0. PICK w \in BOOLEAN : app' = f(w)  BY <1>4, <1>7
  <2>1. f(w) \in App /\ SameProps(b, f(w)) /\ Fresh(f(w))
    BY <1>2, <1>7, FailOfFresh
  <2> HIDE DEF f
  <2>2. f(w).recoveries = app.recoveries  BY <1>2, <2>1 DEF SameProps
  <2> QED
    BY <1>1, <2>0, <2>1, <2>2, FreshIsSound, FreshIsQuiet, Changed DEF Outcome
<1> QED BY <1>6, <1>7

\* An error message.
LEMMA ReceiveErrorStep == Inv /\ ReceiveError => Inv' /\ Outcome(app, app')
<1> SUFFICES ASSUME Inv, ReceiveError PROVE Inv' /\ Outcome(app, app')
  OBVIOUS
<1> PICK w \in BOOLEAN :
      app' = InitialFails(Received(Head1), app.sock.retries, Head1.type, w)
  BY DEF ReceiveError, InitialisationFails, Do
<1> DEFINE b == Received(Head1)
           e == Head1.type
           f == InitialFails(b, app.sock.retries, e, w)
<1>1. /\ app \in App /\ Sound(app) /\ app.sock.wire # << >>
      /\ app.sock.ready = "open" /\ e \in Errors /\ Step /\ app' = f
      /\ app.sock.retries \in 0..1 /\ e # "close" /\ e # "plain"
  BY DEF Inv, ReceiveError, Errors, App, Socket
<1>2. /\ b \in App /\ SameProps(app, b) /\ Sound(b)
      /\ KeptBy(Head1) =>
           /\ b.inflight = {r \in app.inflight : ~Matches(Head1, r)}
           /\ b.sock.ready = app.sock.ready /\ b.sock.synced = app.sock.synced
           /\ b.sock.viewer = app.sock.viewer
      /\ ~KeptBy(Head1) => Fresh(b)
  BY <1>1, ReceivedSound
<1>3. /\ AuthOnWire(b) => AuthOnWire(app)
      /\ Fresh(b) \/ Settles(app, b)
      /\ e = "unknown" => /\ Head1.op = "init" /\ InitRequest \in app.inflight
                          /\ app.sock.viewer /\ ~app.sock.synced
  BY <1>1, ReceivedOutcome
<1> HIDE DEF b
<1>4. CASE KeptBy(Head1)
  <2>1. e = "unknown" => b.sock.viewer  BY <1>2, <1>3, <1>4
  <2> HIDE DEF e
  <2>2. /\ f \in App /\ SameProps(b, f) /\ Sound(f)
        /\ (f.sock.ready = "none") <=> (b.sock.ready = "none")
        /\ f.sock.synced = b.sock.synced /\ f.sock.wire = b.sock.wire
        /\ \/ f.inflight = b.inflight
           \/ e = "unknown" /\ f.inflight = b.inflight \cup RetryRequests(w)
    BY <1>1, <1>2, <2>1, InitialFailsSound
  <2> HIDE DEF f
  <2>3. /\ AuthOnWire(f) => AuthOnWire(app)
        /\ f.recoveries = app.recoveries /\ SamePhase(app, f)
    BY <1>2, <1>3, <1>4, <2>2 DEF AuthOnWire, SameProps, SamePhase
  <2>4. CASE f.inflight = b.inflight
    <3>1. Outcome(app, f)
      <4>1. CASE Settles(app, b)
        <5>1. Settles(app, f)  BY <2>3, <2>4, <4>1 DEF Settles
        <5> QED BY <5>1 DEF Outcome
      <4>2. CASE Fresh(b)
        <5>1. b.sock.ready # "open" /\ b.sock.ready = app.sock.ready
          BY <1>2, <1>4, <4>2, BlankReady DEF Fresh
        <5> QED BY <1>1, <5>1
      <4> QED BY <1>3, <4>1, <4>2
    <3> QED BY <1>1, <2>2, <2>3, <3>1, Changed
  <2>5. ASSUME e = "unknown",
               f.inflight = b.inflight \cup RetryRequests(w)
        PROVE  Retries(app, f)
    <3>1. \A r \in app.inflight : Matches(Head1, r) <=> r.op = "init"
      BY <1>3, <2>5 DEF Matches, e
    <3>2. b.inflight = {r \in app.inflight : r.op # "init"}
      BY <1>2, <1>4, <3>1
    <3> QED BY <1>1, <1>3, <2>3, <2>5, <3>2 DEF Retries
  <2> QED BY <1>1, <2>2, <2>3, <2>4, <2>5, Changed DEF Outcome
<1>5. CASE ~KeptBy(Head1)
  <2>1. f \in App /\ SameProps(b, f) /\ Fresh(f)  BY <1>2, <1>5, FailOfFresh
  <2> HIDE DEF f, e
  <2>2. f.recoveries = app.recoveries  BY <1>2, <2>1 DEF SameProps
  <2> QED
    BY <1>1, <2>1, <2>2, FreshIsSound, FreshIsQuiet, Changed DEF Outcome
<1> QED BY <1>4, <1>5

\* the recovery that an AUTH_ERROR starts, or the end of one
LEMMA RecoverySound ==
  ASSUME NEW a \in App, NEW b \in App, Sound(a), SameTalk(a, b),
         b.active = a.active, b.status = a.status, b.due = a.due,
         b.recovering \/ ~b.active \/ b.status # "disconnected"
  PROVE  Sound(b) /\ (Fresh(a) => Fresh(b))
<1>1. Talk(b) /\ StatusFits(b)  BY TalkIsOfSocket DEF Sound
<1>2. Awake(b)  BY DEF Awake, Sound, SameTalk
<1>3. Fresh(a) => Fresh(b)  BY DEF Fresh, SameTalk
<1> QED BY <1>1, <1>2, <1>3 DEF Sound

\* An authorization error, after which the client recovers its session.
LEMMA ReceiveAuthErrorStep == Inv /\ ReceiveAuthError => Inv' /\ Outcome(app, app')
<1> SUFFICES ASSUME Inv, ReceiveAuthError PROVE Inv' /\ Outcome(app, app')
  OBVIOUS
<1> DEFINE yes == TRUE
           b == Received(Head1)
           n == b.recoveries + 1
           c == [b EXCEPT !.recovering = yes, !.recoveries = n]
<1>1. /\ app \in App /\ Sound(app) /\ app.sock.wire # << >>
      /\ Head1.type = "auth" /\ Step /\ app' = c /\ yes /\ yes \in BOOLEAN
  BY DEF Inv, ReceiveAuthError, Do
<1>2. b \in App /\ SameProps(app, b) /\ Sound(b)  BY <1>1, ReceivedSound
<1>3. ~AuthOnWire(b) /\ AuthOnWire(app) /\ (Fresh(b) \/ Settles(app, b))
  BY <1>1, ReceivedOutcome
<1> HIDE DEF b, yes
<1>4. n \in Nat /\ n = app.recoveries + 1  BY <1>2 DEF App, SameProps
<1> HIDE DEF n
<1>5. /\ c \in App /\ c.active = b.active /\ c.status = b.status
      /\ c.due = b.due /\ SameTalk(b, c) /\ c.recovering = yes /\ c.recoveries = n
  <2>1. b \in App /\ yes \in BOOLEAN /\ n \in Nat  BY <1>1, <1>2, <1>4
  <2>2. c = [b EXCEPT !.recovering = yes, !.recoveries = n]  OBVIOUS
  <2> HIDE DEF c
  <2> QED BY <2>1, <2>2 DEF App, SameTalk
<1> HIDE DEF c
<1>6. Sound(c) /\ (Fresh(b) => Fresh(c))
  BY <1>1, <1>2, <1>5, RecoverySound
<1>7. Settles(app, b) => Settles(app, c)
  BY <1>5 DEF Settles, SamePhase, SameTalk
<1>8. ~AuthOnWire(c)  BY <1>3, <1>5 DEF AuthOnWire, SameTalk
<1>9. Outcome(app, c)  BY <1>3, <1>6, <1>7 DEF Outcome
<1>10. RecoveriesCounted'
  <2>1. /\ app.recoveries < faults /\ faults' = faults /\ user' = user
        /\ app.recoveries \in Nat /\ faults \in 0..MaxFaults /\ user \in 0..MaxUser
    BY <1>1, <1>3 DEF Inv, RecoveriesCounted, Step, App
  <2>2. app'.recoveries = app.recoveries + 1 /\ ~AuthOnWire(app')
    BY <1>1, <1>4, <1>5, <1>8
  <2> QED BY <2>1, <2>2, BoundsAssumption DEF RecoveriesCounted
<1>11. app' \in App /\ Sound(app')  BY <1>1, <1>5, <1>6
<1> QED BY <1>1, <1>9, <1>10, <1>11 DEF Inv

\* The recovery ends, with a new session or without one.
LEMMA RecoveryEndsStep ==
  ASSUME Inv, NEW success \in BOOLEAN, NEW threadOpen \in BOOLEAN,
         RecoveryEnds(success, threadOpen)
  PROVE  Inv' /\ Outcome(app, app')
<1> DEFINE no == FALSE
           off == [app EXCEPT !.active = no]
           b == CASE app.active /\ success  -> ForceClose(app)
                  [] app.active /\ ~success -> CloseSocket(off, threadOpen)
                  [] OTHER -> app
           n == b.recoveries - 1
           c == [b EXCEPT !.recovering = no, !.recoveries = n]
<1>1. /\ app \in App /\ Sound(app) /\ Talk(app) /\ StatusFits(app)
      /\ app.recoveries > 0 /\ Step /\ app' = c /\ ~no /\ no \in BOOLEAN
  BY DEF Inv, RecoveryEnds, Do, Sound
<1> HIDE DEF no
<1>2. /\ off \in App /\ SameTalk(app, off) /\ off.status = app.status
      /\ off.recoveries = app.recoveries /\ ~off.active
  BY <1>1, Activated
<1>3. Talk(off) /\ StatusFits(off)  BY <1>1, <1>2, TalkIsOfSocket
<1> HIDE DEF off
<1> DEFINE Good(x) == /\ x \in App /\ Sound(x) /\ x.recoveries = app.recoveries
                      /\ ~x.active \/ x.status # "disconnected"
                      /\ \/ Fresh(x)
                         \/ SameTalk(app, x)
                         \/ Sends(app, x) /\ x.sock.wire = app.sock.wire
<1>4. ASSUME app.active, success PROVE Good(b)
  <2>1. b = ForceClose(app)  BY <1>4
  <2>2. Good(ForceClose(app))  BY <1>1, <1>4, ForceCloseSound DEF SameProps
  <2> HIDE DEF b, Good
  <2> QED BY <2>1, <2>2
<1>5. ASSUME app.active, ~success PROVE Good(b)
  <2> DEFINE d == CloseSocket(off, threadOpen)
  <2>1. b = d  BY <1>5
  <2>2. /\ d \in App /\ SameProps(off, d) /\ Sound(d)
        /\ \/ Fresh(d)
           \/ SameTalk(off, d)
           \/ /\ d.sock.wire = off.sock.wire /\ d.sock.synced = off.sock.synced
              /\ d.sock.ready = off.sock.ready /\ off.sock.ready # "none"
              /\ d.inflight = off.inflight \cup {[op |-> "unfocus", expects |-> "api"]}
    BY <1>2, <1>3, CloseSocketSound
  <2> HIDE DEF b, d
  <2>3. SameTalk(off, d) => SameTalk(app, d)  BY <1>2 DEF SameTalk
  <2>4. ASSUME d.sock.wire = off.sock.wire, d.sock.synced = off.sock.synced,
               d.sock.ready = off.sock.ready, off.sock.ready # "none",
               d.inflight = off.inflight \cup {[op |-> "unfocus", expects |-> "api"]}
        PROVE  Sends(app, d) /\ d.sock.wire = app.sock.wire
    <3>1. SamePhase(app, d)  BY <1>2, <2>4 DEF SamePhase, SameTalk
    <3>2. "unfocus" \in Ops \ Initial  BY DEF Ops, Initial
    <3> QED BY <1>2, <2>4, <3>1, <3>2 DEF Sends, SameTalk
  <2>5. d.recoveries = app.recoveries /\ ~d.active
    BY <1>2, <2>2 DEF SameProps
  <2>6. Good(d)  BY <2>2, <2>3, <2>4, <2>5
  <2> HIDE DEF Good
  <2> QED BY <2>1, <2>6
<1>6. ASSUME ~app.active PROVE Good(b)
  <2>1. b = app  BY <1>6
  <2>2. Good(app)  BY <1>1, <1>6 DEF SameTalk
  <2> HIDE DEF b, Good
  <2> QED BY <2>1, <2>2
<1>7. Good(b)  BY <1>4, <1>5, <1>6
<1> HIDE DEF b
<1>8. n \in Nat /\ n = app.recoveries - 1  BY <1>1, <1>7 DEF App
<1> HIDE DEF n
<1>9. /\ c \in App /\ c.active = b.active /\ c.status = b.status
      /\ c.due = b.due /\ SameTalk(b, c) /\ c.recovering = no /\ c.recoveries = n
  <2>1. b \in App /\ no \in BOOLEAN /\ n \in Nat  BY <1>1, <1>7, <1>8
  <2>2. c = [b EXCEPT !.recovering = no, !.recoveries = n]  OBVIOUS
  <2> HIDE DEF c
  <2> QED BY <2>1, <2>2 DEF App, SameTalk
<1> HIDE DEF c
<1>10. Sound(c) /\ (Fresh(b) => Fresh(c))
  BY <1>1, <1>7, <1>9, RecoverySound
<1>11. Outcome(app, c) /\ (AuthOnWire(c) => AuthOnWire(app))
  <2>1. CASE Fresh(b)  BY <1>10, <2>1, Keeps
  <2>2. CASE SameTalk(app, b)
    <3>1. SameTalk(app, c)  BY <1>9, <2>2 DEF SameTalk
    <3> QED BY <3>1, Keeps
  <2>3. CASE Sends(app, b) /\ b.sock.wire = app.sock.wire
    <3>1. Sends(app, c) /\ c.sock.wire = app.sock.wire
      BY <1>9, <2>3 DEF Sends, SamePhase, SameTalk
    <3> QED BY <3>1 DEF Outcome, AuthOnWire
  <2> QED BY <1>7, <2>1, <2>2, <2>3
<1>12. RecoveriesCounted'
  <2>1. /\ app.recoveries <= faults /\ faults' = faults /\ user' = user
        /\ app.recoveries \in Nat /\ faults \in 0..MaxFaults /\ user \in 0..MaxUser
    BY <1>1 DEF Inv, RecoveriesCounted, Step, App
  <2>2. app'.recoveries = app.recoveries - 1  BY <1>1, <1>8, <1>9
  <2> QED BY <1>1, <2>1, <2>2, BoundsAssumption DEF RecoveriesCounted
<1>13. app' \in App /\ Sound(app')  BY <1>1, <1>9, <1>10
<1> QED BY <1>1, <1>11, <1>12, <1>13 DEF Inv

\* onClose: of a socket that closed, was closed, or broke
LEMMA OnCloseStep ==
  Inv /\ (CloseEvent \/ ConnectionLost) => Inv' /\ Outcome(app, app')
<1> SUFFICES ASSUME Inv, OnClose, Step \/ FaultStep PROVE Inv' /\ Outcome(app, app')
  BY DEF CloseEvent, ConnectionLost
<1> DEFINE r == Released(app)
           b == Disconnect(r)
           f(w) == InitialFails(b, app.sock.retries, "plain", w)
<1>1. app \in App /\ Sound(app) /\ Awake(app)  BY DEF Inv, Sound
<1>2. (\E w \in BOOLEAN : app' = f(w)) \/ app' = b
  BY DEF OnClose, InitialisationFails, Do
<1>3. /\ r \in App /\ SameProps(app, r) /\ r.status = app.status /\ r.due = app.due
      /\ r.sock = NoSocket /\ r.inflight = {}
  BY <1>1, ReleasedSocket
<1>4. r.active /\ r.status = "disconnected" => r.due \/ r.recovering
  BY <1>1, <1>3 DEF SameProps, Awake
<1> HIDE DEF r
<1>5. b \in App /\ SameProps(r, b) /\ Fresh(b)
  BY <1>3, <1>4, DisconnectReconnects
<1> HIDE DEF b
<1>6. \A w \in BOOLEAN : f(w) \in App /\ SameProps(b, f(w)) /\ Fresh(f(w))
  BY <1>5, FailOfFresh
<1> HIDE DEF f
<1>7. /\ b.recoveries = app.recoveries
      /\ \A w \in BOOLEAN : f(w).recoveries = app.recoveries
  BY <1>3, <1>5, <1>6 DEF SameProps
<1>8. ASSUME NEW w \in BOOLEAN, app' = f(w)
      PROVE  Inv' /\ Outcome(app, app')
  BY <1>6, <1>7, <1>8, FreshIsSound, FreshIsQuiet, Changed DEF Outcome
<1>9. CASE app' = b
  BY <1>5, <1>7, <1>9, FreshIsSound, FreshIsQuiet, Changed DEF Outcome
<1> QED BY <1>2, <1>8, <1>9

\* The socket has not been initialised in time.
LEMMA ConnectTimeoutStep == Inv /\ ConnectTimeout => Inv' /\ Outcome(app, app')
<1> SUFFICES ASSUME Inv, ConnectTimeout PROVE Inv' /\ Outcome(app, app')
  OBVIOUS
<1> DEFINE b == FinishClosing(app, NoOp)
<1>1. app \in App /\ Sound(app) /\ Awake(app)  BY DEF Inv, Sound
<1>2. app' = b /\ (Step \/ FaultStep)  BY DEF ConnectTimeout, Do
<1>3. b \in App /\ SameProps(app, b) /\ (Fresh(b) \/ b = app)
  <2>1. app.active /\ app.status = "disconnected" => app.due \/ app.recovering
    BY <1>1 DEF Awake
  <2> QED BY <1>1, <2>1, FinishClosingEnds
<1> HIDE DEF b
<1>4. Sound(b) /\ (Fresh(b) \/ SameTalk(app, b))
  BY <1>1, <1>3, FreshIsSound DEF SameTalk
<1> QED BY <1>2, <1>3, <1>4, Keeps, Changed DEF SameProps

\* A request has not been answered in time.
LEMMA RequestTimeoutStep ==
  ASSUME Inv, NEW r \in Requests, RequestTimeout(r)
  PROVE  Inv' /\ Outcome(app, app')
<1> DEFINE a == [app EXCEPT !.inflight = {}]
           b == FinishClosing(a, NoOp)
           f(w) == InitialFails(b, app.sock.retries, "plain", w)
<1>1. app \in App /\ Sound(app) /\ Awake(app)  BY DEF Inv, Sound
<1>2. /\ (\E w \in BOOLEAN : app' = f(w)) \/ app' = b
      /\ Step \/ FaultStep
  BY DEF RequestTimeout, InitialisationFails, Do
<1>3. /\ a \in App /\ SameProps(app, a) /\ a.status = app.status /\ a.due = app.due
      /\ a.inflight = {}
  BY <1>1 DEF App, SameProps
<1>4. a.active /\ a.status = "disconnected" => a.due \/ a.recovering
  BY <1>1, <1>3 DEF SameProps, Awake
<1> HIDE DEF a
<1>5. Resolved(a, NoOp)  BY <1>3 DEF Resolved
<1>6. b \in App /\ SameProps(a, b) /\ Fresh(b)
  BY <1>3, <1>4, <1>5, FinishClosingEnds
<1> HIDE DEF b
<1>7. \A w \in BOOLEAN : f(w) \in App /\ SameProps(b, f(w)) /\ Fresh(f(w))
  BY <1>6, FailOfFresh
<1> HIDE DEF f
<1>8. /\ b.recoveries = app.recoveries
      /\ \A w \in BOOLEAN : f(w).recoveries = app.recoveries
  BY <1>3, <1>6, <1>7 DEF SameProps
<1>9. ASSUME NEW w \in BOOLEAN, app' = f(w)
      PROVE  Inv' /\ Outcome(app, app')
  BY <1>2, <1>7, <1>8, <1>9, FreshIsSound, FreshIsQuiet, Changed DEF Outcome
<1>10. CASE app' = b
  BY <1>2, <1>6, <1>8, <1>10, FreshIsSound, FreshIsQuiet, Changed DEF Outcome
<1> QED BY <1>2, <1>9, <1>10

\* No message for 120 seconds: the app must have been suspended.
LEMMA UnsupervisedBackgroundStep ==
  Inv /\ UnsupervisedBackground => Inv' /\ Outcome(app, app')
<1> SUFFICES ASSUME Inv, UnsupervisedBackground PROVE Inv' /\ Outcome(app, app')
  OBVIOUS
<1> DEFINE no == FALSE
           a == [app EXCEPT !.active = no, !.status = "disconnected"]
           b == Close(a)
<1>1. app \in App /\ Talk(app) /\ no \in BOOLEAN /\ ~no  BY DEF Inv, Sound
<1>2. app' = b /\ FaultStep  BY DEF UnsupervisedBackground, Do
<1> HIDE DEF no
<1>3. /\ a \in App /\ SameTalk(app, a) /\ ~a.active /\ a.status = "disconnected"
      /\ a.recoveries = app.recoveries
  BY <1>1 DEF App, SameTalk, Status
<1> HIDE DEF a
<1>4. Talk(a)  BY <1>1, <1>3, TalkIsOfSocket
<1>5. /\ b \in App /\ SameProps(a, b) /\ b.status = a.status
      /\ b.inflight = a.inflight
      /\ b.sock.ready = IF a.sock.ready = "none" THEN "none" ELSE "closing"
      /\ b.sock.synced = a.sock.synced /\ b.sock.wire = a.sock.wire
  BY <1>3, CloseFields
<1>6. Talk(b)  BY <1>3, <1>4, CloseKeepsTalk
<1> HIDE DEF b
<1>7. StatusFits(b) /\ Awake(b)
  BY <1>3, <1>5 DEF StatusFits, Awake, SameProps
<1>8. Sound(b) /\ b.recoveries = app.recoveries
  BY <1>3, <1>5, <1>6, <1>7 DEF Sound, SameProps
<1>9. SamePhase(app, b) /\ b.inflight = app.inflight
      /\ (AuthOnWire(b) => AuthOnWire(app))
  BY <1>3, <1>5 DEF SamePhase, SameTalk, AuthOnWire
<1> QED BY <1>2, <1>5, <1>8, <1>9, Changed DEF Outcome

-----------------------------------------------------------------------------
(* The theorems.                                                           *)

LEMMA InvInit == Init => Inv
<1> SUFFICES ASSUME Init PROVE Inv
  OBVIOUS
<1> DEFINE no == FALSE
           a == [active |-> no, status |-> "disconnected", sock |-> NoSocket,
                 inflight |-> {}, reopen |-> no, recovering |-> no,
                 recoveries |-> 0, throttled |-> no, due |-> no]
<1>1. app = a /\ user = 0 /\ faults = 0 /\ no \in BOOLEAN /\ ~no
  BY DEF Init
<1> HIDE DEF no
<1>2. NoSocket \in Socket  BY BlankType
<1>3. /\ a \in App /\ a.sock = NoSocket /\ a.status = "disconnected"
      /\ a.inflight = {} /\ a.active = no /\ a.recoveries = 0
  BY <1>1, <1>2 DEF App, Status
<1> HIDE DEF a
<1>4. Fresh(a)  BY <1>1, <1>3 DEF Fresh
<1>5. Sound(app) /\ app \in App /\ ~AuthOnWire(app) /\ app.recoveries = 0
  BY <1>1, <1>3, <1>4, FreshIsSound, FreshIsQuiet
<1>6. RecoveriesCounted  BY <1>1, <1>5, BoundsAssumption DEF RecoveriesCounted
<1> QED BY <1>5, <1>6 DEF Inv

\* every step keeps the invariant, and an observer of the connection sees one
\* of the outcomes
LEMMA InvStep ==
  Inv /\ [Next]_vars => Inv' /\ (Outcome(app, app') \/ app' = app)
<1> SUFFICES ASSUME Inv, [Next]_vars
             PROVE  Inv' /\ (Outcome(app, app') \/ app' = app)
  OBVIOUS
<1>1. CASE BecomeActive  BY <1>1, BecomeActiveStep
<1>2. ASSUME NEW t \in BOOLEAN, BecomeInactive(t)
      PROVE  Inv' /\ Outcome(app, app')
  BY <1>2, BecomeInactiveStep
<1>3. CASE ChangeFunction  BY <1>3, ChangeFunctionStep
<1>4. ASSUME NEW w \in BOOLEAN, OnOpen(w) PROVE Inv' /\ Outcome(app, app')
  BY <1>4, OnOpenStep
<1>5. CASE SendRequest \/ SendPing  BY <1>5, RequestStep
<1>6. CASE ThrottleEnds  BY <1>6, ThrottleEndsStep
<1>7. CASE \/ ServerStep
           \/ \E op \in Initial, e \in Errors, v \in BOOLEAN : FailInitial(op, e, v)
           \/ \E op \in Initial : Deauthorize(op)
  BY <1>7, ServerSteps
<1>8. CASE Die  BY <1>8, DieStep
<1>9. CASE Receive
  BY <1>9, ReceiveAnswerStep, ReceiveStateSyncStep, ReceiveErrorStep,
     ReceiveAuthErrorStep DEF Receive
<1>10. ASSUME NEW s \in BOOLEAN, NEW t \in BOOLEAN, RecoveryEnds(s, t)
       PROVE  Inv' /\ Outcome(app, app')
  BY <1>10, RecoveryEndsStep
<1>11. CASE CloseEvent \/ ConnectionLost  BY <1>11, OnCloseStep
<1>12. CASE ConnectTimeout  BY <1>12, ConnectTimeoutStep
<1>13. ASSUME NEW r \in Requests, RequestTimeout(r)
       PROVE  Inv' /\ Outcome(app, app')
  BY <1>13, RequestTimeoutStep
<1>14. CASE UnsupervisedBackground  BY <1>14, UnsupervisedBackgroundStep
<1>15. CASE UNCHANGED vars
  <2>1. app' = app /\ user' = user /\ faults' = faults  BY <1>15 DEF vars
  <2> QED BY <2>1 DEF Inv, RecoveriesCounted
<1> QED
  BY <1>1, <1>2, <1>3, <1>4, <1>5, <1>6, <1>7, <1>8, <1>9, <1>10, <1>11, <1>12,
     <1>13, <1>14, <1>15 DEF Next

\* the invariant of the specification
LEMMA Invariance == Spec => []Inv
<1>1. Init => Inv  BY InvInit
<1>2. Inv /\ [Next]_vars => Inv'  BY InvStep
<1> QED BY <1>1, <1>2, PTL DEF Spec

\* The component, its socket and the keyserver's end of it keep their types;
\* there are no more recoveries under way than faults.
THEOREM TypeCorrect == Spec => []TypeOK
<1>1. Inv => TypeOK
  <2> SUFFICES ASSUME Inv PROVE TypeOK
    OBVIOUS
  <2>1. app.recoveries \in 0..MaxFaults
    BY BoundsAssumption DEF Inv, RecoveriesCounted, App
  <2> QED BY <2>1 DEF Inv, RecoveriesCounted, TypeOK, App, Status
<1> QED BY <1>1, Invariance, PTL

\* The component never waits for something that will not come: an active app
\* without a connection has one coming, a status that speaks of a socket has
\* that socket, and a socket being closed waits for an answer or its close
\* event (finishClosingSocket, onClose, componentDidUpdate, openSocket).
THEOREM NothingIsForgotten == Spec => []NothingForgotten
<1>1. Inv => NothingForgotten
  <2> SUFFICES ASSUME Inv PROVE NothingForgotten
    OBVIOUS
  <2>1. StatusFits(app) /\ Awake(app)  BY DEF Inv, Sound
  <2>2. DisconnectedReopens  BY <2>1 DEF DisconnectedReopens, Awake
  <2>3. StatusHasSocket  BY <2>1 DEF StatusHasSocket, StatusFits
  <2>4. ClosingEnds
    BY <2>1 DEF ClosingEnds, Closing, StatusFits, Awake, ClosesOnWire, CloseOnWire
  <2> QED BY <2>2, <2>3, <2>4 DEF NothingForgotten
<1> QED BY <1>1, Invariance, PTL

-----------------------------------------------------------------------------
(* The refinement: what the component does is what Connection promises.    *)

Phase(a) == CASE a.sock.ready = "none" -> "none"
              [] a.sock.ready # "none" /\ a.sock.synced -> "initialised"
              [] OTHER -> "opening"

Pending(a) == {r.op : r \in a.inflight}

\* a step of Connection, between two states of the component
Promised(a, b) ==
  \/ Phase(b) \in {"opening", "none"} /\ Pending(b) = {}
  \/ Phase(b) = Phase(a) /\ Pending(b) = Pending(a)
  \/ /\ Phase(b) = Phase(a) /\ Phase(a) # "none"
     /\ \E op \in Ops \ Initial : Pending(b) = Pending(a) \cup {op}
  \/ /\ Phase(b) = Phase(a) /\ Phase(a) = "opening"
     /\ Pending(a) = {} /\ Pending(b) = {"init"}
  \/ Phase(b) = Phase(a) /\ \E op \in Pending(a) : Pending(b) = Pending(a) \ {op}
  \/ /\ Phase(a) = "opening" /\ "init" \in Pending(a)
     /\ Phase(b) = "initialised" /\ Pending(b) = Pending(a) \ {"init"}
  \/ /\ Phase(a) = "opening" /\ Phase(b) = Phase(a) /\ "init" \in Pending(a)
     /\ Pending(b) = (Pending(a) \ {"init"}) \cup {"retry"}

\* The phase of the connection, from the socket.
LEMMA PhaseIs ==
  ASSUME NEW a, a.sock.synced \in BOOLEAN
  PROVE  /\ a.sock.ready = "none" => Phase(a) = "none"
         /\ a.sock.ready # "none" /\ a.sock.synced => Phase(a) = "initialised"
         /\ a.sock.ready # "none" /\ ~a.sock.synced => Phase(a) = "opening"
BY DEF Phase

\* an answer settles its request, or one of the two answers to INITIAL
LEMMA SettlesOne ==
  ASSUME NEW a, NEW b, NEW m,
         b.inflight = {r \in a.inflight : ~Matches(m, r)}
  PROVE  \/ Pending(b) = Pending(a)
         \/ m.op \in Pending(a) /\ Pending(b) = Pending(a) \ {m.op}
<1>1. \A r \in a.inflight : r \notin b.inflight => r.op = m.op
  BY DEF Matches
<1>2. b.inflight \subseteq a.inflight  OBVIOUS
<1> QED BY <1>1, <1>2 DEF Pending

\* Every step is one that Connection promises.
LEMMA OutcomeIsPromised ==
  ASSUME NEW a \in App, NEW b \in App, Outcome(a, b)
  PROVE  Promised(a, b)
<1>1. a.sock.synced \in BOOLEAN /\ b.sock.synced \in BOOLEAN
  BY DEF App, Socket
<1>2. CASE Fresh(b)
  <2>1. Pending(b) = {}  BY <1>2 DEF Fresh, Pending
  <2>2. ~b.sock.synced  BY <1>2, BlankFields DEF Fresh
  <2>3. Phase(b) \in {"opening", "none"}  BY <1>1, <2>2, PhaseIs
  <2> QED BY <2>1, <2>3 DEF Promised
<1>3. SamePhase(a, b) => Phase(b) = Phase(a)
  BY <1>1, PhaseIs DEF SamePhase
<1>4. CASE SamePhase(a, b) /\ b.inflight = a.inflight
  BY <1>3, <1>4 DEF Promised, Pending
<1>5. CASE Sends(a, b)
  <2>1. PICK op \in Ops \ Initial, e \in {"pong", "api"} :
          b.inflight = a.inflight \cup {[op |-> op, expects |-> e]}
    BY <1>5 DEF Sends
  <2>2. Pending(b) = Pending(a) \cup {op}
    <3> DEFINE q == [op |-> op, expects |-> e]
    <3>1. q.op = op /\ b.inflight = a.inflight \cup {q}  BY <2>1
    <3> HIDE DEF q
    <3> QED BY <3>1 DEF Pending
  <2>3. Phase(b) = Phase(a) /\ Phase(a) # "none"
    BY <1>1, <1>3, <1>5, PhaseIs DEF Sends
  <2> QED BY <2>2, <2>3 DEF Promised
<1>6. CASE Starts(a, b)
  <2>1. Pending(a) = {} /\ Pending(b) = {"init"}  BY <1>6 DEF Starts, Pending
  <2>2. Phase(b) = Phase(a) /\ Phase(a) = "opening"
    BY <1>1, <1>3, <1>6, PhaseIs DEF Starts
  <2> QED BY <2>1, <2>2 DEF Promised
<1>7. CASE Settles(a, b)
  <2>1. PICK m \in Messages : b.inflight = {r \in a.inflight : ~Matches(m, r)}
    BY <1>7 DEF Settles
  <2>2. \/ Pending(b) = Pending(a)
        \/ m.op \in Pending(a) /\ Pending(b) = Pending(a) \ {m.op}
    BY <2>1, SettlesOne, Zenon
  <2>3. Phase(b) = Phase(a)  BY <1>3, <1>7 DEF Settles
  <2> QED BY <2>2, <2>3 DEF Promised
<1>8. ASSUME InitRequest \in a.inflight PROVE "init" \in Pending(a)
  <2>1. InitRequest.op = "init"  BY DEF InitRequest
  <2> QED BY <1>8, <2>1 DEF Pending
<1>9. CASE Initialises(a, b)
  <2>1. "init" \in Pending(a) /\ Pending(b) = Pending(a) \ {"init"}
    BY <1>8, <1>9 DEF Initialises, Pending
  <2>2. Phase(a) = "opening" /\ Phase(b) = "initialised"
    <3>1. /\ a.sock.ready # "none" /\ b.sock.ready # "none"
          /\ ~a.sock.synced /\ b.sock.synced
      BY <1>9 DEF Initialises
    <3>2. Phase(a) = "opening"  BY <3>1 DEF Phase
    <3>3. Phase(b) = "initialised"  BY <3>1 DEF Phase
    <3> QED BY <3>2, <3>3
  <2> QED BY <2>1, <2>2 DEF Promised
<1>10. CASE Retries(a, b)
  <2>1. "init" \in Pending(a)  BY <1>8, <1>10 DEF Retries
  <2>2. Pending(b) = (Pending(a) \ {"init"}) \cup {"retry"}
    <3>1. PICK w \in BOOLEAN :
            b.inflight = {r \in a.inflight : r.op # "init"} \cup RetryRequests(w)
      BY <1>10 DEF Retries
    <3>2. /\ \A q \in RetryRequests(w) : q.op = "retry"
          /\ RetryRequests(w) # {}
      <4> DEFINE q == [op |-> "retry", expects |-> "sync"]
      <4>1. "sync" \in InitialAnswers(w)  BY DEF InitialAnswers
      <4>2. q \in RetryRequests(w)  BY <4>1 DEF RetryRequests
      <4>3. \A x \in RetryRequests(w) : x.op = "retry"  BY DEF RetryRequests
      <4> HIDE DEF q
      <4> QED BY <4>2, <4>3
    <3> QED BY <3>1, <3>2 DEF Pending
  <2>3. Phase(a) = "opening" /\ Phase(b) = Phase(a)
    BY <1>1, <1>3, <1>10, PhaseIs DEF Retries
  <2> QED BY <2>1, <2>2, <2>3 DEF Promised
<1> QED BY <1>2, <1>4, <1>5, <1>6, <1>7, <1>9, <1>10 DEF Outcome

\* The component implements Connection: at most one connection at a time,
\* which is initialised at most once, by the answer to INITIAL or to its one
\* retry; requests are made on an existing connection, and each is settled by
\* an answer or no later than its connection ends (openSocket, onClose,
\* initializeSocket, InflightRequests).
THEOREM IsAConnection == Spec => ImplementsConnection
<1>1. Init => ConnectionPromise!Init
  <2> SUFFICES ASSUME Init PROVE ConnectionPromise!Init
    OBVIOUS
  <2>1. app.sock.ready = "none" /\ app.inflight = {}
    BY BlankReady DEF Init
  <2> QED BY <2>1 DEF ConnectionPromise!Init
<1>2. Inv /\ Inv' /\ [Next]_vars => [ConnectionPromise!Next]_(ConnectionPromise!vars)
  <2> SUFFICES ASSUME Inv, [Next]_vars
               PROVE  ConnectionPromise!Next \/ UNCHANGED ConnectionPromise!vars
    OBVIOUS
  <2> DEFINE p == Phase(app)
             q == Phase(app')
             d == Pending(app)
             f == Pending(app')
  <2>1. Promised(app, app') \/ (q = p /\ f = d)
    <3>1. app \in App /\ app' \in App /\ (Outcome(app, app') \/ app' = app)
      BY InvStep DEF Inv
    <3> QED BY <3>1, OutcomeIsPromised
  <2> QED
    BY <2>1
    DEF Promised, Phase, Pending, Initial, ConnectionPromise!Next, ConnectionPromise!vars,
        ConnectionPromise!Open, ConnectionPromise!End, ConnectionPromise!Start,
        ConnectionPromise!Request, ConnectionPromise!Settle,
        ConnectionPromise!Initialise, ConnectionPromise!Retry
<1> QED
  BY <1>1, <1>2, Invariance, PTL
  DEF Spec, ImplementsConnection, ConnectionPromise!Spec
=============================================================================
