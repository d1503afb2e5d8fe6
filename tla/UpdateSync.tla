----------------------------- MODULE UpdateSync -----------------------------
(***************************************************************************)
(* Delivery of updates to one native session.                              *)
(*                                                                         *)
(* createUpdates writes a row per change and publishes it on Redis.  A     *)
(* socket opened by the client is initialised with the client's checkpoint *)
(* (updatesCurrentAsOf), answered with a full or an incremental state      *)
(* sync, and only then subscribed to Redis.  The client acknowledges the   *)
(* checkpoint it has reached; the acknowledged value lives in the sessions *)
(* table and lets the cron job expire old rows.                            *)
(*                                                                         *)
(* Every update is about one entity (a thread, an entry, ...) and carries  *)
(* that entity's current content, so an entity is a key, its content is    *)
(* the number of the last call that changed it, and an update delivers the *)
(* content read when it was hydrated.  Times are the milliseconds of       *)
(* Date.now(): two calls may share one.                                    *)
(***************************************************************************)
EXTENDS Integers, FiniteSetsExt, Sequences

CONSTANTS
  Keys,           \* entities updates are about
  MaxCalls,       \* bound: calls of createUpdates
  MaxFaults,      \* bound: closed sockets, killed apps, lost HTTP replies
  Kinds,          \* kinds of update created in this instance
  StaleRestarts   \* may a restarted app come back with an older saved state?

ASSUME KeysAssumption   == Keys # {}
ASSUME BoundsAssumption == MaxCalls \in Nat /\ MaxFaults \in Nat
ASSUME KindsAssumption  == Kinds \subseteq {"user", "own", "target", "self"}
ASSUME StaleAssumption  == StaleRestarts \in BOOLEAN

VARIABLES
  calls,       \* the createUpdates calls made so far, and what each has left
  made,        \* how many of them
  truth,       \* content of every entity in the database
  rows,        \* the updates table: the calls whose row is in it
  lastUpdate,  \* sessions.last_update
  commits,     \* writes of last_update still to run, counted per value
  sock,        \* the keyserver's Socket object and its INITIAL handler
  sub,         \* its Redis subscription
  inbox,       \* redisPromiseResolver: updates published to the subscriber
  wire,        \* messages from the keyserver to the client
  client,      \* redux store and connection status of the client
  saved,       \* the store as redux-persist last wrote it
  reached,     \* history: highest checkpoint the client has had
  ignored,     \* history: updates that arrived at a closing socket
  faults       \* how many faults have happened

dbVars      == <<calls, made, truth, rows>>
sessionVars == <<lastUpdate, commits>>
socketVars  == <<sock, sub, inbox, wire>>
clientVars  == <<client, saved, reached, ignored, faults>>
vars        == <<dbVars, sessionVars, socketVars, clientVars>>

-----------------------------------------------------------------------------
Calls    == 1..MaxCalls
Times    == 0..MaxCalls
Versions == 0..MaxCalls        \* 0: the content everyone starts with
News     == UNION {[D -> Versions] : D \in SUBSET Keys}

Work == {"insert", "publish", "delete", "hydrate", "reply"}
Call == [key : Keys, kind : {"user", "own", "target", "self"}, time : Times,
         todo : SUBSET Work, val : Versions,
         took : SUBSET Calls]  \* history: the rows a "self" call deleted

Message == [type : {"full", "incr", "updates"}, news : News, asOf : Times,
            ids : SUBSET Calls]
Store   == [view : [Keys -> Versions], asOf : Times]

Larger(a, b) == IF a >= b THEN a ELSE b

\* keyed content laid over what a store holds: the reducers' merge
Merge(view, news) ==
  [k \in Keys |-> IF k \in DOMAIN news THEN news[k] ELSE view[k]]

Content(ks) == [k \in ks |-> truth[k]]

\* Date.now() when the last call was made
Clock == IF made = 0 THEN 0 ELSE calls[made].time

NoSock == [phase |-> "none", asOf |-> 0, saw |-> 0, found |-> {},
           full |-> FALSE, committed |-> FALSE, news |-> [k \in {} |-> 0]]

Init ==
  /\ calls = [w \in Calls |-> [key |-> CHOOSE k \in Keys : TRUE,
                               kind |-> "user", time |-> 0, todo |-> {},
                               val |-> 0, took |-> {}]]
  /\ made = 0
  /\ truth = [k \in Keys |-> 0]
  /\ rows = {}
  /\ lastUpdate = 0
  /\ commits = [t \in Times |-> 0]
  /\ sock = NoSock
  /\ sub = "off"
  /\ inbox = << >>
  /\ wire = << >>
  /\ client = [view |-> [k \in Keys |-> 0], asOf |-> 0, status |-> "disconnected"]
  /\ saved = [view |-> [k \in Keys |-> 0], asOf |-> 0]
  /\ reached = 0
  /\ ignored = {}
  /\ faults = 0

-----------------------------------------------------------------------------
(* createUpdates.  Its insert, its Redis publication and its deletion of   *)
(* superseded rows are started together and awaited with promiseAll, so    *)
(* they happen in any order.  A call made over HTTP by this very session   *)
(* is kept from the session, and delivers its update in the HTTP reply     *)
(* instead: its row and publication carry the session as the one to pass   *)
(* over ("own"), or, if the update is targeted at the caller's session, it *)
(* has neither ("self").                                                   *)

CreateUpdates(k, kind, t) ==
  LET w == made + 1
      todo == CASE kind = "own"  -> Work
                [] kind = "self" -> {"delete", "hydrate", "reply"}
                [] OTHER         -> {"insert", "publish", "delete"}
  IN /\ made < MaxCalls
     /\ t \in {Clock, Clock + 1} \ {0}
     /\ calls' = [calls EXCEPT ![w] =
          [key |-> k, kind |-> kind, time |-> t, todo |-> todo, val |-> 0,
           took |-> {}]]
     /\ made' = w
     /\ truth' = [truth EXCEPT ![k] = w]
     /\ UNCHANGED <<rows, sessionVars, socketVars, clientVars>>

Did(w, step) == [calls EXCEPT ![w].todo = @ \ {step}]

InsertRow(w) ==
  /\ "insert" \in calls[w].todo
  /\ calls' = Did(w, "insert")
  /\ rows' = rows \cup {w}
  /\ UNCHANGED <<made, truth, sessionVars, socketVars, clientVars>>

\* redisPublish, and processRedisMessage at the subscriber: the hydration of
\* the update starts at once, its result (val) comes later.
Publish(w) ==
  /\ "publish" \in calls[w].todo
  /\ calls' = Did(w, "publish")
  /\ inbox' = IF sub = "on" /\ calls[w].kind # "own"
              THEN Append(inbox, [call |-> w, val |-> 0])
              ELSE inbox
  /\ UNCHANGED <<made, truth, rows, sessionVars, sock, sub, wire, clientVars>>

\* rows the target and the key of call w's delete condition cover
Covers(w, x) ==
  /\ calls[x].key = calls[w].key
  /\ calls[w].kind \in {"target", "self"} => calls[x].kind = "target"

\* mutant: <= for <
Superseded_Inclusive(w, timed) ==
  {x \in rows : Covers(w, x) /\ (timed => calls[x].time <= calls[w].time)}

\* The condition has a time unless the call inserts no row at all.
Superseded(w, timed) ==
  {x \in rows : Covers(w, x) /\ (timed => calls[x].time < calls[w].time)}

\* a "self" call has a time if other sessions of its user get the update too
DeleteSuperseded(w, timed) ==
  /\ "delete" \in calls[w].todo
  /\ calls[w].kind = "self" \/ timed
  /\ rows' = rows \ Superseded(w, timed)
  /\ calls' = [calls EXCEPT ![w].todo = @ \ {"delete"},
                            ![w].took = IF calls[w].kind = "self"
                                        THEN @ \cup Superseded(w, timed)
                                        ELSE @]
  /\ UNCHANGED <<made, truth, sessionVars, socketVars, clientVars>>

HydrateReply(w) ==
  /\ "hydrate" \in calls[w].todo
  /\ calls' = [calls EXCEPT ![w].todo = @ \ {"hydrate"},
                            ![w].val = truth[calls[w].key]]
  /\ UNCHANGED <<made, truth, rows, sessionVars, socketVars, clientVars>>

\* the HTTP reply reaches the client, which applies viewerUpdates; the
\* checkpoint does not move
ReceiveReply(w) ==
  /\ calls[w].todo = {"reply"}
  /\ calls' = Did(w, "reply")
  /\ client' = [client EXCEPT !.view[calls[w].key] = calls[w].val]
  /\ UNCHANGED <<made, truth, rows, sessionVars, socketVars, saved, reached, ignored, faults>>

LoseReply(w) ==
  /\ faults < MaxFaults
  /\ calls[w].todo = {"reply"}
  /\ calls' = Did(w, "reply")
  /\ faults' = faults + 1
  /\ UNCHANGED <<made, truth, rows, sessionVars, socketVars, client, saved, reached, ignored>>

-----------------------------------------------------------------------------
(* The sessions table and the expiry of updates.                           *)

TargetedUpTo(t) == {x \in rows : calls[x].kind = "target" /\ calls[x].time <= t}

\* handleAckUpdatesClientSocketMessage, and the write left behind by an
\* INITIAL handler whose socket closed: last_update takes the value it is
\* given, whatever it was.  Handlers run concurrently, so any may be next.
CommitSessionUpdate(t) ==
  /\ commits[t] > 0
  /\ commits' = [commits EXCEPT ![t] = @ - 1]
  /\ lastUpdate' = t
  /\ rows' = rows \ TargetedUpTo(t)
  /\ UNCHANGED <<calls, made, truth, socketVars, clientVars>>

\* The cron job: the least last_update of the user's sessions is at most
\* this session's; the others are not modelled.
DeleteExpiredUpdates(oldest) ==
  /\ oldest <= lastUpdate
  /\ rows' = {x \in rows : calls[x].time >= oldest}
  /\ UNCHANGED <<calls, made, truth, sessionVars, socketVars, clientVars>>

-----------------------------------------------------------------------------
(* Opening a socket.                                                       *)

\* sendInitialMessage; onMessage has read the session row with the viewer
OpenSocket ==
  /\ client.status = "disconnected"
  /\ client' = [client EXCEPT !.status = "connecting"]
  /\ sock' = [NoSock EXCEPT !.phase = "deciding", !.asOf = client.asOf,
                            !.saw = lastUpdate]
  /\ UNCHANGED <<dbVars, sessionVars, sub, inbox, wire, saved, reached, ignored, faults>>

\* initializeSession, the client behind the session: setNewSession writes
\* the session row anew (a native session keeps its id, the cookie's)
InvalidateSession ==
  /\ sock.phase = "deciding"
  /\ sock.asOf < sock.saw
  /\ lastUpdate' = sock.asOf
  /\ sock' = [sock EXCEPT !.phase = "full", !.full = TRUE,
                          !.committed = TRUE]
  /\ UNCHANGED <<dbVars, commits, sub, inbox, wire, clientVars>>

ContinueSession ==
  /\ sock.phase = "deciding"
  /\ sock.asOf >= sock.saw
  /\ sock' = [sock EXCEPT !.phase = "fetch"]
  /\ UNCHANGED <<dbVars, sessionVars, sub, inbox, wire, clientVars>>

FetchEverything ==
  /\ sock.phase = "full"
  /\ sock' = [sock EXCEPT !.phase = "reply", !.news = Content(Keys)]
  /\ UNCHANGED <<dbVars, sessionVars, sub, inbox, wire, clientVars>>

\* mutant: the row next to the checkpoint is left out
NewerThan_OffByOne(t) ==
  {x \in rows : calls[x].time > t + 1 /\ calls[x].kind # "own"}

\* rows fetchUpdateInfos selects for a session whose checkpoint is t
NewerThan(t) == {x \in rows : calls[x].time > t /\ calls[x].kind # "own"}

FetchUpdateInfos ==
  /\ sock.phase = "fetch"
  /\ sock' = [sock EXCEPT !.phase = "hydrate", !.found = NewerThan(sock.asOf)]
  /\ UNCHANGED <<dbVars, sessionVars, sub, inbox, wire, clientVars>>

HydrateFetched ==
  /\ sock.phase = "hydrate"
  /\ sock' = [sock EXCEPT !.phase = "reply",
                          !.news = Content({calls[x].key : x \in sock.found})]
  /\ UNCHANGED <<dbVars, sessionVars, sub, inbox, wire, clientVars>>

\* mutant: the checkpoint answered is past the newest update
MostRecent_Later(ids, t) ==
  IF ids = {} THEN t ELSE Max({calls[x].time : x \in ids}) + 1

\* mostRecentUpdateTimestamp
MostRecent(ids, t) ==
  IF ids = {} THEN t ELSE Max({calls[x].time : x \in ids})

\* mutant: the session row gets the checkpoint the client is about to have
InitialCheckpoint_New == MostRecent(sock.found, sock.asOf)

\* sessionUpdate.lastUpdate: the checkpoint the client came with
InitialCheckpoint == sock.asOf

\* the commit that runs beside the fetch
CommitInitial ==
  /\ sock.phase \in {"fetch", "hydrate", "reply"}
  /\ ~sock.committed
  /\ lastUpdate' = InitialCheckpoint
  /\ rows' = rows \ TargetedUpTo(sock.asOf)
  /\ sock' = [sock EXCEPT !.committed = TRUE]
  /\ UNCHANGED <<calls, made, truth, commits, sub, inbox, wire, clientVars>>

StateSync ==
  IF sock.full
  THEN [type |-> "full", news |-> sock.news, asOf |-> sock.asOf, ids |-> {}]
  ELSE [type |-> "incr", news |-> sock.news, ids |-> sock.found,
        asOf |-> MostRecent(sock.found, sock.asOf)]

\* the RedisSubscriber is made only now, just before the answer is sent
SendStateSync ==
  /\ sock.phase = "reply"
  /\ sock.committed
  /\ sock' = [sock EXCEPT !.phase = "live"]
  /\ sub' = "starting"
  /\ wire' = Append(wire, StateSync)
  /\ UNCHANGED <<dbVars, sessionVars, inbox, clientVars>>

SubscriptionStarts ==
  /\ sub = "starting"
  /\ sub' = "on"
  /\ UNCHANGED <<dbVars, sessionVars, sock, inbox, wire, clientVars>>

-----------------------------------------------------------------------------
(* Live updates: hydrated concurrently, sent in the order of arrival.      *)

HydratePublished(i) ==
  /\ i \in DOMAIN inbox
  /\ inbox[i].val = 0
  /\ inbox' = [inbox EXCEPT ![i].val = truth[calls[inbox[i].call].key]]
  /\ UNCHANGED <<dbVars, sessionVars, sock, sub, wire, clientVars>>

\* mutant: the time of sending
UpdatesAsOf_Now(w) == Clock

\* currentAsOf of an UPDATES message
UpdatesAsOf(w) == calls[w].time

SendUpdates ==
  /\ inbox # << >>
  /\ Head(inbox).val # 0
  /\ LET w == Head(inbox).call
         k == calls[w].key
     IN wire' = Append(wire,
          [type |-> "updates", asOf |-> UpdatesAsOf(w), ids |-> {w},
           news |-> [x \in {k} |-> Head(inbox).val]])
  /\ inbox' = Tail(inbox)
  /\ UNCHANGED <<dbVars, sessionVars, sock, sub, clientVars>>

-----------------------------------------------------------------------------
(* The client.                                                             *)

\* mutant: UPDATES set the checkpoint too
NextAsOf_NoMax(m) == m.asOf

\* A state sync sets the checkpoint, an UPDATES message only advances it.  A
\* log-in sets it too, but starts another session: Init is the state after.
NextAsOf(m) ==
  IF m.type = "updates" THEN Larger(m.asOf, client.asOf) ELSE m.asOf

ReceiveStateSync ==
  /\ wire # << >>
  /\ Head(wire).type \in {"full", "incr"}
  /\ LET m == Head(wire)
     IN /\ client' = [view |-> Merge(client.view, m.news),
                      asOf |-> NextAsOf(m), status |-> "connected"]
        /\ reached' = Larger(reached, NextAsOf(m))
        /\ commits' = [commits EXCEPT ![m.asOf] = @ + 1]
  /\ wire' = Tail(wire)
  /\ UNCHANGED <<dbVars, lastUpdate, sock, sub, inbox, saved, ignored, faults>>

\* UpdateHandler: dispatch, then ACK_UPDATES if connected
ReceiveUpdates ==
  /\ wire # << >>
  /\ Head(wire).type = "updates"
  /\ LET m == Head(wire)
     IN /\ client' = [client EXCEPT !.view = Merge(@, m.news),
                                    !.asOf = NextAsOf(m)]
        /\ reached' = Larger(reached, NextAsOf(m))
        /\ commits' = IF client.status = "connected"
                      THEN [commits EXCEPT ![m.asOf] = @ + 1]
                      ELSE commits
  /\ wire' = Tail(wire)
  /\ UNCHANGED <<dbVars, lastUpdate, sock, sub, inbox, saved, ignored, faults>>

\* redux-persist writes the store
Persist ==
  /\ StaleRestarts
  /\ saved' = [view |-> client.view, asOf |-> client.asOf]
  /\ UNCHANGED <<dbVars, sessionVars, socketVars, client, reached, ignored, faults>>

------------------------------------------------------------------------------
(* The connection ends.  The keyserver goes on with what it was doing: an  *)
(* INITIAL handler writes the client's checkpoint whichever way it decides *)
(* (so its write joins commits), and the ACKs it has received are handled. *)
(* An ACK that was lost is one whose write is never scheduled.             *)

EndConnection ==
  /\ faults < MaxFaults
  /\ faults' = faults + 1
  /\ sock' = NoSock
  /\ sub' = "off"
  /\ inbox' = << >>
  /\ wire' = << >>
  /\ commits' = IF sock.phase # "none" /\ ~sock.committed
                THEN [commits EXCEPT ![sock.asOf] = @ + 1]
                ELSE commits

UpdatesOnWire ==
  UNION {wire[i].ids : i \in {j \in DOMAIN wire : wire[j].type = "updates"}}

\* a close on either side: receiveMessage ignores what still arrives
CloseSocket ==
  /\ client.status # "disconnected"
  /\ EndConnection
  /\ client' = [client EXCEPT !.status = "disconnected"]
  /\ ignored' = ignored \cup UpdatesOnWire
  /\ UNCHANGED <<dbVars, lastUpdate, saved, reached>>

\* the app is killed and started again; its HTTP requests die with it
Restart ==
  /\ EndConnection
  /\ client' = [view |-> IF StaleRestarts THEN saved.view ELSE client.view,
                asOf |-> IF StaleRestarts THEN saved.asOf ELSE client.asOf,
                status |-> "disconnected"]
  /\ calls' = [w \in Calls |-> [calls[w] EXCEPT !.todo = @ \ {"reply"}]]
  /\ UNCHANGED <<made, truth, rows, lastUpdate, saved, reached, ignored>>

-----------------------------------------------------------------------------
CallStep(w) ==
  \/ InsertRow(w) \/ Publish(w)
  \/ \E timed \in BOOLEAN : DeleteSuperseded(w, timed)
  \/ HydrateReply(w) \/ ReceiveReply(w)

HandlerStep ==
  \/ InvalidateSession \/ ContinueSession \/ FetchEverything
  \/ FetchUpdateInfos \/ HydrateFetched \/ CommitInitial \/ SendStateSync
  \/ SubscriptionStarts \/ SendUpdates
  \/ \E i \in DOMAIN inbox : HydratePublished(i)

ClientStep == OpenSocket \/ ReceiveStateSync \/ ReceiveUpdates

Next ==
  \/ \E k \in Keys, kind \in Kinds, t \in Times : CreateUpdates(k, kind, t)
  \/ \E w \in Calls : CallStep(w) \/ LoseReply(w)
  \/ \E t \in Times : CommitSessionUpdate(t) \/ DeleteExpiredUpdates(t)
  \/ HandlerStep
  \/ ClientStep
  \/ Persist
  \/ CloseSocket
  \/ Restart

Spec == Init /\ [][Next]_vars
-----------------------------------------------------------------------------
(* Properties.                                                             *)

\* Every variable has the type the rest of the module reads it with.
TypeOK ==
  /\ calls \in [Calls -> Call]
  /\ made \in Versions
  /\ truth \in [Keys -> Versions]
  /\ rows \subseteq Calls
  /\ lastUpdate \in Times
  /\ commits \in [Times -> Nat]
  /\ sock \in [phase : {"none", "deciding", "full", "fetch", "hydrate",
                        "reply", "live"},
               asOf : Times, saw : Times, found : SUBSET Calls,
               full : BOOLEAN, committed : BOOLEAN, news : News]
  /\ sub \in {"off", "starting", "on"}
  /\ inbox \in Seq([call : Calls, val : Versions])
  /\ wire \in Seq(Message)
  /\ client \in [view : [Keys -> Versions], asOf : Times,
                 status : {"disconnected", "connecting", "connected"}]
  /\ saved \in Store
  /\ reached \in Times
  /\ ignored \subseteq Calls
  /\ faults \in 0..MaxFaults

\* The keyserver never assumes a checkpoint the client has not reached:
\* neither sessions.last_update nor any write of it on its way, ACKs of
\* closed sockets and orphaned INITIAL handlers included, is ahead of the
\* highest checkpoint the client has had.  Rows expire on this assumption.
ServerNeverAhead ==
  /\ lastUpdate <= reached
  /\ \A t \in Times : commits[t] > 0 => t <= reached

\* No message lowers the client's checkpoint, although the reducer assigns
\* the checkpoint of a state sync without comparing it; only an app that
\* comes back with an older saved store has a lower one.
CheckpointNeverBackwards ==
  [][client'.asOf >= client.asOf \/ (Restart /\ client'.asOf = saved.asOf)]_vars

\* Call x stands for call w: it is w, or a later call of the same entity that
\* has deleted what it supersedes, w among it.
StandsFor(x, w) ==
  \/ x = w
  \/ /\ Covers(x, w)
     /\ calls[x].time > calls[w].time
     /\ "delete" \notin calls[x].todo

\* The row of some call that stands for w is in the table; or its own call is
\* still inserting it, the delete having been the faster; or a change of this
\* session's own to the entity deleted it, which answers with the entity.
Kept(w) ==
  \E x \in Calls :
    /\ StandsFor(x, w)
    /\ \/ x \in rows
       \/ "insert" \in calls[x].todo
       \/ \E s \in Calls : x \in calls[s].took

\* What the checkpoint is for: an update no checkpoint of the client has
\* covered can still be downloaded, its row having been neither expired by
\* the cron job nor deleted as targeted.  Only a later update of the entity
\* replaces it, and then that one's row is there or about to be.  An app that
\* comes back with an older store needs older rows as well; those are what
\* ContinuedSessionIsComplete is about.
Redownloadable ==
  \A w \in Calls : /\ w <= made
                   /\ calls[w].kind # "self"
                   /\ calls[w].time > reached
                   => Kept(w)

\* initializeSession invalidates a session whose checkpoint is ahead of the
\* client's because the rows in between may be gone; so when it continues a
\* session, all the rows the incremental state sync needs are there.  Said
\* only of sessions with no other write of last_update on its way.
ContinuedSessionIsComplete ==
  /\ sock.phase = "fetch" /\ ~sock.committed /\ sock.saw = lastUpdate
  /\ \A t \in Times : commits[t] = 0
  =>
  \A w \in Calls : /\ w <= made
                   /\ calls[w].kind # "self"
                   /\ calls[w].time > sock.asOf
                   => Kept(w)

\* receiveMessage ignores UPDATES at a closing socket because they can be
\* downloaded again: until the client has the content of an update it
\* ignored, that update stays above the client's checkpoint.
IgnoredStayAboveCheckpoint ==
  \A w \in ignored : \/ client.view[calls[w].key] >= w
                     \/ calls[w].time > client.asOf
=============================================================================
