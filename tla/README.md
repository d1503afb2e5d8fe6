# A TLA+ model of Comm

Comm is an end-to-end encrypted community chat. Every community runs a
*keyserver* (Node.js, `keyserver/`) with a MariaDB database and Redis; clients
(`native/`, `web/`, `desktop/`) keep a Redux store that mirrors the part of the
database they may see. `lib/` is the code both sides share. This directory holds
TLA+ modules that model the parts of the system where interleavings, lost
messages and restarts decide whether it is correct, configurations that
model-check them with TLC, and proofs that TLAPS checks.

- [The system](#the-system)
- [Modules](#modules)
- [Runs](#runs)
- [Fairness](#fairness)
- [Proofs](#proofs)
- [What disagrees with the code's comments](#what-disagrees-with-the-codes-comments)
- [Not modelled](#not-modelled)
- [Plan](#plan)

## The system

| Part | State | Operations | What is hard |
| --- | --- | --- | --- |
| Updates (`keyserver/src/creators/update-creator.js`, `fetchers/update-fetchers.js`, `deleters/update-deleters.js`) | `updates` table | `createUpdates` inserts, publishes and deletes superseded rows side by side; `fetchUpdateInfos` downloads by time; cron expires | order of the three steps, equal times, expiry against clients that are behind |
| Sessions (`session-creator.js`, `session-updaters.js`, `session/cookies.js`) | `sessions.last_update`, `last_validated`, `query` | created, committed by ACKs, invalidated | commits out of order, a client with an older store |
| Keyserver socket (`keyserver/src/socket/`) | viewer, state check conditions and timer, Redis subscriber, queue of live messages | INITIAL, RESPONSES, ACK_UPDATES, PING, API_REQUEST, Redis messages, close | all handlers are asynchronous and run concurrently on one socket |
| Client socket (`lib/socket/`) | connection status, inflight requests, timers | open, initialise, ping, receive, close in several ways | a close racing with answers, timeouts and messages that were on the way |
| State check (`session-utils.js`, `lib/selectors/socket-selectors.js`) | a conversation of hashes | compare, narrow down, send differences | its data is read at one time and applied at another |
| Client stores (`lib/reducers/`) | thread, message, entry and user stores, `updatesCurrentAsOf` | reducers | merge of concurrent sources of the same data |
| Activity (`updaters/activity-updaters.js`, `creators/message-creator.js`) | `focused`, `memberships.last_message`, `last_read_message` | focus and unfocus, messages | a focus change racing with a message |
| Permissions (`updaters/thread-permission-updaters.js`, `lib/permissions/`) | `threads`, `memberships` (role and blob of permissions) | joins, leaves, role changes, creation and moves of threads, recalculation down the tree, repair script | the walk reads rows it is about to change and stops where nothing changes; changesets written in parts |
| Cookies (`lib/utils/action-utils.js`, `session/cookies.js`, `native/redux/redux-setup.js`) | cookie and user in Redux, keychain, waiting calls; `cookies` table | calls, log-in, log-out, recovery of an invalidated cookie | calls that fail together, answers that come after the session has changed |
| Entries (`native/calendar/entry.react.js`, `lib/reducers/entry-reducer.js`, `updaters/entry-updaters.js`) | the component and its saves, the store; `entries`, `revisions` | create, save, delete, retry, refresh after a conflict | edits before the creation is answered, out-of-order saves, conflicts between sessions |
| Messages, relationships | their tables and stores | create, idempotent retries; requests, blocks | retry against the first attempt, requests of two users at once |
| Services, C++ core, user interface | their own | I/O | little protocol of their own |

How they interact: a change of the database ends in `createUpdates`. It
publishes on a Redis channel of the user; every keyserver `Socket` of that user
has a `RedisSubscriber`, reads the current content of what changed
(*hydration*) and sends an UPDATES message. The client applies it, moves its
checkpoint `updatesCurrentAsOf` and acknowledges; the keyserver stores the
acknowledged checkpoint in `sessions.last_update`. A client that connects sends
its checkpoint in an INITIAL message and is answered with a STATE_SYNC, either
INCREMENTAL (the updates after the checkpoint) or FULL (everything). What still
goes wrong is repaired by the state check. Two sockets of one session meet in
Redis: each subscriber announces itself and terminates the others. Everything a
client asks for over HTTP runs under the cookie Redux held when the call was
made; a refused cookie starts a recovery that the other calls wait for.
Permissions decide what `createUpdates` sends to whom, and what every handler
lets a viewer do.

The hazards this gives rise to, each with its line, are in `PROJECT.json`.

## Modules

### UpdateSync: delivery of updates to one session

One native session of one user. An *entity* (a thread, an entry, a user) is a
key; its content is the number of the last call of `createUpdates` that changed
it, so "the client has the content of call w" is `client.view[k] >= w`, and
hydration at a later time delivers a later number, as it does in the code. A
call is made at a time, the `Date.now()` of the call; the next call may be in the
same millisecond. Four kinds of call matter to a session: an update for the
user (`user`), an update the session itself caused over HTTP (`own`: excluded by
`updater` and `ignoreSession`, returned in the HTTP reply instead), an update
targeted at the session (`target`: deleted by `deleteUpdatesBeforeTimeTargetingSession`),
and one that is both (`self`: neither inserted nor published, so that its delete
condition has a time only if the call inserts a row for somebody else).

| Variable | Code |
| --- | --- |
| `calls`, `made` | the calls of `createUpdates` and which of their promises are still to be settled |
| `truth`, `rows` | what hydration reads; the `updates` table |
| `lastUpdate`, `commits` | `sessions.last_update`; the `commitSessionUpdate` calls that are on their way |
| `sock` | the keyserver's `Socket` and where its INITIAL handler is |
| `sub`, `inbox` | `RedisSubscriber`; `redisPromiseResolver` |
| `wire` | messages sent to the client |
| `client`, `saved` | the Redux store and connection status; what redux-persist has on disk |
| `reached`, `ignored` | history: highest checkpoint; updates that arrived at a closing socket |

Actions follow the code's awaits: where a handler awaits a query, another actor
may step in. `DeleteSuperseded` deletes every older row of the entity and target: the
`types` of a delete condition, which let some rows of other types survive, are
left out, so the model keeps fewer rows than the code and its clients depend
more on hydration. A log-in, which sets the checkpoint too, starts another session,
and the model begins after it. `CommitSessionUpdate` is one step for the two queries of an
ACK. An API_REQUEST over the socket is not excluded from broadcasts, so it is a
`user` call.

`Redownloadable` says what the checkpoint is for: an update above every checkpoint the
client has had is `Kept`. Its row is in the table, or that of a later call that covers
it; or the later call has deleted it and is still inserting its own; or a change the
session made itself has deleted it (`self`), whose HTTP reply has the content. The
third case is a window the code has, since it deletes and inserts side by side:
a client that downloads in it gets neither row. It is tolerated here, not ruled out.

### MCUpdateSync: environments and liveness

`Quiet` restricts when calls are made: one at a time, in distinct milliseconds,
and never in the *blind* window between the query of a state sync and the start
of the Redis subscription. The code does not enforce this. It is the answer to
the question under which conditions checkpoints alone deliver everything
(`NothingMissed`, `EventuallyInSync`); each of the conditions is needed, which is
why the state check exists. So these properties say nothing of two calls in one
millisecond, of calls that overlap, of the blind window, or (by the kinds of calls
in the run) of a session's own changes whose HTTP reply is lost; what is missed in
these ways is missed until a state check, which is `EventuallyInSync` of StateCheck.
`UpdateSyncProofs` proves the two safety properties of
this environment, for calls of other sessions and without stale restarts, which is
how the run is configured.

### StateCheck: repair of what was missed

One connected session. `recent`, `ongoing` and `timer` are the state check's
conditions and timeout of a `Socket`; every handler and every live update goes
through `SetConditions`, which is `setStateCheckConditions` together with
`handleStateCheckConditionsUpdate`. A check is a conversation: one hash for all
threads and one for each single value, then one hash per thread, then content.
`Compare` is the client's answer (`getClientResponsesSelector`), `Request` the
keyserver's next request (`checkState`). Jobs are handlers between their awaits;
database writes, delivered live or missed, happen at any time. Threads stand for
threads, entries and users, which all follow the same path.

A handler may go wrong in three ways, which end differently. When it throws
(`HandlerThrows`), `stateCheckOngoing` stays set and no check starts on that socket
again; the client may have sent its answer once more before (`AnswerSentAgain`).
When its five seconds are over (`HandlerTimesOut`), the client is told so and only the
reply is dropped: the handler goes on, and if no hash is left to compare it commits
that the session is validated and clears the flag, its state changes unsent
(`FinishLate`). With hashes left, the request for them is lost, and the flag stays.
`OneCheckRepairsAll` excepts the keys such a handler was to send, and nothing
else; the next check repairs them (`EventuallyInSync`).

### ActivityUnread: is a thread unread?

One member and one thread; the member has several sessions, messages come from
the member and from others. `last` and `lastRead` are the columns of the
membership row, and the thread is unread while `lastRead < last`.

| Variable | Code |
| --- | --- |
| `sends`, `made` | `createMessages` calls: is the row inserted, has `postMessageSend` looked at members and focus, has `updateLatestMessages` run |
| `last`, `lastRead` | `memberships.last_message`, `last_read_message` |
| `focused` | the `focused` table |
| `active`, `known` | the session's active thread; the newest message in its store when it last made a request |
| `reqs`, `asked` | handlers of `update_activity` and `set_thread_unread_status` and the queries each has left |

Every query is a step, so `createMessages` calls and handlers interleave freely,
also handlers of one session: the keyserver does not queue them. `Look` is the
one query of `postMessageSend` and what `determineLatestMessagesPerThread` makes
of it; `HasDevice` is its test for device tokens. `Decide` is the code between
two awaits of `activityUpdater`. A row of `focused` may go at any time
(`LoseFocusedRow`): it expires, or a closing socket deletes it. The INSERT and the DELETE of
`updateFocusedRows` are one step. Left out: several
threads in one request, messages about subthreads the member may not know of,
permission checks, and the updates and notifications that follow.

### SocketClient and Connection: the client's socket

`SocketClient` is the component `Socket` (`lib/socket/socket.react.js`) with its
`InflightRequests`, and as much of the keyserver's end as it can see. One action
is one JavaScript turn: a WebSocket event, a timer or a change of props, together
with everything it calls, the renders of its dispatches and the continuations of
the promises it settles. `app` is a record, and the methods of the component are
functions of it (`OpenSocket`, `CloseSocket`, `FinishClosing`, `ForceClose`,
`Reconnect`), so a handler is a composition of calls as it is in the code.

| Field of `app` | Code |
| --- | --- |
| `active` | the prop: foreground and logged in |
| `status` | `connection.status` in Redux |
| `sock` | `this.socket` and its keyserver end: messages being handled, answers on their way, is the viewer set |
| `inflight` | `InflightRequests.data`: message and expected type of each |
| `reopen` | `reopenConnectionAfterClosing` |
| `recovering`, `recoveries` | `invalidationRecoveryInProgress`, and the recoveries under way |
| `throttled`, `due` | lodash's `throttle` around `reconnect`: the two seconds, and the trailing call |

`Connection` is what the rest of the client relies on: at most one connection,
initialised at most once, every request settled no later than the connection
ends. The refinement mapping takes `phase` from the socket and the history
variable `synced`, and `pending` from the inflight requests
(`ImplementsConnection`). TLC checks it on the run `connection`, the theorem
`IsAConnection` for any number of changes and faults.

An INITIAL message expects its state sync and, with activity updates queued, an
answer to them, and so does its one retry. When `fetchViewerForSocket` throws
(`socket.js:196`), the socket has no viewer and would accept another INITIAL message,
but the client does not send one: it tries again only after `unknown_error`, which
nothing in `fetchViewerForSocket` throws, and otherwise closes the socket
(`FailInitial`, `InitialFails`). After `unknown_error` from the handler the viewer is
set, and the retry is refused.

Assumed of the environment: one API request and one PING at a time; a
connection that is lost after an AUTH_ERROR has arrived does not lose the close
frame behind it. Left out: late messages of released sockets, `lateResponses`,
the log-out that follows `not_logged_in`, the frozen app and the client without
a cookie for which `openSocket` returns, and the branch of `onClose` for a
socket that has been handled already.

### SessionSockets: several sockets of one session

The keyserver's view. A client opens one socket after another; the keyserver
may find the earlier ones dead much later, and they may live in other processes.
When a handler is done and its socket has no `RedisSubscriber`, one is made
(`HandlerEnds`), also for a socket that has closed meanwhile. It publishes
START_SUBSCRIPTION; whoever is subscribed and sees another's terminates its own
socket. A handler that throws or takes longer than five seconds makes none
(`HandlerFails`); if it was that of INITIAL, the client gives the socket up
(`ClientGivesUp`). So `OpenIsSubscribed` is about sockets that have answered INITIAL
without an error. What the client does with a socket it is closing, and may come back
to, belongs to SocketClient.

| Variable | Code |
| --- | --- |
| `client`, `ws` | which socket the client uses; `this.ws` of each |
| `handler`, `ending` | `onMessage` and `onClose` between their awaits |
| `sub`, `instance` | `this.redis`: asked for, subscribed, quit; how many there were |
| `starts`, `inbox` | START_SUBSCRIPTION messages on the way to Redis and in `redisPromiseResolver` |

A subscriber's own subscription is a new connection and may take effect before
or after its announcement. What is assumed is that it takes longer than
announcements published before it.

### ThreadPermissions: who may do what in a tree of threads

One community: a root, channels, sidebars. A membership row has a role and a
blob of permissions; the blob is made of the role's permissions and of what the
parent thread's row grants. `MakePermissionsBlob`, `PermissionsForChildren`,
`Included` and `RoleForPermissions` are the functions of `lib/permissions/`, on
keys that are triples of propagation, filter and permission, restricted to the
keys that tell thread types apart.

| Definition | Code |
| --- | --- |
| `thread`, `row` | the `threads` and `memberships` tables |
| `jobs` | handlers between computing a changeset and `commitMembershipChangeset` |
| `ChangeRole`, `Recalculate` | `changeRole`, `recalculateThreadPermissions` |
| `Descend`, `Layer`, `Spread` | `updateDescendantPermissions` and its `DepthQueue` |
| `Together`, `Rows`, `Commit` | `commitMembershipChangeset` |
| `Die`, `Repair` | a process that ends half way; `recalculateAllThreadPermissions` |

`Consistent` is the fixed point the walk must reach: at rest, every row of a thread
that has rows equals what computing it from scratch gives. `RepairedIsRight` says
how the repair script gets there: it visits the threads in any order, and the rows of a
thread it has visited are right and stay so. `KnownToAdmitted` is independent of blobs
and prefixes: it says who knows of a thread in terms of membership and of
`lib/types/thread-types.js`.

`updateThread` moves any thread and changes the depth of that thread alone. If
others lie below it, their depths are wrong from then on, and a later walk may find a
thread at a depth the `DepthQueue` has passed, so that the request, or the repair
script, ends with an error. `misplaced` records such a move. `ThrowsOnlyMisplaced` says
that nothing else makes the queue throw; `Consistent`, `RepairedIsRight` and
`KnownToAdmitted` speak of the time before. In the instance of the run the
queue does throw, after a thread has been moved below itself; a throw between two
different threads takes more requests than its bounds have, and is the theorem's.
`MaxMisplaced` bounds the requests once a thread is misplaced.

A process that ends leaves the rows it has saved and deleted in batches of
`membershipInsertBatchSize` (`Batches`); the instance has fewer rows than one batch, the
proofs have any number.

Assumed (`Free`): requests about one user do not overlap, and creating or
changing a thread overlaps with nothing; the code does not enforce this, see
[below](#other-observations). The repair script runs alone. `MaxRequests` bounds
requests and deaths together.

### CookieRecovery: calls and their session

A native client and its keyserver. `calls` are bound to the cookie and user of
the moment they were made (`bindCookieAndUtilsIntoCallServerEndpoint`).

| Variable | Code |
| --- | --- |
| `redux` | `cookie`, `currentUserInfo`, `dataLoaded` |
| `keychain` | the native credentials |
| `calls` | each call: waiting to be sent, sent, answered, recovering, waiting for a recovery |
| `waiting`, `attempt` | `currentlyWaitingForNewCookie`; `resolveInvalidatedCookie` |
| `leaving` | `preRequestUserState` of a log-out that has not settled |
| `cookies` | the `cookies` table: whose each row is |

`InvalidSessionDowngrade`, `InvalidSessionRecovery` and `SetNewSession` are what
`redux-setup.js` does before any reducer. A log-out settles by its answer or
after 500 milliseconds; a call that timed out may still be served. Assumed: the
client has a cookie from the start, a keyserver handler is one step, one log-in
and one log-out at a time. Anonymous cookies are not invalidated: nothing deletes one
but the clean-up of those unused for thirty days. So the recovery's `log_in`, which
runs under the anonymous cookie the refusal has just brought, is not itself answered
with an invalidated cookie, and the replay of the waiting calls that would follow
(`action-utils.js:194-200`) is left out with it.

### EntryEditing: one calendar entry

`comp` is the component `InternalEntry` with all its instance fields, `store`
the entry in Redux, `requests` what is on its way, `entry` the row and `revisions`
its rows in the other table, `rivals` the handlers of other sessions that have
passed their checks.

| Definition | Code |
| --- | --- |
| `Type`, `CompleteEdit`, `PressDelete`, `Refresh`, `Reconnect` | the component's handlers and `componentDidUpdate` |
| `DispatchSave`, `DispatchDelete` | `dispatchSave`, `dispatchDelete` |
| `Created`, `Saved`, `Deleted`, `Failed` | `createAction`, `saveAction`, `deleteAction` after their awaits, and the entry reducer |
| `CheckCreate`, `CheckSave`, `CheckDelete` | `createEntry`, `updateEntry`, `deleteEntry` up to their queries and checks |
| `WriteCreate`, `WriteSave`, `WriteDelete` | the same handlers from their writes to their answers |
| `OtherChecks`, `OtherWrites` | `updateEntry` and `deleteEntry` of other sessions |

`entry` and `revisions` are the tables. Between the queries of a handler and its
writes nothing is locked, so the handlers of this session (retries and those of
requests given up among them) and those of others overlap. `version`
counts the writes: a handler that writes at another version than it has read is
*overtaken*. Then it may replace what its session has never seen, and leave the row and
the newest revision different. Both are what the code does, so `NothingUnseenReplaced`
excepts writes that are overtaken, and `Consistent` holds until the first of them
(`overlapped`). What the two promise is that the checks, when they do see the tables as
they are written, let nothing else through. `CreatedOnce` has no such exception: the
table's unique key holds for handlers that overlap.

The answer to a retry or to a creation holds the entry only if there is a row of the
`updates` table about it for this session to find, which there need not be
(`NoContent`): what was filed under the localID is then re-keyed and stays without an
ID (`Rekeyed`).

Assumed: the queries that a handler sends side by side are one step, and its answer
is read after them; entries are not restored; no two actions of the user fall in one
millisecond; no live update brings an entry whose creation has not been answered; an
instance of the component that another has replaced sends no more saves; of several
alerts the last is kept. Clocks of different sessions may differ.

### The modules of proofs

`UpdateSyncProofs`, `ActivityUnreadProofs`, `StateCheckProofs`, `SocketClientProofs`,
`SessionSocketsProofs`, `ThreadPermissionsProofs`, `CookieRecoveryProofs` and
`EntryEditingProofs` hold the theorems about the module each is named after, see
[Proofs](#proofs). `UpdateSyncProofs` extends MCUpdateSync, whose quiet environment
it is about as well.

## Runs

| Run | Question | Bounds |
| --- | --- | --- |
| `update_sync` | Is the keyserver's checkpoint always behind the client's, does the client's only grow, and can what the client lacks still be downloaded, also when the app comes back with an older store? | one entity, two calls of any of the four kinds, one closed socket, killed app or lost reply |
| `update_sync_quiet` | In a quiet environment, are all updates delivered, safely and eventually? | two entities, three calls, one fault |
| `state_check` | Do checks not overlap, always have a next step, and repair everything? | two threads, one single value, three writes, two faults (exceptions, time-outs, repeated answers, closed sockets) |
| `activity` | Does `last_message` catch up, and is nothing unread without a cause? | two sessions, two messages, two requests |
| `connection` | Does something always move the connection status on, is there one connection that settles its requests, and is an active app connected in the end? | four changes by the user, four faults |
| `subscription` | Is an answered socket always subscribed, and does the mutual termination come to an end? | six sockets, one lost connection, one failing handler, two further requests |
| `permissions` | Is the walk's result the fixed point, does the repair script get there in any order, does it let exactly those in who are admitted, does the queue refuse a thread only after a move from above others? | two users, four threads of depth up to three, three requests or deaths, two once a thread is misplaced |
| `recovery` | One recovery at a time, no call left behind, no session mixed up by a late answer? | two users, four calls at once, three made, six cookies, one invalidation |
| `entries` | One row, nothing unseen replaced, row and revision in agreement, no save that loads for ever? | two texts of this session and two of another, two edits, one time-out, one retry, one change by the other session, three timestamps |
| `continued_session`, `unread_reset`, `deferred_save` | counterexamples, see below | as in the run of the same module, or smaller |

Why the bounds are enough to be interesting: two calls give every order of
two concurrent insert/publish/delete steps, equal and different times, and a
superseded row; a third call gives an update after a repaired connection. One
fault gives a second connection, whose handshake meets the first one's ACKs and
orphaned handler. Two threads are needed for a check to narrow one hash down to
one of several; three writes let two race with one check and one come before it. Two
messages give every order of two unawaited chains, and two requests two handlers
that overlap, of one session or of two; the proofs cover what is beyond.

Four changes by the user close and reopen the socket twice, or change the cookie
in between; four faults let an initialisation fail with its retry, a recovery
start, and the next connection be lost. Six sockets, one loss and one failing handler let
an orphaned handler of the first socket terminate the second, the third still find the
orphan, and an INITIAL message fail in between; with five the client would run out of
sockets and not of reasons to open one. A root, two channels and a sidebar give every tree in which a channel or
a sidebar lies in a channel of either kind, with filters that apply up to three
levels below the role they come from; three requests are a creation, a change above it and a death, or
two moves after a creation. Three calls are one that recovers, one that waits for
it and a log-out or log-in in between. Two edits put one behind a creation that
times out and is tried again.

Deadlock is checked wherever the system always has something to do, which is in
the three configurations of UpdateSync and MCUpdateSync. The others say
`CHECK_DEADLOCK FALSE`: once their writes, messages, requests, edits or faults
are used up everything is done and the system rests.

## Fairness

`MCUpdateSync`: weak fairness of a call's steps, of the keyserver's handlers and
of the client. The code justifies each: promises started by `createUpdates` are
queries that return, a handler's awaits are queries, a WebSocket delivers in order
or closes (closing is a fault and bounded), and the client reconnects whenever it
is disconnected (`componentDidUpdate`). Nothing is assumed of ACKs, expiry,
closing or new calls.

`StateCheck`: weak fairness of the timers (`setTimeout`, lodash `debounce`), of
the handlers' steps and of delivery. Faults are bounded. An exception, and a time-out
that drops a request for more hashes, leave `stateCheckOngoing` set and no check starts
on that socket again, which `EventuallyInSync` has to except (`failed`); a time-out
that drops state changes does not, and what was dropped is repaired by the next check.

`SocketClient`: weak fairness of the timers, of what a WebSocket delivers, of the
keyserver's answers, and of the recovery, which is a call with a time-out. A
silent connection is found out by a PING, so `SendPing` (a timer) has to be fair;
nothing is assumed of the user, of errors or of lost connections, which are bounded.

`SessionSockets`: weak fairness of every socket's handlers and of Redis, and of
the client reopening a socket it sees closed. That a dead socket is found out is
the 120 second timer.

`CookieRecovery`: the client goes on, by its time-outs if need be (every call over
HTTP has one, the log-out races with 500 milliseconds). Nothing is assumed of
the keyserver: `CallsSettle` holds although it never answers.

`EntryEditing`: the keyserver serves requests and the client takes the answers;
time-outs are faults.

## Proofs

TLC checks small instances; TLAPS proves, for every value of the constants that
satisfies the assumptions below, every safety invariant and every action property
of the runs but two (see the end of this section), and that SocketClient implements
Connection. Each module of proofs defines an inductive invariant `Inv` (in
UpdateSyncProofs and ActivityUnreadProofs several, one for each property), proves that
`Init` implies it and that every action preserves it, with one lemma per action,
and draws the theorems from it.

### UpdateSync

- `TypeCorrect`: `Spec => []TypeOK`. The one arithmetic fact in it is that
  `mostRecentUpdateTimestamp` returns a time of the set and not before the one it
  is given (`MostRecentBound`), from `MaxExists`: a nonempty set of numbers up to N
  has a largest element. Without induction over data this rests on
  the library's theorem that strict inclusion of finite sets is well-founded.
- `NeverAhead`: `Spec => []ServerNeverAhead`. `ServerNeverAhead` is not inductive:
  a commit copies the checkpoint of an INITIAL message, which copies the client's,
  which after a restart is the saved one. `Bounded` bounds all of them by `reached`.
- `NeverBackwards`: `Spec => CheckpointNeverBackwards`. A state sync assigns the
  checkpoint, so it has to be shown that it is never below: `Handshake` says that
  before the state sync nothing is on the wire and the client's checkpoint is the
  one the INITIAL message carried, and that a state sync is only ever the first
  message of a connection.
- `UpdatesKept`: `Spec => []Redownloadable`. Rows go by expiry, which `NeverAhead`
  keeps below what the client has had, and when a later update of the entity
  replaces them. A call that supersedes one that stood for the update stands for the
  update itself; if its own row has gone already, some call stands for that one
  (`StandsLater`), and that call's row is there, or its insert under way, or taken by a
  change the session made itself.

In the quiet environment, `QuietSpec`, for calls of other sessions
(neither `"own"` nor `"self"` in `Kinds`) and without stale restarts:

- `QuietMissesNothing`: `QuietSpec => []NothingMissed`, and `QuietIgnoresSafely`:
  `QuietSpec => []IgnoredStayAboveCheckpoint`. Neither is inductive: what the client
  has depends on what is on its way. The strengthening `Calm` describes that.
  `Serial` says that call n was made at time n and the database has the last call
  for every entity; `Idle`, that nothing is published in the blind window;
  `Behind`, that the client has all calls up to its checkpoint; `Answers`, that an
  INITIAL handler has found every update the client lacks. `Stream` is the heart of
  it: on a live connection the wire and then the inbox hold the last calls one by
  one and in order, and what the client has, with the state sync that may still be
  on the wire, reaches up to the first of them without a gap.

### ActivityUnread

- `ActivityTypeCorrect`: `Spec => []TypeOK`; values that are read, compared and
  written back stay message ids.
- `LastCatchesUp`: `Spec => []NewestIsLast` for a member with a device. The
  strengthening `CaughtUp` says that a message `last` has not reached still has
  its update to come.
- `NoUnreadWithoutCause`: `Spec => []UnreadHasCause` for a member with a device.
  The strengthening `Cause` follows every handler: what it reported is at most
  what it is about to write, or at most `lastRead`, and `lastRead` as it was read
  is at most `lastRead` now. The heart of it is `LastReadGrows`: until the user
  marks the thread as unread, `lastRead` never falls, which is what `GREATEST` in
  all three writers is for.

### StateCheck

`TypeCorrect`, `NextStep` (`CheckHasNextStep`), `OneConversation` (`OneCheckAtATime`)
and `CheckRepairsAll` (`Spec => OneCheckRepairsAll`). A socket has one *token* at most:
a handler, a check or an answer (`OneToken`). That is kept because a check begins only
when the session is due, and it is due only when nothing is left of the last one
(`Quiet`). For `CheckRepairsAll` the token has to be followed through the conversation
(`Honest`): as long as nothing has been written since the check began, a handler's
snapshot is the database, the hashes on the wire are its hashes, and an answer
names every key whose content the client will not have once it has
taken what is before it on the wire (`Told`). A handler that has timed out keeps its
snapshot and its answer, so that what it does not send is what it was to send. The
handler the client asks anew with the same answer starts from what the answer says.

### SocketClient and Connection

`TypeCorrect`, `NothingIsForgotten` (`NothingForgotten`) and `IsAConnection`
(`Spec => ImplementsConnection`). Every action changes the component as a whole by
one method or a few, so that the lemmas are about methods: what each does to a
component that is sound and what of the socket it leaves alone. `Talk` says what may
be on the wire at which point of the handshake, which makes the state sync initialise
a connection at most once; `StatusFits` ties the status to the socket; `Awake` says
what an active component that is disconnected is waiting for. The refinement follows
action by action: a step opens, initialises, requests, settles or ends in
Connection, or leaves what the mapping sees alone.

### SessionSockets

`TypeCorrect` and `SocketsStaySubscribed` (`OpenIsSubscribed`). The types bound
`instance` by two, so that a socket creates two subscribers at most and the mutual
termination cannot go on. The strengthening `SocketLife` says what a socket may have
at each point of its life: until `onClose` has quit its subscriber it has created
just the one it has, and a handler that outlives it creates one more, the last. A
handler that fails creates none, and the socket stays as it was.

### ThreadPermissions

`TypeCorrect`, `ThrowsMisplaced` (`ThrowsOnlyMisplaced`), `RepairSettles`
(`RepairedIsRight`), `AlwaysConsistent` (`Consistent`) and `OnlyTheAdmittedKnow`
(`KnownToAdmitted`), for trees of any depth. `Tree` says that, unless a thread is
`misplaced`, every thread lies one level below its parent, below one community: a
thread is created so, and its depth does not change while others hang below it.
Therefore what is found below a thread, as its child or
contained in it, lies deeper (`FoundIsDeeper`), and the queue does not refuse it.
`Table` says that nobody has a role or permissions in a thread that is not
there, so that every thread a request touches exists; that only the root has admins;
and that nobody may change the root's own type or parent. The walk is a recursive
function; `WalkTo` shows that it exists, and `DescendSucceeds` that every layer is sound,
by induction on the depth (`UpTo`).

That a walk is enough is `WalkIsEnough`: written together with what the walk down from
them gives, new rows of one thread leave every row right that was right below it,
whatever else is wrong in the table. It rests on three facts. A row computed again from
its own role does not change (`AgainTheSame`), and one who is not in the containing
thread has no role, so that coming in changes nothing (`JoiningChangesNothing`): that
is why `Affects` need not look at roles that are gained. What is known of a thread when
its layer is reached agrees with the rows written above it (`Knows`, kept by
`SpreadLearns`). And a layer makes right what was right before (`LayerSettles`),
whether it changes a row, finds that it need not, or takes a row that is missing for a
ghost. `ChangeRoleIsEnough` and `RecalculateIsEnough` say it of the changesets of
`changeRole` and `recalculateThreadPermissions`, and `RepairIsEnough` of one visit of
the script. Since the script runs alone (`Alone`), nothing undoes what it has repaired.

`Consistent` needs two things more. One changeset of a created or changed thread is
three, merged by `commitMembershipChangeset`: the creator's row, the recalculation, and
the rows of added members, computed without knowledge of each other, so that rows of
different walks end up side by side. `PlanIsEnough` shows that this is right. A created
thread has nothing below it yet (`PlanOfCreation`). Where a thread is moved or becomes
another type while members are added (`PlanOfMove`), `RivalsAgree` compares the two walks
of one added member (`Rivals`): where the addition writes a row, its row counts, and where
it writes none, both walks agree. The reason is in the keys. All that a blob hands on
is one of the few prefixed keys of the roles (`Handed`), granted by the thread nearest
above that grants it (`IsTreeBlob`), so that a role added in a thread overlays what
is inherited with that thread's own grants and changes nothing else (`Overlaid`); and a
thread in which a user has no role is the source of none of the user's grants
(`RightHasNoSource`), so that the addition's walk goes wherever its grants
make a difference. The other thing is the invariant over what is under way (`Cover`):
changesets concern different users, each makes all rows of its own users right
(`WillDo`), and the rows of users whom no changeset concerns are right, unless a handler
has died. A commit leaves the other users' rows and changesets alone (`CommitCovers`);
a plan is computed alone (`OnlyOne`); and what dead handlers have left is made right
by the script (`RepairCovers`).

`KnownToAdmitted` then follows from right rows (`RightIsAdmitted`), thread by thread
down the way from the root (`Upwards`, `WayEnds`). The keys that let one know of threads
are two: the root's admins hand `descendant_know_of` on to every thread
(`AdminsKnowAll`), and `descendant_open_know_of` is in a blob exactly where the user is a
member of the thread, which is no sidebar, or the thread is open and the key is in the
blob above (`RootKnows`, `ChildKnows`). One invariant more is needed: every thread above
another has rows (`Upheld`), since a thread is created or moved only below one in which
the viewer has a permission, and no row that is there goes away. Otherwise a thread
without rows, which walks do not find, could stand between a member and what is open
to that member.

### CookieRecovery

`TypeCorrect`, `RecoveryIsOne` (`OneRecovery`), `CookieOfUser` (`CookieIsUsers`),
`NoLateLogOut` (`ValidSessionSurvives`) and `LogOutIsFinal` (`LogOutStays`). The first
three are inductive only together and with what the calls carry (`CallsOK`): the cookie
a call is bound to belongs to the user it is bound to or is gone, and an answer that
logs out carries a new cookie in place of one that is gone. `AttemptOK`,
`SessionOK` and `LoggingIn` do the same for the recovery's log-in, the session that is
being left and the log-in made by hand.

### EntryEditing

`TypeCorrect`, `RowIsNewestRevision` (`Consistent`), `OneEntry` (`CreatedOnce`) and
`ReplacesWhatItHasSeen` (`Spec => NothingUnseenReplaced`). A handler that is not overtaken
writes over the very tables its checks were made on: the invariant says of each what
the checks have left true of the revision it has read, as long as `version` is the one it
has read. `Creations` says that one
creation is waited for at most, by the component on the screen, and none once the ID
is known, and that nothing else is asked for before; `Seen` that every text the
session shows, has written or bases a request on has been on its screen or in its store.

### Assumptions

The constants are as weakly restricted as the code allows, by assumptions that TLC
evaluates in every run: bounds are natural numbers (`BoundsAssumption` of each module,
and parts of `CookieAssumption` and `EntryAssumption`); sets that must not be empty
are not (`KeysAssumption` of UpdateSync, `SessionsAssumption`); `KindsAssumption`,
`StaleAssumption` and `DeviceAssumption` give their types; values that stand for
"nobody", "gone" or "nothing" differ from users and texts (`CookieAssumption`,
`EntryAssumption`); thread keys are not single values (`KeysAssumption` of
StateCheck), ordinary calls are not log-ins or log-outs (`CookieAssumption`), and the
first channel is not the root (`CommunityAssumption`).

### Model-checked only

Liveness under fairness is beyond the prover: `EventuallyInSync` (of MCUpdateSync and
of StateCheck), `EventuallyConnected`, `EventuallyServed`, `CallsSettle` and
`SpinnerStops` are checked by TLC. All other properties of the passing runs, invariants
and action properties alike, are proved for every value of the constants.

## What disagrees with the code's comments

With a run that shows it:

`continued_session`. `keyserver/src/socket/session-utils.js:290-295` explains why a
client with an older checkpoint must get a new session. A native session keeps
its ID, so `setNewSession` overwrites `last_update` with the client's older
checkpoint; if the FULL state sync is lost, the retry looks like a session that
is up to date and is continued incrementally, whether or not the rows it needs
have expired.

`unread_reset`. The comment at `activity-updaters.js:284-286` says that a thread is
reset to unread when the session has left it without seeing its newest message.
The clients are told so, but `last_read_message`, which the message raised while
the thread was focused, is not lowered: the database still says read, and the next
state check makes the clients agree with it.

`deferred_save`. `native/calendar/entry.react.js:530-531` says that an edit made
while the entry is being created is handled later. `dispatchSave` has set
`currentlySaving` by then, so the later call takes the text for one that is being
saved and returns; the payload of the creation replaces it on the screen. A
deletion that had to wait is lost in the same way, by `this.deleted`, and the entry
reappears. `web/calendar/entry.react.js` has the same code.

Without a run of their own:

- `lib/socket/socket.react.js:416-418` says that UPDATES which arrive while the
  socket is closing will be downloaded again. Two calls in one millisecond break
  that: the UPDATES of the first moves the checkpoint to their common time, those of
  the second are ignored, and `time > currentAsOf` does not select them. UpdateSync
  without `Quiet` has this; `IgnoredStayAboveCheckpoint` is checked with it.
- `activity-updaters.js:125-127` says that messages which set a thread to unread
  before it was focused are caught and overridden. `postMessageSend` looks at
  `focused` in one query and writes `last_message` in a later one; a handler that
  runs between the two catches nothing. ActivityUnread has this too, which is why
  `UnreadHasCause` speaks of what was reported as shown and not of focus.
- `message-creator.js:265-268` lists three things `postMessageSend` does; all three
  are skipped for a member without a device token (line 377), although only the
  first one needs it. `NewestIsLast` is about a member with a device.
- `lib/utils/action-utils.js:328-329` does not want the credentials of a logged-out
  user used. `loggedIn` is the state of the time the call was bound, so a call that
  outlives the log-out does use them; `invalidSessionRecovery` drops the result.
- `lib/socket/socket.react.js:640-641` says that the socket will be closed and a
  reconnect be triggered. When the status is `connecting` again because another
  socket has been opened in the meantime, the catch closes or retries on that one.
- `lib/socket/socket.react.js:414-416` takes the message that closes the socket for
  the last one; with two answers expected to one INITIAL message, the first of them
  ends the closing.

### Other observations

None of these contradicts a comment; they are what the environment assumptions
above leave out, or what the checks showed on the way.

- The client may be `connected` before its STATE_SYNC: while closing with the
  initialisation under way, `openSocket` returns to `connected`. If the
  initialisation then fails, the client stays on a socket that is not initialised.
- The trailing call of the throttled `reconnect` opens a socket although the app
  has become inactive.
- A handler that is under way when its socket closes makes a subscriber
  afterwards, which nothing quits; it terminates the session's next socket, once.
- `onClose` deletes the focused rows of the session without a time, also those a
  newer socket has inserted (`socket.js:352-363`).
- Overlapping requests about one user commit changesets computed from what the
  other has replaced. Moving a thread with children leaves their depths as they
  were, and a later walk throws in the `DepthQueue`; a thread may even be moved below
  itself. Candidates for members are validated against the parent only.
- A call bound to one user is made again in the session of another if the
  recovery logs in as the owner of the keychain's credentials.
- `recalculateAllThreadPermissions` takes the threads in the order the database gives
  them (`SELECT id FROM threads`). A thread whose creation died before it had a
  membership row is not found by the walk from its parent, so that it may be left with
  rows computed from a parent that is repaired later. `Consistent` is about threads
  that have rows.
- Overlapping saves of one entry can both pass the test for concurrent
  modifications, so that one replaces a text its session has never seen; and they can
  leave the entry's text and its newest revision different, after which every later save
  is refused with `database_corruption`. `restoreEntry` has no test for old timestamps.
  A retry of a creation is answered with the updates other sessions were sent about the
  entry, and there may be none: the client's entry then stays without an ID. A failed
  deletion leaves the entry hidden until something else brings it back.
- A handler of a state check that takes longer than five seconds still counts the
  session as validated, although what it found has not been sent; the next check, three
  minutes later, finds it again.
- An update targeted at the session that causes it deletes the rows about its entity
  whatever their time, also of changes that came after it.

## Not modelled

Policies, the extension of cookies and how a viewer is found from a request;
calendar queries and the FULL state sync they can cause; the session ID a web
client is given; hash collisions; expiry because of other sessions (any lower
bound at or below this session's `last_update` may be used). Private, personal
and genesis threads. Restoring entries. Relationships: a few queries per request,
which overlapping requests can interleave so that a friend is blocked; nothing in
the code claims otherwise. Push notifications, uploads, registration and e-mails
are I/O around single queries. The services under `services/`, the C++ core and
the rest of the user interfaces are separate programs with little protocol of
their own, and most of the repository's lines are type definitions of libraries,
components of the user interface and generated projects; see `PROJECT.json` for
the reasons part by part.

## Plan

Done: UpdateSync, MCUpdateSync, StateCheck, ActivityUnread, SocketClient with
Connection, SessionSockets, ThreadPermissions, CookieRecovery, EntryEditing;
proofs about all of them.

Left, most important first:

1. The clients' own unread flag and the rescinding of notifications, on top of
   ActivityUnread.
2. Creation of messages with retries, and the client's message store.
3. Condensing of one call's updates by type and of a download's by entity, as pure
   operators checked against a reference definition.
