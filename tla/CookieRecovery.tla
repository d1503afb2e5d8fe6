--------------------------- MODULE CookieRecovery ---------------------------
(***************************************************************************)
(* A native client's calls over HTTP and the session they run under.  A    *)
(* call is bound to the cookie and user Redux held when it was made.  When *)
(* the keyserver finds its cookie gone it hands out an anonymous one, and  *)
(* the client logs in again with the credentials of its keychain before it *)
(* gives up: one recovery at a time, while the other calls wait for it.    *)
(* Answers may come late, after the user has logged out or in again.       *)
(*                                                                         *)
(* The calls are those of Others, each standing for any endpoint that      *)
(* leaves the session alone, and the user's own log_in and log_out, of     *)
(* which the screens allow one at a time.  The client has a cookie from    *)
(* the start: it has been in touch with the keyserver before.              *)
(***************************************************************************)
EXTENDS Naturals, Sequences

CONSTANTS
  Users,
  NoUser,            \* the anonymous user
  Gone,              \* what has become of a cookie that is not in the table
  Others,            \* the calls that are neither log_in nor log_out
  MaxCookies,        \* bound: rows ever inserted in the cookies table
  MaxCalls,          \* bound: calls made
  MaxInvalidations   \* bound: cookies that expire or are deleted

ASSUME CookieAssumption ==
  /\ NoUser \notin Users
  /\ Gone \notin Users \cup {NoUser}
  /\ Others \cap {"log_in", "log_out"} = {}
  /\ MaxCookies \in Nat \ {0} /\ MaxCalls \in Nat /\ MaxInvalidations \in Nat

VARIABLES
  redux,      \* the client's cookie, user and dataLoaded
  keychain,   \* whose credentials it holds
  calls,      \* the calls under way
  waiting,    \* currentlyWaitingForNewCookie
  attempt,    \* the log-in that is to bring a new cookie
  leaving,    \* preRequestUserState of a log-out not settled yet
  cookies,    \* the keyserver's cookies table: whose each row is
  started, invalidations

vars == <<redux, keychain, calls, waiting, attempt, leaving, cookies, started,
          invalidations>>

Calls      == Others \cup {"log_in", "log_out"}
Anyone     == Users \cup {NoUser}
NoAnswer   == [user |-> NoUser, cookie |-> 0, invalidated |-> FALSE]
Idle       == [step |-> "none", user |-> NoUser, cookie |-> 0, as |-> NoUser,
               answer |-> NoAnswer]
NoAttempt  == [step |-> "none", user |-> NoUser, cookie |-> 0]
NotLeaving == [user |-> NoUser, cookie |-> 0]

\* Logged in with or without credentials in the keychain, or logged out
\* with or without having kept them.
Init ==
  /\ keychain \in Anyone
  /\ \E u \in Anyone :
       /\ redux = [cookie |-> 1, user |-> u, dataLoaded |-> u # NoUser]
       /\ cookies = <<u>>
       /\ u # NoUser => keychain \in {u, NoUser}
  /\ calls = [c \in Calls |-> Idle]
  /\ waiting = FALSE
  /\ attempt = NoAttempt
  /\ leaving = NotLeaving
  /\ started = 0
  /\ invalidations = 0

bounds == <<started, invalidations>>
-----------------------------------------------------------------------------
(* Reducers: which session changes Redux takes.                            *)

\* mutant: the cookies are not compared
InvalidSessionDowngrade_UserOnly(state, user, pre) ==
  state.user # NoUser /\ user = NoUser /\ pre.user # state.user

\* A log-out of a session that is not the one the request was made in.
InvalidSessionDowngrade(state, user, pre) ==
  /\ state.user # NoUser
  /\ user = NoUser
  /\ pre.user # state.user \/ pre.cookie # state.cookie

\* mutant: taken while the user is logging out
InvalidSessionRecovery_UserOnly(state, user) == state.user # user

\* A recovery of a session the client has left.
InvalidSessionRecovery(state, user) == ~state.dataLoaded \/ state.user # user

\* mutant: the cookie is set before the change is refused
SetNewSession_CookieAnyway(state, change, pre) ==
  [cookie |-> change.cookie,
   user |-> IF InvalidSessionDowngrade(state, change.user, pre)
            THEN state.user ELSE change.user,
   dataLoaded |-> state.dataLoaded]

SetNewSession(state, change, pre) ==
  IF InvalidSessionDowngrade(state, change.user, pre) THEN state
  ELSE [cookie |-> change.cookie, user |-> change.user,
        dataLoaded |-> state.dataLoaded /\ change.user # NoUser]

LogOutSuccess(state, pre) ==
  IF InvalidSessionDowngrade(state, NoUser, pre) THEN state
  ELSE [state EXCEPT !.user = NoUser, !.dataLoaded = FALSE]
-----------------------------------------------------------------------------
(* The client makes calls.                                                 *)

\* callServerEndpoint: wait while a new cookie is being fetched.
Begun(as) ==
  [Idle EXCEPT !.step = IF waiting THEN "parked" ELSE "sent",
               !.user = redux.user, !.cookie = redux.cookie, !.as = as]

Make(c, as) ==
  /\ started < MaxCalls
  /\ calls[c] = Idle
  /\ calls' = [calls EXCEPT ![c] = Begun(as)]
  /\ started' = started + 1
  /\ UNCHANGED <<waiting, attempt, cookies, invalidations>>

\* Screens of a logged-in user are shown once the data is loaded.
StartCall(c) ==
  /\ redux.user # NoUser => redux.dataLoaded
  /\ Make(c, NoUser)
  /\ UNCHANGED <<redux, keychain, leaving>>

\* The form is shown to one who is logged out and takes one log-in at a time.
StartLogIn(u) ==
  /\ redux.user = NoUser /\ leaving = NotLeaving
  /\ Make("log_in", u)
  /\ UNCHANGED <<redux, keychain, leaving>>

\* The user may choose to remove the credentials from the keychain.
StartLogOut(keep) ==
  /\ redux.user # NoUser /\ redux.dataLoaded /\ leaving = NotLeaving
  /\ Make("log_out", NoUser)
  /\ keychain' = IF keep THEN keychain ELSE NoUser
  /\ leaving' = [user |-> redux.user, cookie |-> redux.cookie]
  /\ redux' = [redux EXCEPT !.dataLoaded = FALSE]
-----------------------------------------------------------------------------
(* The keyserver serves them.                                              *)

\* An answer reaches a call that still wants it.
Reply(c, answer) ==
  calls' = [calls EXCEPT ![c] =
              IF @.step = "sent"
              THEN [@ EXCEPT !.step = "answered", !.answer = answer] ELSE Idle]

Serving(c) == calls[c].step \in {"sent", "abandoned"}

NewCookie == Len(cookies) + 1

\* mutant: the new row is not inserted
Exchanged_NoRow(old, user) == [cookies EXCEPT ![old] = Gone]

\* The row of a new cookie for the user; the old cookie, if any, is deleted.
Exchanged(old, user) == Append([cookies EXCEPT ![old] = Gone], user)

\* Any call but log_in and log_out; a log_in with credentials that are wrong.
ServePlain(c) ==
  /\ c # "log_out" /\ Serving(c)
  /\ LET k == calls[c].cookie IN
     IF cookies[k] = Gone
     THEN /\ NewCookie <= MaxCookies
          /\ cookies' = Append(cookies, NoUser)
          /\ Reply(c, [user |-> NoUser, cookie |-> NewCookie,
                       invalidated |-> TRUE])
     ELSE /\ Reply(c, NoAnswer)
          /\ UNCHANGED cookies
  /\ UNCHANGED <<redux, keychain, waiting, attempt, leaving, bounds>>

\* processSuccessfulLogin; a new cookie is no invalidation.
ServeLogIn ==
  LET c == calls["log_in"] IN
  /\ Serving("log_in")
  /\ NewCookie <= MaxCookies
  /\ cookies' = Exchanged(c.cookie, c.as)
  /\ Reply("log_in", [user |-> c.as, cookie |-> NewCookie,
                      invalidated |-> FALSE])
  /\ UNCHANGED <<redux, keychain, waiting, attempt, leaving, bounds>>

\* logOutResponder: log_out expects its cookie to be invalidated.
ServeLogOut ==
  LET k == calls["log_out"].cookie IN
  /\ Serving("log_out")
  /\ IF cookies[k] = NoUser
     THEN /\ Reply("log_out", NoAnswer)
          /\ UNCHANGED cookies
     ELSE /\ NewCookie <= MaxCookies
          /\ cookies' = Exchanged(k, NoUser)
          /\ Reply("log_out", [user |-> NoUser, cookie |-> NewCookie,
                               invalidated |-> FALSE])
  /\ UNCHANGED <<redux, keychain, waiting, attempt, leaving, bounds>>

\* A user's cookie expires or is deleted; anonymous ones, unused for 30 days
\* before they expire, outlast the calls made with them.
Invalidate(k) ==
  /\ invalidations < MaxInvalidations
  /\ cookies[k] \in Users
  /\ cookies' = [cookies EXCEPT ![k] = Gone]
  /\ invalidations' = invalidations + 1
  /\ UNCHANGED <<redux, keychain, calls, waiting, attempt, leaving, started>>
-----------------------------------------------------------------------------
(* The client takes their answers.                                         *)

Bound(c) == [user |-> calls[c].user, cookie |-> calls[c].cookie]

\* The answer says nothing of the session, or brings a new one.
TakeAnswer(c) ==
  LET answer  == calls[c].answer
      session == IF answer.cookie = 0 THEN redux
                 ELSE SetNewSession(redux, answer, Bound(c))
  IN
  /\ calls[c].step = "answered" /\ ~answer.invalidated
  /\ IF c = "log_out" /\ leaving # NotLeaving
     THEN redux' = LogOutSuccess(session, leaving) /\ leaving' = NotLeaving
     ELSE redux' = session /\ UNCHANGED leaving
  /\ calls' = [calls EXCEPT ![c] =
                 IF answer.user = NoUser THEN Idle
                 ELSE [@ EXCEPT !.step = "storing"]]
  /\ UNCHANGED <<keychain, waiting, attempt, cookies, bounds>>

\* setNativeCredentials, and only then LOG_IN_SUCCESS.
FinishLogIn ==
  LET c == calls["log_in"] IN
  /\ c.step = "storing"
  /\ keychain' = c.as
  /\ redux' = [redux EXCEPT !.user = c.as, !.dataLoaded = TRUE]
  /\ calls' = [calls EXCEPT !["log_in"] = Idle]
  /\ UNCHANGED <<waiting, attempt, leaving, cookies, bounds>>

\* The race of log_out with 500 milliseconds is lost; the call goes on.
LogOutGivesUp ==
  /\ leaving # NotLeaving
  /\ redux' = LogOutSuccess(redux, leaving)
  /\ leaving' = NotLeaving
  /\ UNCHANGED <<keychain, calls, waiting, attempt, cookies, bounds>>

\* A call times out.  The keyserver may yet get to it, which makes a
\* difference if it changes the session.
TimeOut(c) ==
  /\ calls[c].step \in {"sent", "answered"}
  /\ c = "log_out" => leaving = NotLeaving
  /\ \/ calls' = [calls EXCEPT ![c] = Idle]
     \/ /\ c \notin Others /\ calls[c].step = "sent"
        /\ calls' = [calls EXCEPT ![c].step = "abandoned"]
  /\ UNCHANGED <<redux, keychain, waiting, attempt, leaving, cookies, bounds>>
-----------------------------------------------------------------------------
(* Recovery of an invalidated cookie.                                      *)

Downgrade(c) ==
  /\ redux' = SetNewSession(redux, calls[c].answer, Bound(c))
  /\ calls' = [calls EXCEPT ![c] = Idle]

\* mutant: no look at currentlyWaitingForNewCookie
TakeInvalidation_NoFlag(c) ==
  /\ calls[c].step = "answered" /\ calls[c].answer.invalidated
  /\ calls[c].user # NoUser
  /\ calls' = [calls EXCEPT ![c].step = "recovering"]
  /\ waiting' = TRUE
  /\ attempt' = [NoAttempt EXCEPT !.step = "reading",
                                  !.cookie = calls[c].answer.cookie]
  /\ UNCHANGED <<redux, keychain, leaving, cookies, bounds>>

\* cookieInvalidationRecovery: not for a call made while logged out; behind
\* a recovery that is under way; or by one of its own.
TakeInvalidation(c) ==
  /\ calls[c].step = "answered" /\ calls[c].answer.invalidated
  /\ \/ /\ calls[c].user = NoUser
        /\ Downgrade(c)
        /\ UNCHANGED <<waiting, attempt>>
     \/ /\ calls[c].user # NoUser /\ waiting
        /\ calls' = [calls EXCEPT ![c].step = "stuck"]
        /\ UNCHANGED <<redux, waiting, attempt>>
     \/ /\ calls[c].user # NoUser /\ ~waiting
        /\ calls' = [calls EXCEPT ![c].step = "recovering"]
        /\ waiting' = TRUE
        /\ attempt' = [NoAttempt EXCEPT !.step = "reading",
                                        !.cookie = calls[c].answer.cookie]
        /\ UNCHANGED redux
  /\ UNCHANGED <<keychain, leaving, cookies, bounds>>

\* No new session: a call that waited to be sent goes ahead as it was bound,
\* one that was refused is to be given up.
WithoutSession(call) ==
  CASE call.step = "parked"                   -> [call EXCEPT !.step = "sent"]
    [] call.step \in {"stuck", "recovering"}  -> [call EXCEPT !.step = "refused"]
    [] OTHER                                  -> call

\* All of them are made again in the new session.
InSession(call, user, cookie) ==
  IF call.step \in {"parked", "stuck", "recovering"}
  THEN [call EXCEPT !.step = "sent", !.user = user, !.cookie = cookie,
                    !.answer = NoAnswer]
  ELSE call

Recovered(after) ==
  /\ calls' = after
  /\ waiting' = FALSE
  /\ attempt' = NoAttempt

\* mutant: the log-in itself waits for the new cookie
ReadCredentials_Waits ==
  /\ attempt.step = "reading" /\ ~waiting
  /\ attempt' = [attempt EXCEPT !.step = "sent", !.user = keychain]
  /\ UNCHANGED <<redux, keychain, calls, waiting, leaving, cookies, bounds>>

\* resolveInvalidatedCookie starts with the keychain.
ReadCredentials ==
  /\ attempt.step = "reading"
  /\ IF keychain = NoUser
     THEN Recovered([c \in Calls |-> WithoutSession(calls[c])])
     ELSE /\ attempt' = [attempt EXCEPT !.step = "sent", !.user = keychain]
          /\ UNCHANGED <<calls, waiting>>
  /\ UNCHANGED <<redux, keychain, leaving, cookies, bounds>>

ServeAttempt ==
  /\ attempt.step = "sent"
  /\ NewCookie <= MaxCookies
  /\ cookies' = Exchanged(attempt.cookie, attempt.user)
  /\ attempt' = [attempt EXCEPT !.step = "answered", !.cookie = NewCookie]
  /\ UNCHANGED <<redux, keychain, calls, waiting, leaving, bounds>>

\* The session is new to the calls even if Redux does not take it.
TakeAttempt ==
  /\ attempt.step = "answered"
  /\ redux' = IF InvalidSessionRecovery(redux, attempt.user) THEN redux
              ELSE [redux EXCEPT !.cookie = attempt.cookie]
  /\ Recovered([c \in Calls |->
                  InSession(calls[c], attempt.user, attempt.cookie)])
  /\ UNCHANGED <<keychain, leaving, cookies, bounds>>

\* The log-in is refused or times out, then maybe served all the same.  A
\* refusal brings no session with it: the anonymous cookie it is answered
\* under is moments old, and nothing deletes such a row.
AttemptFails ==
  /\ attempt.step \in {"sent", "answered"}
  /\ \/ UNCHANGED cookies
     \/ /\ attempt.step = "sent"
        /\ cookies' = [cookies EXCEPT ![attempt.cookie] = Gone]
  /\ Recovered([c \in Calls |-> WithoutSession(calls[c])])
  /\ UNCHANGED <<redux, keychain, leaving, bounds>>

\* The refused call takes the anonymous session it was given.
GiveUp(c) ==
  /\ calls[c].step = "refused"
  /\ Downgrade(c)
  /\ UNCHANGED <<keychain, waiting, attempt, leaving, cookies, bounds>>
-----------------------------------------------------------------------------
Recovery == ReadCredentials \/ TakeAttempt \/ AttemptFails

ClientStep(c) ==
  TakeAnswer(c) \/ TakeInvalidation(c) \/ GiveUp(c) \/ TimeOut(c)

Next ==
  \/ \E c \in Others : StartCall(c)
  \/ \E u \in Users : StartLogIn(u)
  \/ \E keep \in BOOLEAN : StartLogOut(keep)
  \/ \E c \in Calls : ServePlain(c)
  \/ ServeLogIn \/ ServeLogOut \/ ServeAttempt
  \/ \E k \in DOMAIN cookies : Invalidate(k)
  \/ \E c \in Calls : ClientStep(c)
  \/ FinishLogIn \/ LogOutGivesUp \/ Recovery

\* The client goes on, by its timers if need be; of the keyserver nothing is
\* assumed.
Fairness ==
  /\ \A c \in Calls : WF_vars(ClientStep(c))
  /\ WF_vars(FinishLogIn) /\ WF_vars(LogOutGivesUp) /\ WF_vars(Recovery)

Spec == Init /\ [][Next]_vars /\ Fairness
-----------------------------------------------------------------------------
(* Properties.                                                             *)

\* Type invariant of the client's session, its calls and the cookies.
TypeOK ==
  LET Cookies == 0..Len(cookies)
      Sessions == [user : Anyone, cookie : Cookies]
  IN
  /\ redux \in [cookie : Cookies \ {0}, user : Anyone, dataLoaded : BOOLEAN]
  /\ keychain \in Anyone
  /\ calls \in [Calls ->
       [step : {"none", "parked", "sent", "answered", "abandoned", "storing",
                "stuck", "recovering", "refused"},
        user : Anyone, cookie : Cookies, as : Anyone,
        answer : [user : Anyone, cookie : Cookies, invalidated : BOOLEAN]]]
  /\ waiting \in BOOLEAN
  /\ attempt \in [step : {"none", "reading", "sent", "answered"},
                  user : Anyone, cookie : Cookies]
  /\ leaving \in Sessions
  /\ cookies \in Seq(Anyone \cup {Gone})
  /\ started \in 0..MaxCalls
  /\ invalidations \in 0..MaxInvalidations

\* The module's globals agree: calls wait for a recovery only while exactly
\* one of them is carrying it out (action-utils.js).
OneRecovery ==
  /\ waiting <=> attempt.step # "none"
  /\ waiting <=> \E c \in Calls : calls[c].step = "recovering"
  /\ \A c, d \in Calls :
       calls[c].step = "recovering" /\ calls[d].step = "recovering" => c = d
  /\ (\E c \in Calls : calls[c].step \in {"parked", "stuck"}) => waiting

\* Whoever is logged in holds a cookie of his own, be it one the keyserver
\* has dropped: no late answer mixes the user of one session with the cookie
\* of another (invalidSessionDowngrade, invalidSessionRecovery).
CookieIsUsers ==
  redux.user # NoUser => cookies[redux.cookie] \in {redux.user, Gone}

\* A user whose cookie is good is logged out or replaced by no late answer,
\* only by the log-out he has asked for (account-utils.js).
ValidSessionSurvives ==
  [][redux.user # NoUser /\ redux'.user # redux.user =>
       \/ cookies[redux.cookie] # redux.user
       \/ leaving.user = redux.user]_vars

\* When a log-out settles the client is logged out, whatever a recovery under
\* way has brought meanwhile, and it takes a log-in by hand to change that.
LogOutStays ==
  [][/\ leaving # NotLeaving /\ leaving' = NotLeaving => redux'.user = NoUser
     /\ redux.user = NoUser /\ redux'.user # NoUser =>
          calls["log_in"].step \in {"answered", "storing"}]_vars

\* Every call ends: none waits for ever for a recovery, nor a recovery for
\* the calls it holds up.
CallsSettle ==
  \A c \in Calls :
    calls[c].step \in {"parked", "sent", "stuck", "recovering", "refused"}
      ~> calls[c].step \in {"none", "abandoned", "storing"}

=============================================================================
