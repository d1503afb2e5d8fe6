------------------------ MODULE CookieRecoveryProofs ------------------------
(***************************************************************************)
(* Proofs about CookieRecovery: its types, its invariants OneRecovery and  *)
(* CookieIsUsers, and what no step may do to a session, ValidSessionSur-   *)
(* vives and LogOutStays.  They rest on where a cookie the client has been *)
(* given may be at each moment: the cookie a log-in has just brought is    *)
(* nobody else's, so that no late answer can be about it.                  *)
(***************************************************************************)
EXTENDS CookieRecovery, SequenceTheorems, TLAPS

LogIn  == calls["log_in"]
LogOut == calls["log_out"]

\* Cookie k is the user's, unless it has been dropped.
Owned(k, user) == k \in DOMAIN cookies /\ cookies[k] \in {user, Gone}

\* Nobody but Redux and the log-in that has brought it knows cookie k.
Fresh(k) ==
  /\ k # 0
  /\ attempt.cookie # k
  /\ \A c \in Calls : /\ calls[c].cookie # k
                      /\ c # "log_in" => calls[c].answer.cookie # k

\* Has the keyserver told this call that its cookie is gone?
Refused(call) ==
  \/ call.step = "answered" /\ call.answer.invalidated
  \/ call.step \in {"stuck", "recovering", "refused"}

\* A call is bound to a cookie.  An answer that brings an anonymous session
\* means that this cookie is gone; only log_in brings a user's.
CallOK(c) ==
  /\ calls[c].step # "none" => calls[c].cookie # 0
  /\ calls[c].step = "storing" => c = "log_in"
  /\ calls[c].step = "answered" /\ calls[c].answer.user # NoUser => c = "log_in"
  /\ calls[c].step = "answered" /\ calls[c].answer.cookie # 0
     /\ calls[c].answer.user = NoUser => cookies[calls[c].cookie] = Gone
  /\ Refused(calls[c]) => /\ calls[c].answer.user = NoUser
                          /\ calls[c].answer.cookie # 0
                          /\ cookies[calls[c].cookie] = Gone

CallsOK == \A c \in Calls : CallOK(c)

\* The log-in a recovery makes: whose it is, and whose the cookie it brings.
AttemptOK ==
  /\ attempt.step # "none" => attempt.cookie # 0
  /\ attempt.step \in {"sent", "answered"} => attempt.user \in Users
  /\ attempt.step = "answered" => Owned(attempt.cookie, attempt.user)

\* Data is loaded for a user only, and not while he is logging out; until he
\* is logged out he stays in the session he is leaving.
SessionOK ==
  /\ redux.dataLoaded => redux.user # NoUser
  /\ leaving # NotLeaving =>
       /\ ~redux.dataLoaded
       /\ redux.user # NoUser =>
            redux.user = leaving.user /\ redux.cookie = leaving.cookie

\* A log-in under way keeps the client from any other change of user.
LoggingIn ==
  /\ LogIn.step # "none" => LogIn.as \in Users /\ leaving = NotLeaving
  /\ LogIn.step \notin {"none", "storing"} => redux.user = NoUser
  /\ LogIn.step = "answered" /\ LogIn.answer.user # NoUser =>
       /\ LogIn.answer.user = LogIn.as
       /\ Owned(LogIn.answer.cookie, LogIn.as)
       /\ Fresh(LogIn.answer.cookie)
       /\ redux.cookie # LogIn.answer.cookie
  /\ LogIn.step = "storing" =>
       /\ redux.user = LogIn.as /\ ~redux.dataLoaded
       /\ LogIn.answer.user # NoUser
       /\ Fresh(redux.cookie)

\* The inductive invariant.
Inv ==
  /\ TypeOK /\ OneRecovery /\ CookieIsUsers
  /\ CallsOK /\ AttemptOK /\ SessionOK /\ LoggingIn
-----------------------------------------------------------------------------
(* Lemmas about types, cookies and calls.                                  *)

Steps == {"none", "parked", "sent", "answered", "abandoned", "storing",
          "stuck", "recovering", "refused"}

AnswerType(n) == [user : Anyone, cookie : 0..n, invalidated : BOOLEAN]
CallType(n)   == [step : Steps, user : Anyone, cookie : 0..n, as : Anyone,
                  answer : AnswerType(n)]

\* The part of the types that depends on n, the cookies handed out so far.
TypesFor(n) ==
  /\ redux \in [cookie : (0..n) \ {0}, user : Anyone, dataLoaded : BOOLEAN]
  /\ calls \in [Calls -> CallType(n)]
  /\ attempt \in [step : {"none", "reading", "sent", "answered"},
                  user : Anyone, cookie : 0..n]
  /\ leaving \in [user : Anyone, cookie : 0..n]

\* The rest of it.
OtherTypes ==
  /\ keychain \in Anyone
  /\ waiting \in BOOLEAN
  /\ cookies \in Seq(Anyone \cup {Gone})
  /\ started \in 0..MaxCalls
  /\ invalidations \in 0..MaxInvalidations

\* The type invariant in these two parts.
LEMMA Typing == TypeOK <=> TypesFor(Len(cookies)) /\ OtherTypes
  BY DEF TypeOK, TypesFor, OtherTypes, CallType, AnswerType, Steps

\* Cookies stay what they are or are dropped, and only new ones are added.
Grown ==
  /\ cookies \in Seq(Anyone \cup {Gone}) /\ cookies' \in Seq(Anyone \cup {Gone})
  /\ Len(cookies) \in Nat /\ Len(cookies') \in Nat
  /\ DOMAIN cookies = 1..Len(cookies) /\ DOMAIN cookies' = 1..Len(cookies')
  /\ Len(cookies) <= Len(cookies')
  /\ \A k \in DOMAIN cookies : cookies'[k] \in {cookies[k], Gone}

\* An unchanged table has grown in this sense.
LEMMA SameCookies ==
  ASSUME TypeOK, cookies' = cookies
  PROVE  Grown
  BY Typing DEF OtherTypes, Grown

Without(old) == [cookies EXCEPT ![old] = Gone]

\* Dropping cookie old, should it be in the table.
LEMMA Dropping ==
  ASSUME TypeOK, NEW old
  PROVE  /\ Without(old) \in Seq(Anyone \cup {Gone})
         /\ Len(Without(old)) = Len(cookies)
         /\ \A k \in DOMAIN cookies :
              Without(old)[k] = IF k = old THEN Gone ELSE cookies[k]
<1> USE DEF Without
<1>1. cookies \in Seq(Anyone \cup {Gone})
  BY Typing DEF OtherTypes
<1>2. CASE old \in 1..Len(cookies)
  BY <1>1, <1>2, ExceptSeq
<1>3. CASE old \notin 1..Len(cookies)
  <2>1. DOMAIN cookies = 1..Len(cookies)
    BY <1>1
  <2>2. cookies = [k \in DOMAIN cookies |-> cookies[k]]
    BY <1>1
  <2>3. [cookies EXCEPT ![old] = Gone] = cookies
    BY <1>3, <2>1, <2>2
  <2>. QED
    BY <1>1, <1>3, <2>1, <2>3
<1>. QED
  BY <1>2, <1>3

\* Exchanging a cookie for a new one.
LEMMA ExchangedCookies ==
  ASSUME TypeOK, NEW old, NEW user \in Anyone, cookies' = Exchanged(old, user)
  PROVE  /\ Grown
         /\ Len(cookies') = Len(cookies) + 1
         /\ cookies'[Len(cookies')] = user
         /\ old \in DOMAIN cookies => cookies'[old] = Gone
<1>1. cookies \in Seq(Anyone \cup {Gone})
  BY Typing DEF OtherTypes
<1>2. cookies' = Append(Without(old), user)
  BY DEF Exchanged, Without
<1>. QED
  BY <1>1, <1>2, Dropping DEF Grown

\* Adding an anonymous one.
LEMMA AppendedCookie ==
  ASSUME TypeOK, cookies' = Append(cookies, NoUser)
  PROVE  /\ Grown
         /\ Len(cookies') = Len(cookies) + 1
         /\ cookies'[Len(cookies')] = NoUser
  BY Typing DEF OtherTypes, Grown, Anyone

\* Dropping one.
LEMMA DroppedCookie ==
  ASSUME TypeOK, NEW k, cookies' = Without(k)
  PROVE  Grown
<1>1. cookies \in Seq(Anyone \cup {Gone})
  BY Typing DEF OtherTypes
<1>. QED
  BY <1>1, Dropping DEF Grown

\* Types of values are types of values later.
LEMMA TypesGrow ==
  ASSUME NEW n \in Nat, NEW m \in Nat, n <= m
  PROVE  0..n \subseteq 0..m /\ CallType(n) \subseteq CallType(m)
  BY DEF CallType, AnswerType

\* What a reply does to the call it is for.
LEMMA ReplyLemma ==
  ASSUME TypeOK, NEW c \in Calls, Serving(c), NEW m \in Nat,
         Len(cookies) <= m, NEW answer \in AnswerType(m), Reply(c, answer)
  PROVE  /\ calls' \in [Calls -> CallType(m)]
         /\ \A d \in Calls : d # c => calls'[d] = calls[d]
         /\ calls[c].step \in {"sent", "abandoned"}
         /\ \/ calls'[c] = Idle
            \/ /\ calls[c].step = "sent" /\ calls'[c].step = "answered"
               /\ calls'[c].answer = answer
               /\ calls'[c].cookie = calls[c].cookie
               /\ calls'[c].user = calls[c].user
               /\ calls'[c].as = calls[c].as
<1>1. calls \in [Calls -> CallType(Len(cookies))] /\ Len(cookies) \in Nat
  BY Typing DEF TypesFor, OtherTypes
<1>2. calls \in [Calls -> CallType(m)]
  BY <1>1, TypesGrow
<1>3. Idle \in CallType(m)
  BY DEF Idle, CallType, AnswerType, NoAnswer, Anyone, Steps
<1>4. [calls[c] EXCEPT !.step = "answered", !.answer = answer] \in CallType(m)
  BY <1>2 DEF CallType, Steps
<1>5. calls[c] \in CallType(m)
  BY <1>2
<1>. QED
  BY <1>2, <1>3, <1>4, <1>5 DEF Reply, Serving, CallType

\* OneRecovery is about the steps of calls only.
LEMMA RecoveryKept ==
  ASSUME OneRecovery, waiting' = waiting, attempt'.step = attempt.step,
         \A c \in Calls :
           /\ calls'[c].step = "recovering" <=> calls[c].step = "recovering"
           /\ calls'[c].step \in {"parked", "stuck"} =>
                waiting \/ calls[c].step \in {"parked", "stuck"}
  PROVE  OneRecovery'
  BY DEF OneRecovery

\* A call that stays what it was stays right, whatever becomes of cookies.
LEMMA CallKept ==
  ASSUME Inv, Grown, NEW c \in Calls, calls'[c] = calls[c]
  PROVE  CallOK(c)'
<1>1. calls[c].cookie \in 0..Len(cookies)
  BY Typing DEF Inv, TypesFor, CallType
<1>2. cookies[calls[c].cookie] = Gone /\ calls[c].cookie # 0
        => cookies'[calls[c].cookie] = Gone
  BY <1>1 DEF Grown
<1>. QED
  BY <1>2 DEF Inv, CallsOK, CallOK, Refused

\* A call that is over is right.
LEMMA CallOver ==
  ASSUME NEW c \in Calls, calls'[c] = Idle
  PROVE  CallOK(c)'
  BY DEF CallOK, Refused, Idle, NoAnswer

-----------------------------------------------------------------------------
(* The client makes calls.                                                 *)

\* A call just made is bound to the session Redux holds.
LEMMA BegunLemma ==
  ASSUME TypeOK, NEW as \in Anyone
  PROVE  /\ Begun(as) \in CallType(Len(cookies))
         /\ Begun(as).step = IF waiting THEN "parked" ELSE "sent"
         /\ Begun(as).cookie = redux.cookie /\ Begun(as).cookie # 0
         /\ Begun(as).answer = NoAnswer
         /\ Begun(as).as = as
<1> DEFINE step == IF waiting THEN "parked" ELSE "sent"
           call == [step |-> step, user |-> redux.user,
                    cookie |-> redux.cookie, as |-> as, answer |-> NoAnswer]
<1>1. /\ redux.user \in Anyone /\ redux.cookie \in 0..Len(cookies)
      /\ redux.cookie # 0 /\ Len(cookies) \in Nat
  BY Typing DEF TypesFor, OtherTypes
<1>2. NoAnswer \in AnswerType(Len(cookies))
  BY <1>1 DEF NoAnswer, AnswerType, Anyone
<1>3. step \in Steps
  BY DEF Steps
<1>4. Begun(as) = [Idle EXCEPT !.step = step, !.user = redux.user,
                               !.cookie = redux.cookie, !.as = as]
  BY DEF Begun
<1> HIDE DEF step
<1>5. Begun(as) = call
  BY <1>4 DEF Idle
<1>6. call \in CallType(Len(cookies))
  BY <1>1, <1>2, <1>3 DEF CallType
<1>7. Begun(as).step = step
  BY <1>5
<1>. QED
  BY <1>1, <1>5, <1>6, <1>7 DEF step

\* What all ways to make a call have in common.
LEMMA MakeLemma ==
  ASSUME Inv, NEW c \in Calls, NEW as \in Anyone, Make(c, as)
  PROVE  /\ calls[c] = Idle
         /\ calls' = [calls EXCEPT ![c] = Begun(as)]
         /\ calls' \in [Calls -> CallType(Len(cookies))]
         /\ started' \in 0..MaxCalls
         /\ Grown /\ OneRecovery' /\ CallsOK' /\ AttemptOK'
<1>1. TypeOK /\ Grown
  BY SameCookies DEF Inv, Make
<1>2. calls \in [Calls -> CallType(Len(cookies))]
  BY <1>1, Typing DEF TypesFor
<1>3. /\ calls' \in [Calls -> CallType(Len(cookies))]
      /\ \A d \in Calls : calls'[d] = IF d = c THEN Begun(as) ELSE calls[d]
  BY <1>1, <1>2, BegunLemma DEF Make
<1>4. OneRecovery'
  <2>1. Begun(as).step \in {"parked", "sent"}
        /\ (Begun(as).step = "parked" => waiting)
    BY <1>1, BegunLemma
  <2>2. calls[c].step = "none"
    BY DEF Make, Idle
  <2>. QED
    BY <1>3, <2>1, <2>2, RecoveryKept DEF Inv, Make
<1>5. ASSUME NEW d \in Calls PROVE CallOK(d)'
  <2>1. CASE d # c
    BY <1>1, <1>3, <2>1, CallKept
  <2>2. CASE d = c
    BY <1>1, <1>3, <2>2, BegunLemma, ZenonT(30) DEF CallOK, Refused, NoAnswer
  <2>. QED
    BY <2>1, <2>2
<1>6. started' \in 0..MaxCalls
  BY CookieAssumption, <1>1, Typing DEF OtherTypes, Make
<1>7. AttemptOK'
  BY DEF Inv, AttemptOK, Owned, Make
<1>. QED
  BY <1>1, <1>3, <1>4, <1>5, <1>6, <1>7 DEF CallsOK, Make

\* Another call leaves a log-in alone, and is not bound to its new cookie.
LEMMA StartCallLemma ==
  ASSUME Inv, NEW c \in Others, StartCall(c)
  PROVE  Inv'
<1>1. c \in Calls /\ c # "log_in" /\ NoUser \in Anyone /\ "log_in" \in Calls
  BY CookieAssumption DEF Calls, Anyone
<1>2. Make(c, NoUser) /\ UNCHANGED <<redux, keychain, leaving>>
  BY DEF StartCall
<1>3. /\ calls' = [calls EXCEPT ![c] = Begun(NoUser)]
      /\ calls' \in [Calls -> CallType(Len(cookies))]
      /\ started' \in 0..MaxCalls
      /\ OneRecovery' /\ CallsOK' /\ AttemptOK'
  BY <1>1, <1>2, MakeLemma
<1>4. TypeOK'
  <2>1. TypesFor(Len(cookies)) /\ OtherTypes
    BY Typing DEF Inv
  <2>2. TypesFor(Len(cookies))' /\ OtherTypes'
    BY <1>2, <1>3, <2>1 DEF TypesFor, OtherTypes, Make
  <2>. QED
    BY <2>2, Typing, PTL
<1>5. CookieIsUsers' /\ SessionOK'
  BY <1>2 DEF Inv, CookieIsUsers, SessionOK, Make
<1>6. LoggingIn'
  <2>1. calls \in [Calls -> CallType(Len(cookies))]
    BY Typing DEF Inv, TypesFor
  <2>2. /\ LogIn' = LogIn
        /\ calls'[c].cookie = redux.cookie /\ calls'[c].answer.cookie = 0
        /\ \A d \in Calls : d # c => calls'[d] = calls[d]
    BY <1>1, <1>3, <2>1, BegunLemma DEF LogIn, Inv, NoAnswer
  <2>3. LogIn.step # "storing"
    BY CookieAssumption, <1>1 DEF StartCall, Inv, LoggingIn
  <2>4. UNCHANGED <<redux, attempt, leaving, cookies>>
    BY <1>2 DEF Make
  <2>. QED
    BY <2>2, <2>3, <2>4 DEF Inv, LoggingIn, Owned, Fresh
<1>. QED
  BY <1>3, <1>4, <1>5, <1>6 DEF Inv

\* A log-in starts when nobody is logged in.
LEMMA StartLogInLemma ==
  ASSUME Inv, NEW u \in Users, StartLogIn(u)
  PROVE  Inv'
<1>1. "log_in" \in Calls /\ u \in Anyone
  BY DEF Calls, Anyone
<1>2. Make("log_in", u) /\ UNCHANGED <<redux, keychain, leaving>>
  BY DEF StartLogIn
<1>3. /\ calls' = [calls EXCEPT !["log_in"] = Begun(u)]
      /\ calls' \in [Calls -> CallType(Len(cookies))]
      /\ started' \in 0..MaxCalls
      /\ OneRecovery' /\ CallsOK' /\ AttemptOK'
  BY <1>1, <1>2, MakeLemma
<1>4. TypeOK'
  <2>1. TypesFor(Len(cookies)) /\ OtherTypes
    BY Typing DEF Inv
  <2>2. TypesFor(Len(cookies))' /\ OtherTypes'
    BY <1>2, <1>3, <2>1 DEF TypesFor, OtherTypes, Make
  <2>. QED
    BY <2>2, Typing, PTL
<1>5. CookieIsUsers' /\ SessionOK'
  BY <1>2 DEF Inv, CookieIsUsers, SessionOK, Make
<1>6. LoggingIn'
  <2>1. calls \in [Calls -> CallType(Len(cookies))]
    BY Typing DEF Inv, TypesFor
  <2>2. LogIn'.step \in {"parked", "sent"} /\ LogIn'.as = u
    BY <1>1, <1>3, <2>1, BegunLemma DEF LogIn, Inv
  <2>. QED
    BY <1>2, <2>2 DEF StartLogIn, LoggingIn
<1>. QED
  BY <1>3, <1>4, <1>5, <1>6 DEF Inv

\* A log-out starts in a session whose data is loaded, hence in no log-in.
LEMMA StartLogOutLemma ==
  ASSUME Inv, NEW keep \in BOOLEAN, StartLogOut(keep)
  PROVE  Inv'
<1>1. "log_out" \in Calls /\ NoUser \in Anyone
  BY DEF Calls, Anyone
<1>2. Make("log_out", NoUser)
  BY DEF StartLogOut
<1>3. /\ calls' = [calls EXCEPT !["log_out"] = Begun(NoUser)]
      /\ calls' \in [Calls -> CallType(Len(cookies))]
      /\ started' \in 0..MaxCalls
      /\ OneRecovery' /\ CallsOK' /\ AttemptOK'
  BY <1>1, <1>2, MakeLemma
<1>4. TypeOK'
  <2>1. TypesFor(Len(cookies)) /\ OtherTypes
    BY Typing DEF Inv
  <2>2. TypesFor(Len(cookies))' /\ OtherTypes'
    BY <1>1, <1>2, <1>3, <2>1 DEF TypesFor, OtherTypes, Make, StartLogOut
  <2>. QED
    BY <2>2, Typing, PTL
<1>5. /\ redux' = [redux EXCEPT !.dataLoaded = FALSE]
      /\ leaving' = [user |-> redux.user, cookie |-> redux.cookie]
      /\ redux \in [cookie : Nat, user : Anyone, dataLoaded : BOOLEAN]
  BY Typing DEF StartLogOut, Inv, TypesFor
<1>6. CookieIsUsers' /\ SessionOK'
  BY <1>2, <1>5 DEF Inv, CookieIsUsers, SessionOK, Make
<1>7. LoggingIn'
  <2>1. calls \in [Calls -> CallType(Len(cookies))]
    BY Typing DEF Inv, TypesFor
  <2>2. LogIn' = LogIn
    BY <1>3, <2>1 DEF LogIn
  <2>3. LogIn.step = "none"
    BY DEF StartLogOut, Inv, LoggingIn
  <2>. QED
    BY <2>2, <2>3 DEF LoggingIn
<1>. QED
  BY <1>3, <1>4, <1>6, <1>7 DEF Inv

-----------------------------------------------------------------------------
(* The keyserver serves them.                                              *)

\* What holds of the sessions of Redux and of a recovery whatever becomes of
\* the table.
LEMMA SessionsKept ==
  ASSUME Inv, Grown, UNCHANGED <<redux, attempt, leaving>>
  PROVE  CookieIsUsers' /\ AttemptOK' /\ SessionOK'
<1>1. redux.cookie \in DOMAIN cookies
  BY Typing DEF Inv, TypesFor, Grown
<1>2. CookieIsUsers'
  BY <1>1 DEF Inv, Grown, CookieIsUsers
<1>3. AttemptOK'
  BY DEF Inv, Grown, AttemptOK, Owned
<1>4. SessionOK'
  BY DEF Inv, SessionOK
<1>. QED
  BY <1>2, <1>3, <1>4

\* The answers a keyserver may give call c: it brings a cookie never used
\* before, for the user of a log-in, or, when the cookie of the call is gone,
\* for nobody.
Honest(c, answer) ==
  /\ answer \in AnswerType(Len(cookies'))
  /\ answer.cookie \in {0, Len(cookies) + 1}
  /\ answer.invalidated => answer.user = NoUser /\ answer.cookie # 0
  /\ answer.user = NoUser /\ answer.cookie # 0 =>
       cookies'[calls[c].cookie] = Gone
  /\ answer.user # NoUser =>
       /\ c = "log_in" /\ answer.user = LogIn.as
       /\ answer.cookie \in DOMAIN cookies'
       /\ cookies'[answer.cookie] \in {LogIn.as, Gone}
       /\ answer.cookie # 0

\* A call answered in this way preserves the invariant.
LEMMA ServedLemma ==
  ASSUME Inv, NEW c \in Calls, NEW answer, Serving(c), Grown,
         Honest(c, answer), Reply(c, answer),
         UNCHANGED <<redux, keychain, waiting, attempt, leaving, bounds>>
  PROVE  Inv'
<1>1. /\ Len(cookies) \in Nat /\ Len(cookies') \in Nat
      /\ Len(cookies) <= Len(cookies')
      /\ DOMAIN cookies = 1..Len(cookies)
  BY DEF Grown
<1>2. TypesFor(Len(cookies)) /\ OtherTypes /\ TypeOK
  BY Typing DEF Inv
<1>3. /\ calls' \in [Calls -> CallType(Len(cookies'))]
      /\ \A d \in Calls : d # c => calls'[d] = calls[d]
      /\ calls[c].step \in {"sent", "abandoned"}
      /\ \/ calls'[c] = Idle
         \/ /\ calls[c].step = "sent" /\ calls'[c].step = "answered"
            /\ calls'[c].answer = answer
            /\ calls'[c].cookie = calls[c].cookie
            /\ calls'[c].user = calls[c].user
            /\ calls'[c].as = calls[c].as
  <2>1. answer \in AnswerType(Len(cookies'))
    BY DEF Honest
  <2>. QED
    BY <1>1, <1>2, <2>1, ReplyLemma
<1>4. TypeOK'
  <2>1. 0..Len(cookies) \subseteq 0..Len(cookies')
    BY <1>1
  <2>2. TypesFor(Len(cookies))'
    BY <1>2, <1>3, <2>1 DEF TypesFor
  <2>3. OtherTypes'
    BY <1>2 DEF OtherTypes, Grown, bounds
  <2>. QED
    BY <2>2, <2>3, Typing, PTL
<1>5. OneRecovery'
  BY <1>3, RecoveryKept DEF Inv, Idle
<1>6. CookieIsUsers' /\ AttemptOK' /\ SessionOK'
  BY SessionsKept
<1>7. ASSUME NEW d \in Calls PROVE CallOK(d)'
  <2>1. CASE d # c
    BY <1>3, <2>1, CallKept
  <2>2. CASE d = c /\ calls'[c] = Idle
    BY <2>2, CallOver
  <2>3. CASE d = c /\ calls'[c] # Idle
    BY <1>3, <2>3 DEF Inv, CallsOK, CallOK, Refused, Honest
  <2>. QED
    BY <2>1, <2>2, <2>3
<1>8. LoggingIn'
  <2>1. "log_in" \in Calls
    BY DEF Calls
  <2>3. ASSUME NEW k, c = "log_in", k = Len(cookies) + 1
        PROVE  Fresh(k)'
    <3>1. attempt.cookie \in 0..Len(cookies) /\ k \notin 0..Len(cookies)
      BY <1>1, <1>2, <2>3 DEF TypesFor
    <3>2. \A d \in Calls : calls[d].cookie \in 0..Len(cookies)
                        /\ calls[d].answer.cookie \in 0..Len(cookies)
      BY <1>2 DEF TypesFor, CallType, AnswerType
    <3>. QED
      BY <1>1, <1>3, <2>3, <3>1, <3>2 DEF Fresh, Idle, NoAnswer
  <2>4. redux.cookie \in 1..Len(cookies)
    BY <1>1, <1>2 DEF TypesFor
  <2>5. CASE c # "log_in"
    <3>1. LogIn' = LogIn
      BY <1>3, <2>1, <2>5 DEF LogIn
    <3>2. LogIn.step = "answered" /\ LogIn.answer.user # NoUser =>
            /\ LogIn.answer.cookie \in 1..Len(cookies)
            /\ Owned(LogIn.answer.cookie, LogIn.as)'
      BY <1>1, <3>1 DEF Inv, LoggingIn, Owned, Grown
    <3>3. LogIn.step = "answered" /\ LogIn.answer.user # NoUser =>
            Fresh(LogIn.answer.cookie)'
      <4>1. SUFFICES ASSUME LogIn.step = "answered", LogIn.answer.user # NoUser
                     PROVE  Fresh(LogIn.answer.cookie)'
        OBVIOUS
      <4>2. LogIn.answer.cookie \in 1..Len(cookies) /\ Fresh(LogIn.answer.cookie)
        BY <3>2, <4>1 DEF Inv, LoggingIn
      <4>. QED
        BY <1>1, <1>3, <3>1, <4>2 DEF Fresh, Honest, Idle, NoAnswer
    <3>4. LogIn.step = "storing" => Fresh(redux.cookie)'
      BY <1>1, <1>3, <2>4 DEF Inv, LoggingIn, Fresh, Honest, Idle, NoAnswer
    <3>. QED
      BY <3>1, <3>2, <3>3, <3>4 DEF Inv, LoggingIn
  <2>6. CASE c = "log_in" /\ calls'[c] = Idle
    BY <2>6 DEF LoggingIn, LogIn, Idle
  <2>7. CASE c = "log_in" /\ calls'[c] # Idle
    <3>1. LogIn'.step = "answered" /\ LogIn'.answer = answer /\ LogIn.step = "sent"
          /\ LogIn'.as = LogIn.as
      BY <1>3, <2>7 DEF LogIn
    <3>2. answer.user # NoUser =>
            /\ answer.user = LogIn.as
            /\ Owned(answer.cookie, LogIn.as)'
            /\ answer.cookie = Len(cookies) + 1
      BY <3>1 DEF Honest, Owned
    <3>3. answer.user # NoUser => Fresh(answer.cookie)'
      BY <2>3, <2>7, <3>2
    <3>4. redux.cookie # Len(cookies) + 1
      BY <1>1, <2>4
    <3>. QED
      BY <3>1, <3>2, <3>3, <3>4 DEF Inv, LoggingIn
  <2>. QED
    BY <2>5, <2>6, <2>7
<1>. QED
  BY <1>4, <1>5, <1>6, <1>7, <1>8 DEF Inv, CallsOK

\* Rows added by the keyserver are the cookies handed out next.
LEMMA ServePlainLemma ==
  ASSUME Inv, NEW c \in Calls, ServePlain(c)
  PROVE  Inv'
<1> DEFINE k == calls[c].cookie
           anonymous == [user |-> NoUser, cookie |-> NewCookie,
                         invalidated |-> TRUE]
<1>1. /\ c # "log_out" /\ Serving(c)
      /\ UNCHANGED <<redux, keychain, waiting, attempt, leaving, bounds>>
  BY DEF ServePlain
<1>2. TypeOK /\ Len(cookies) \in Nat
  BY Typing DEF Inv, OtherTypes
<1>3. k \in DOMAIN cookies
  BY <1>1, <1>2, Typing DEF TypesFor, OtherTypes, CallType, Serving, Inv,
     CallsOK, CallOK
<1>4. CASE cookies[k] = Gone
  <2>1. cookies' = Append(cookies, NoUser) /\ Reply(c, anonymous)
    BY <1>4 DEF ServePlain
  <2>2. Grown /\ Len(cookies') = Len(cookies) + 1
    BY <1>2, <2>1, AppendedCookie
  <2>3. cookies'[k] = Gone
    BY <1>3, <1>4, <2>2 DEF Grown
  <2>4. Honest(c, anonymous)
    BY <1>2, <2>2, <2>3 DEF Honest, AnswerType, NewCookie, Anyone
  <2>. QED
    BY <1>1, <2>1, <2>2, <2>4, ServedLemma
<1>5. CASE cookies[k] # Gone
  <2>1. cookies' = cookies /\ Reply(c, NoAnswer)
    BY <1>5 DEF ServePlain
  <2>2. Grown /\ Honest(c, NoAnswer)
    BY <1>2, <2>1, SameCookies DEF Honest, AnswerType, NoAnswer, Anyone
  <2>. QED
    BY <1>1, <2>1, <2>2, ServedLemma
<1>. QED
  BY <1>4, <1>5

\* A log-in gets a cookie of its user's.
LEMMA ServeLogInLemma ==
  ASSUME Inv, ServeLogIn
  PROVE  Inv'
<1> DEFINE answer == [user |-> LogIn.as, cookie |-> NewCookie,
                      invalidated |-> FALSE]
<1>1. /\ "log_in" \in Calls /\ Serving("log_in")
      /\ cookies' = Exchanged(LogIn.cookie, LogIn.as)
      /\ Reply("log_in", answer)
      /\ UNCHANGED <<redux, keychain, waiting, attempt, leaving, bounds>>
  BY DEF ServeLogIn, Calls, LogIn
<1>2. TypeOK /\ Len(cookies) \in Nat
  BY Typing DEF Inv, OtherTypes
<1>3. LogIn.as \in Users /\ LogIn.as # NoUser /\ LogIn.as \in Anyone
  BY <1>1, CookieAssumption DEF Inv, LoggingIn, Serving, LogIn, Anyone
<1>4. /\ Grown /\ Len(cookies') = Len(cookies) + 1
      /\ cookies'[Len(cookies')] = LogIn.as
  BY <1>1, <1>2, <1>3, ExchangedCookies
<1>5. Honest("log_in", answer)
  BY <1>2, <1>3, <1>4 DEF Honest, AnswerType, NewCookie, Grown
<1>. QED
  BY <1>1, <1>4, <1>5, ServedLemma

\* A log-out gets an anonymous cookie for the one it gives up.
LEMMA ServeLogOutLemma ==
  ASSUME Inv, ServeLogOut
  PROVE  Inv'
<1> DEFINE k == calls["log_out"].cookie
           answer == [user |-> NoUser, cookie |-> NewCookie,
                      invalidated |-> FALSE]
<1>1. /\ "log_out" \in Calls /\ Serving("log_out")
      /\ UNCHANGED <<redux, keychain, waiting, attempt, leaving, bounds>>
  BY DEF ServeLogOut, Calls
<1>2. TypeOK /\ Len(cookies) \in Nat /\ NoUser \in Anyone
  BY Typing DEF Inv, OtherTypes, Anyone
<1>3. k \in DOMAIN cookies
  BY <1>1, <1>2, Typing DEF TypesFor, OtherTypes, CallType, Serving, Inv,
     CallsOK, CallOK
<1>4. CASE cookies[k] # NoUser
  <2>1. cookies' = Exchanged(k, NoUser) /\ Reply("log_out", answer)
    BY <1>4 DEF ServeLogOut
  <2>2. Grown /\ Len(cookies') = Len(cookies) + 1 /\ cookies'[k] = Gone
    BY <1>2, <1>3, <2>1, ExchangedCookies
  <2>3. Honest("log_out", answer)
    BY <1>2, <2>2 DEF Honest, AnswerType, NewCookie
  <2>. QED
    BY <1>1, <2>1, <2>2, <2>3, ServedLemma
<1>5. CASE cookies[k] = NoUser
  <2>1. cookies' = cookies /\ Reply("log_out", NoAnswer)
    BY <1>5 DEF ServeLogOut
  <2>2. Grown /\ Honest("log_out", NoAnswer)
    BY <1>2, <2>1, SameCookies DEF Honest, AnswerType, NoAnswer
  <2>. QED
    BY <1>1, <2>1, <2>2, ServedLemma
<1>. QED
  BY <1>4, <1>5

\* When only the table changes, whatever was known of cookies stays true.
LEMMA TableLemma ==
  ASSUME Inv, Grown, Len(cookies') = Len(cookies), invalidations' \in 0..MaxInvalidations,
         UNCHANGED <<redux, keychain, calls, waiting, attempt, leaving, started>>
  PROVE  Inv'
<1>1. TypeOK'
  <2>1. TypesFor(Len(cookies)) /\ OtherTypes
    BY Typing DEF Inv
  <2>2. TypesFor(Len(cookies))' /\ OtherTypes'
    BY <2>1 DEF TypesFor, OtherTypes, Grown
  <2>. QED
    BY <2>2, Typing, PTL
<1>2. CookieIsUsers' /\ AttemptOK' /\ SessionOK'
  BY SessionsKept
<1>3. CallsOK'
  BY CallKept DEF CallsOK
<1>4. OneRecovery'
  BY RecoveryKept DEF Inv
<1>5. LoggingIn'
  BY DEF Inv, LoggingIn, LogIn, Fresh, Owned, Grown
<1>. QED
  BY <1>1, <1>2, <1>3, <1>4, <1>5 DEF Inv

\* A cookie that is dropped is no longer anybody's.
LEMMA InvalidateLemma ==
  ASSUME Inv, NEW k \in DOMAIN cookies, Invalidate(k)
  PROVE  Inv'
<1>1. TypeOK /\ cookies' = Without(k)
  BY DEF Inv, Invalidate, Without
<1>2. Grown /\ Len(cookies') = Len(cookies)
  BY <1>1, DroppedCookie, Dropping
<1>3. invalidations' \in 0..MaxInvalidations
  BY CookieAssumption, <1>1, Typing DEF OtherTypes, Invalidate
<1>. QED
  BY <1>2, <1>3, TableLemma DEF Invalidate

-----------------------------------------------------------------------------
(* The client takes their answers.                                         *)

SessionType(n) == [cookie : (0..n) \ {0}, user : Anyone, dataLoaded : BOOLEAN]

\* Anonymous sessions with the cookies there are.
AnonymousSessions ==
  {s \in SessionType(Len(cookies)) : s.user = NoUser /\ ~s.dataLoaded}

\* A call that brings an anonymous session: Redux refuses it, or takes it
\* because nobody is logged in or because the call was made in the session
\* Redux holds, which rules out that a log-in has just brought that session.
LEMMA AnonymousSession ==
  ASSUME Inv, NEW c \in Calls, NEW session,
         session = SetNewSession(redux, calls[c].answer, Bound(c)),
         calls[c].step \in {"answered", "refused"},
         calls[c].answer.user = NoUser, calls[c].answer.cookie # 0
  PROVE  \/ session = redux
         \/ /\ session \in AnonymousSessions
            /\ session.cookie = calls[c].answer.cookie
            /\ LogIn.step # "storing"
            /\ redux.user # NoUser =>
                 Bound(c) = [user |-> redux.user, cookie |-> redux.cookie]
<1>1. TypesFor(Len(cookies)) /\ Len(cookies) \in Nat
  BY Typing DEF Inv, OtherTypes
<1>2. calls[c].answer.cookie \in 1..Len(cookies)
  BY <1>1 DEF TypesFor, CallType, AnswerType
<1>3. Bound(c).user = calls[c].user /\ Bound(c).cookie = calls[c].cookie
  BY DEF Bound
<1>4. CASE InvalidSessionDowngrade(redux, NoUser, Bound(c))
  BY <1>4 DEF SetNewSession
<1>5. CASE ~InvalidSessionDowngrade(redux, NoUser, Bound(c))
  <2>1. session = [cookie |-> calls[c].answer.cookie, user |-> NoUser,
                   dataLoaded |-> FALSE]
    BY <1>5 DEF SetNewSession
  <2>2. redux.user = NoUser \/ (calls[c].user = redux.user /\
                                calls[c].cookie = redux.cookie)
    BY <1>3, <1>5 DEF InvalidSessionDowngrade
  <2>3. LogIn.step # "storing"
    BY <2>2, CookieAssumption DEF Inv, LoggingIn, Fresh
  <2>4. session \in AnonymousSessions /\ session.cookie = calls[c].answer.cookie
    BY <1>1, <1>2, <2>1 DEF AnonymousSessions, SessionType, Anyone
  <2>5. redux.user # NoUser =>
          Bound(c) = [user |-> redux.user, cookie |-> redux.cookie]
    BY <2>2 DEF Bound
  <2>. QED
    BY <2>3, <2>4, <2>5
<1>. QED
  BY <1>4, <1>5

\* What logging a session out leaves.
LEMMA LoggedOut ==
  ASSUME TypeOK, NEW pre, NEW session,
         session = redux \/ session \in AnonymousSessions
  PROVE  \/ LogOutSuccess(session, pre) = session
         \/ LogOutSuccess(session, pre) \in AnonymousSessions
<1>1. session \in SessionType(Len(cookies))
  BY Typing DEF TypesFor, SessionType, AnonymousSessions
<1>2. [session EXCEPT !.user = NoUser, !.dataLoaded = FALSE] \in AnonymousSessions
  BY <1>1 DEF SessionType, AnonymousSessions, Anyone
<1>. QED
  BY <1>2 DEF LogOutSuccess

\* Calls that end, with or without an anonymous session and the end of a
\* log-out.  A log-in that goes on is neither storing its user's credentials
\* nor has it brought the cookie that Redux takes.
LEMMA SettledLemma ==
  ASSUME Inv,
         calls' \in [Calls -> CallType(Len(cookies))],
         \A d \in Calls :
           \/ calls'[d] = calls[d]
           \/ calls'[d] = Idle /\ calls[d].step # "recovering",
         \/ redux' = redux
         \/ /\ redux' \in AnonymousSessions
            /\ calls'["log_in"] = Idle \/
                 /\ LogIn.step # "storing"
                 /\ LogIn.step = "answered" /\ LogIn.answer.user # NoUser =>
                      redux'.cookie # LogIn.answer.cookie,
         leaving' \in {leaving, NotLeaving},
         UNCHANGED <<keychain, waiting, attempt, cookies, bounds>>
  PROVE  Inv'
<1>1. TypesFor(Len(cookies)) /\ OtherTypes /\ TypeOK /\ Grown
  BY Typing, SameCookies DEF Inv
<1>2. TypeOK'
  <2>1. redux' \in [cookie : (0..Len(cookies)) \ {0}, user : Anyone,
                    dataLoaded : BOOLEAN]
    <3>1. CASE redux' = redux
      BY <1>1, <3>1 DEF TypesFor
    <3>2. CASE redux' \in AnonymousSessions
      BY <1>1, <3>2 DEF AnonymousSessions, SessionType
    <3>. QED
      BY <3>1, <3>2
  <2>2. leaving' \in [user : Anyone, cookie : 0..Len(cookies)]
    BY <1>1 DEF TypesFor, OtherTypes, NotLeaving, Anyone
  <2>3. TypesFor(Len(cookies))' /\ OtherTypes'
    BY <1>1, <2>1, <2>2 DEF TypesFor, OtherTypes, bounds
  <2>. QED
    BY <2>3, Typing, PTL
<1>3. OneRecovery'
  BY RecoveryKept DEF Inv, Idle
<1>4. CookieIsUsers' /\ SessionOK'
  BY DEF Inv, CookieIsUsers, SessionOK, AnonymousSessions
<1>5. CallsOK'
  BY <1>1, CallKept, CallOver DEF CallsOK
<1>6. AttemptOK'
  BY DEF Inv, AttemptOK, Owned
<1>7. LoggingIn'
  <2>1. "log_in" \in Calls
    BY DEF Calls
  <2>2. CASE calls'["log_in"] = Idle
    BY <2>2 DEF LoggingIn, LogIn, Idle
  <2>3. CASE calls'["log_in"] = calls["log_in"] /\ calls["log_in"] # Idle
    <3>1. LogIn' = LogIn
      BY <2>3 DEF LogIn
    <3>3. LogIn.step = "answered" /\ LogIn.answer.user # NoUser =>
            Fresh(LogIn.answer.cookie)'
      BY <2>1, <3>1 DEF Inv, LoggingIn, Fresh, Idle, NoAnswer
    <3>4. LogIn.step = "storing" => Fresh(redux.cookie)' /\ redux' = redux
      BY <2>1, <2>3, <3>1 DEF Inv, LoggingIn, Fresh, Idle, NoAnswer, LogIn
    <3>5. redux' # redux => redux'.user = NoUser
      BY DEF AnonymousSessions
    <3>. QED
      BY <2>3, <3>1, <3>3, <3>4, <3>5 DEF Inv, LoggingIn, Owned, LogIn
  <2>. QED
    BY <2>1, <2>2, <2>3
<1>. QED
  BY <1>2, <1>3, <1>4, <1>5, <1>6, <1>7 DEF Inv

\* The session an answer that brings no user leaves, before a log-out that
\* it may be about is settled.
LEMMA AnswerSession ==
  ASSUME Inv, NEW c \in Calls, calls[c].step = "answered",
         calls[c].answer.user = NoUser, NEW session,
         session = IF calls[c].answer.cookie = 0 THEN redux
                   ELSE SetNewSession(redux, calls[c].answer, Bound(c))
  PROVE  \/ session = redux
         \/ /\ session \in AnonymousSessions
            /\ session.cookie = calls[c].answer.cookie
            /\ LogIn.step # "storing"
            /\ redux.user # NoUser =>
                 /\ Bound(c) = [user |-> redux.user, cookie |-> redux.cookie]
                 /\ cookies[redux.cookie] = Gone
<1>1. CASE calls[c].answer.cookie = 0
  BY <1>1
<1>2. CASE calls[c].answer.cookie # 0
  <2>1. session = SetNewSession(redux, calls[c].answer, Bound(c))
    BY <1>2
  <2>2. \/ session = redux
        \/ /\ session \in AnonymousSessions
           /\ session.cookie = calls[c].answer.cookie
           /\ LogIn.step # "storing"
           /\ redux.user # NoUser =>
                Bound(c) = [user |-> redux.user, cookie |-> redux.cookie]
    BY <1>2, <2>1, AnonymousSession
  <2>3. cookies[calls[c].cookie] = Gone
    BY <1>2 DEF Inv, CallsOK, CallOK
  <2>. QED
    BY <2>2, <2>3 DEF Bound
<1>. QED
  BY <1>1, <1>2

\* An answer that brings a user is the answer of a log-in.
LEMMA TakeLogInLemma ==
  ASSUME Inv, NEW c \in Calls, TakeAnswer(c), calls[c].answer.user # NoUser
  PROVE  Inv'
<1>1. /\ c = "log_in" /\ calls[c] = LogIn /\ c # "log_out"
      /\ LogIn.step = "answered" /\ ~LogIn.answer.invalidated
  BY DEF TakeAnswer, Inv, CallsOK, CallOK, LogIn
<1>2. /\ LogIn.as \in Users /\ leaving = NotLeaving /\ redux.user = NoUser
      /\ LogIn.answer.user = LogIn.as /\ LogIn.as # NoUser
      /\ Owned(LogIn.answer.cookie, LogIn.as) /\ Fresh(LogIn.answer.cookie)
      /\ ~redux.dataLoaded
  BY <1>1, CookieAssumption DEF Inv, LoggingIn, SessionOK
<1>3. TypesFor(Len(cookies)) /\ OtherTypes /\ TypeOK /\ Grown
      /\ "log_in" \in Calls
  BY Typing, SameCookies DEF Inv, TakeAnswer, Calls
<1>4. redux' = [cookie |-> LogIn.answer.cookie, user |-> LogIn.as,
                dataLoaded |-> FALSE]
  <2>1. ~InvalidSessionDowngrade(redux, LogIn.as, Bound(c))
    BY <1>2 DEF InvalidSessionDowngrade
  <2>2. SetNewSession(redux, LogIn.answer, Bound(c)) =
          [cookie |-> LogIn.answer.cookie, user |-> LogIn.as, dataLoaded |-> FALSE]
    BY <1>2, <2>1 DEF SetNewSession
  <2>3. LogIn.answer.cookie # 0
    BY <1>2 DEF Fresh
  <2>. QED
    BY <1>1, <2>2, <2>3 DEF TakeAnswer
<1>5. /\ calls' = [calls EXCEPT !["log_in"] = [@ EXCEPT !.step = "storing"]]
      /\ UNCHANGED <<keychain, waiting, attempt, leaving, cookies, bounds>>
  BY <1>1, <1>2 DEF TakeAnswer
<1>6. /\ calls' \in [Calls -> CallType(Len(cookies))]
      /\ \A d \in Calls : d # "log_in" => calls'[d] = calls[d]
      /\ LogIn' = [LogIn EXCEPT !.step = "storing"]
      /\ LogIn \in CallType(Len(cookies))
  BY <1>3, <1>5, SMTT(30) DEF TypesFor, CallType, LogIn, Steps
<1>7. /\ LogIn'.step = "storing" /\ LogIn'.as = LogIn.as
      /\ LogIn'.answer = LogIn.answer /\ LogIn'.cookie = LogIn.cookie
  BY <1>6 DEF CallType
<1>8. TypeOK'
  <2>1. redux' \in [cookie : (0..Len(cookies)) \ {0}, user : Anyone,
                    dataLoaded : BOOLEAN]
    BY <1>2, <1>3, <1>4 DEF Owned, OtherTypes, Anyone
  <2>2. TypesFor(Len(cookies))' /\ OtherTypes'
    BY <1>3, <1>5, <1>6, <2>1 DEF TypesFor, OtherTypes, bounds
  <2>. QED
    BY <2>2, Typing, PTL
<1>9. OneRecovery'
  <2>1. \A d \in Calls : calls'[d].step = calls[d].step \/
          (calls[d].step = "answered" /\ calls'[d].step = "storing")
    BY <1>1, <1>6, <1>7 DEF LogIn
  <2>. QED
    BY <1>5, <2>1, RecoveryKept DEF Inv
<1>10. ASSUME NEW d \in Calls PROVE CallOK(d)'
  <2>1. CASE d # "log_in"
    BY <1>3, <1>6, <2>1, CallKept
  <2>2. CASE d = "log_in"
    BY <1>1, <1>7, <2>2 DEF Inv, CallsOK, CallOK, Refused, LogIn
  <2>. QED
    BY <2>1, <2>2
<1>11. CookieIsUsers' /\ SessionOK' /\ AttemptOK'
  BY <1>2, <1>4, <1>5 DEF Inv, CookieIsUsers, SessionOK, AttemptOK, Owned
<1>12. LoggingIn'
  <2>1. Fresh(redux.cookie)'
    BY <1>2, <1>4, <1>5, <1>6, <1>7 DEF Fresh, LogIn
  <2>. QED
    BY <1>2, <1>4, <1>5, <1>7, <2>1 DEF LoggingIn
<1>. QED
  BY <1>8, <1>9, <1>10, <1>11, <1>12 DEF Inv, CallsOK

\* An answer that brings no user ends its call.
LEMMA TakeAnswerLemma ==
  ASSUME Inv, NEW c \in Calls, TakeAnswer(c)
  PROVE  Inv'
<1>1. CASE calls[c].answer.user # NoUser
  BY <1>1, TakeLogInLemma
<1>2. CASE calls[c].answer.user = NoUser
  <2> DEFINE session == IF calls[c].answer.cookie = 0 THEN redux
                        ELSE SetNewSession(redux, calls[c].answer, Bound(c))
  <2>1. /\ calls[c].step = "answered"
        /\ calls' = [calls EXCEPT ![c] = Idle]
        /\ UNCHANGED <<keychain, waiting, attempt, cookies, bounds>>
        /\ \/ redux' = session /\ leaving' = leaving
           \/ /\ c = "log_out" /\ leaving # NotLeaving
              /\ redux' = LogOutSuccess(session, leaving)
              /\ leaving' = NotLeaving
    BY <1>2 DEF TakeAnswer
  <2>2. \/ session = redux
        \/ /\ session \in AnonymousSessions
           /\ session.cookie = calls[c].answer.cookie
           /\ LogIn.step # "storing"
    BY <1>2, <2>1, AnswerSession
  <2> HIDE DEF session
  <2>3. TypesFor(Len(cookies)) /\ TypeOK /\ Idle \in CallType(Len(cookies))
    BY Typing DEF Inv, OtherTypes, Idle, NoAnswer, CallType, AnswerType, Steps,
       Anyone
  <2>4. /\ calls' \in [Calls -> CallType(Len(cookies))]
        /\ \A d \in Calls : calls'[d] = IF d = c THEN Idle ELSE calls[d]
    BY <2>1, <2>3 DEF TypesFor
  <2>5. \A d \in Calls :
           \/ calls'[d] = calls[d]
           \/ calls'[d] = Idle /\ calls[d].step # "recovering"
    BY <2>1, <2>4
  <2>6. CASE redux' = session /\ leaving' = leaving
    <3>1. session = redux \/ calls'["log_in"] = Idle \/
            (LogIn.step = "answered" /\ LogIn.answer.user # NoUser =>
               session.cookie # LogIn.answer.cookie)
      BY <2>2, <2>4 DEF Inv, LoggingIn, Fresh, Calls
    <3>. QED
      BY <2>1, <2>2, <2>4, <2>5, <2>6, <3>1, SettledLemma
  <2>7. CASE /\ c = "log_out" /\ leaving # NotLeaving
             /\ redux' = LogOutSuccess(session, leaving)
             /\ leaving' = NotLeaving
    <3>1. LogIn.step = "none"
      BY <2>7 DEF Inv, LoggingIn
    <3>2. redux' = redux \/ redux' \in AnonymousSessions
      BY <2>2, <2>3, <2>7, LoggedOut
    <3>. QED
      BY <2>1, <2>4, <2>5, <2>7, <3>1, <3>2, SettledLemma
  <2>. QED
    BY <2>1, <2>6, <2>7
<1>. QED
  BY <1>1, <1>2

\* Storing the credentials comes last; Redux has held the session since the
\* answer was taken, and nothing has come between.
LEMMA FinishLogInLemma ==
  ASSUME Inv, FinishLogIn
  PROVE  Inv'
<1>1. /\ LogIn.step = "storing" /\ keychain' = LogIn.as
      /\ redux' = [redux EXCEPT !.user = LogIn.as, !.dataLoaded = TRUE]
      /\ calls' = [calls EXCEPT !["log_in"] = Idle]
      /\ UNCHANGED <<waiting, attempt, leaving, cookies, bounds>>
  BY DEF FinishLogIn, LogIn
<1>2. /\ LogIn.as \in Users /\ leaving = NotLeaving /\ redux.user = LogIn.as
      /\ LogIn.as # NoUser /\ LogIn.as \in Anyone
  BY <1>1, CookieAssumption DEF Inv, LoggingIn, Anyone
<1>3. /\ TypesFor(Len(cookies)) /\ OtherTypes /\ TypeOK /\ Grown
      /\ "log_in" \in Calls /\ Idle \in CallType(Len(cookies))
  BY <1>1, Typing, SameCookies DEF Inv, Calls, OtherTypes, Idle, NoAnswer,
     CallType, AnswerType, Steps, Anyone
<1>4. /\ calls' \in [Calls -> CallType(Len(cookies))]
      /\ \A d \in Calls : calls'[d] = IF d = "log_in" THEN Idle ELSE calls[d]
  BY <1>1, <1>3 DEF TypesFor
<1>5. /\ redux' \in SessionType(Len(cookies))
      /\ redux'.cookie = redux.cookie /\ redux'.user = LogIn.as
      /\ redux'.dataLoaded
  BY <1>1, <1>2, <1>3 DEF TypesFor, SessionType
<1>6. TypeOK'
  <2>1. TypesFor(Len(cookies))' /\ OtherTypes'
    BY <1>1, <1>2, <1>3, <1>4, <1>5 DEF TypesFor, OtherTypes, SessionType, bounds
  <2>. QED
    BY <2>1, Typing, PTL
<1>7. OneRecovery'
  <2>1. \A d \in Calls : calls'[d] = calls[d] \/
          (calls[d].step = "storing" /\ calls'[d].step = "none")
    BY <1>1, <1>4 DEF LogIn, Idle
  <2>. QED
    BY <1>1, <2>1, RecoveryKept DEF Inv
<1>8. CookieIsUsers' /\ SessionOK' /\ AttemptOK'
  BY <1>1, <1>2, <1>5 DEF Inv, CookieIsUsers, SessionOK, AttemptOK, Owned
<1>9. CallsOK'
  BY <1>3, <1>4, CallKept, CallOver DEF CallsOK
<1>10. LoggingIn'
  BY <1>3, <1>4 DEF LoggingIn, LogIn, Idle
<1>. QED
  BY <1>6, <1>7, <1>8, <1>9, <1>10 DEF Inv

\* A log-out that is given up waiting for logs the client out.
LEMMA LogOutGivesUpLemma ==
  ASSUME Inv, LogOutGivesUp
  PROVE  Inv'
<1>1. LogIn.step = "none"
  BY DEF LogOutGivesUp, Inv, LoggingIn
<1>2. redux' = redux \/ redux' \in AnonymousSessions
  BY LoggedOut DEF Inv, LogOutGivesUp
<1>3. calls' \in [Calls -> CallType(Len(cookies))]
  BY Typing DEF Inv, TypesFor, LogOutGivesUp
<1>. QED
  BY <1>1, <1>2, <1>3, SettledLemma DEF LogOutGivesUp

\* A call that times out is over, or goes on without the client.
LEMMA TimeOutLemma ==
  ASSUME Inv, NEW c \in Calls, TimeOut(c)
  PROVE  Inv'
<1>1. /\ calls[c].step \in {"sent", "answered"}
      /\ UNCHANGED <<redux, keychain, waiting, attempt, leaving, cookies, bounds>>
  BY DEF TimeOut
<1>2. /\ TypesFor(Len(cookies)) /\ OtherTypes /\ TypeOK /\ Grown
      /\ "log_in" \in Calls /\ Idle \in CallType(Len(cookies))
  BY <1>1, Typing, SameCookies DEF Inv, Calls, OtherTypes, Idle, NoAnswer,
     CallType, AnswerType, Steps, Anyone
<1>3. CASE calls' = [calls EXCEPT ![c] = Idle]
  <2>1. /\ calls' \in [Calls -> CallType(Len(cookies))]
        /\ \A d \in Calls : calls'[d] = IF d = c THEN Idle ELSE calls[d]
    BY <1>2, <1>3 DEF TypesFor
  <2>. QED
    BY <1>1, <2>1, SettledLemma
<1>4. CASE /\ calls[c].step = "sent"
           /\ calls' = [calls EXCEPT ![c].step = "abandoned"]
  <2>1. /\ calls' \in [Calls -> CallType(Len(cookies))]
        /\ \A d \in Calls : d # c => calls'[d] = calls[d]
        /\ calls'[c].step = "abandoned" /\ calls'[c].as = calls[c].as
        /\ calls'[c].cookie = calls[c].cookie
        /\ calls'[c].answer = calls[c].answer
    BY <1>2, <1>4 DEF TypesFor, CallType, Steps
  <2>2. TypeOK'
    <3>1. TypesFor(Len(cookies))' /\ OtherTypes'
      BY <1>1, <1>2, <2>1 DEF TypesFor, OtherTypes, bounds
    <3>. QED
      BY <3>1, Typing, PTL
  <2>3. OneRecovery'
    <3>1. \A d \in Calls : calls'[d].step = calls[d].step \/
            (calls[d].step = "sent" /\ calls'[d].step = "abandoned")
      BY <1>4, <2>1
    <3>. QED
      BY <1>1, <3>1, RecoveryKept DEF Inv
  <2>4. CookieIsUsers' /\ AttemptOK' /\ SessionOK'
    BY <1>1, <1>2, SessionsKept
  <2>5. ASSUME NEW d \in Calls PROVE CallOK(d)'
    <3>1. CASE d # c
      BY <1>2, <2>1, <3>1, CallKept
    <3>2. CASE d = c
      BY <1>4, <2>1, <3>2 DEF Inv, CallsOK, CallOK, Refused
    <3>. QED
      BY <3>1, <3>2
  <2>6. LoggingIn'
    BY <1>1, <1>2, <1>4, <2>1 DEF Inv, LoggingIn, LogIn, Fresh, Owned
  <2>. QED
    BY <2>2, <2>3, <2>4, <2>5, <2>6 DEF Inv, CallsOK
<1>. QED
  BY <1>3, <1>4 DEF TimeOut

-----------------------------------------------------------------------------
(* Recovery of an invalidated cookie.                                      *)

\* Taking the anonymous session a call was given.
LEMMA DowngradeLemma ==
  ASSUME Inv, NEW c \in Calls, Downgrade(c),
         calls[c].step \in {"answered", "refused"}, Refused(calls[c]),
         UNCHANGED <<keychain, waiting, attempt, leaving, cookies, bounds>>
  PROVE  Inv'
<1>1. calls[c].answer.user = NoUser /\ calls[c].answer.cookie # 0
  BY DEF Inv, CallsOK, CallOK
<1>2. /\ redux' = SetNewSession(redux, calls[c].answer, Bound(c))
      /\ calls' = [calls EXCEPT ![c] = Idle]
  BY DEF Downgrade
<1>3. \/ redux' = redux
      \/ /\ redux' \in AnonymousSessions
         /\ redux'.cookie = calls[c].answer.cookie
         /\ LogIn.step # "storing"
  BY <1>1, <1>2, AnonymousSession
<1>4. TypesFor(Len(cookies)) /\ Idle \in CallType(Len(cookies))
  BY Typing DEF Inv, OtherTypes, Idle, NoAnswer, CallType, AnswerType, Steps,
     Anyone
<1>5. /\ calls' \in [Calls -> CallType(Len(cookies))]
      /\ \A d \in Calls : calls'[d] = IF d = c THEN Idle ELSE calls[d]
  BY <1>2, <1>4 DEF TypesFor
<1>6. redux' = redux \/ calls'["log_in"] = Idle \/
        (LogIn.step = "answered" /\ LogIn.answer.user # NoUser =>
           redux'.cookie # LogIn.answer.cookie)
  BY <1>3, <1>5 DEF Inv, LoggingIn, Fresh, Calls
<1>. QED
  BY <1>3, <1>5, <1>6, SettledLemma

\* A call that was refused and is to be told so again.
LEMMA GiveUpLemma ==
  ASSUME Inv, NEW c \in Calls, GiveUp(c)
  PROVE  Inv'
  BY DowngradeLemma DEF GiveUp, Refused

\* A refused call that waits for a recovery, its own or another's.
LEMMA HeldUpLemma ==
  ASSUME Inv, NEW c \in Calls, NEW step \in {"stuck", "recovering"},
         Refused(calls[c]), calls[c].step = "answered",
         calls' = [calls EXCEPT ![c].step = step],
         UNCHANGED <<redux, keychain, leaving, cookies, bounds>>
  PROVE  /\ calls' \in [Calls -> CallType(Len(cookies))]
         /\ \A d \in Calls : d # c => calls'[d] = calls[d]
         /\ calls'[c].step = step
         /\ CallsOK' /\ CookieIsUsers' /\ SessionOK'
         /\ attempt'.cookie \in {attempt.cookie, calls[c].answer.cookie}
              => LoggingIn'
<1>1. TypesFor(Len(cookies)) /\ TypeOK /\ Grown /\ "log_in" \in Calls
  BY Typing, SameCookies DEF Inv, Calls
<1>2. /\ calls' \in [Calls -> CallType(Len(cookies))]
      /\ \A d \in Calls : d # c => calls'[d] = calls[d]
      /\ calls'[c].step = step /\ calls'[c].as = calls[c].as
      /\ calls'[c].cookie = calls[c].cookie
      /\ calls'[c].answer = calls[c].answer
  BY <1>1, SMTT(30) DEF TypesFor, CallType, Steps
<1>3. ASSUME NEW d \in Calls PROVE CallOK(d)'
  <2>1. CASE d # c
    BY <1>1, <1>2, <2>1, CallKept
  <2>2. CASE d = c
    BY <1>2, <2>2 DEF Inv, CallsOK, CallOK, Refused
  <2>. QED
    BY <2>1, <2>2
<1>4. CookieIsUsers' /\ SessionOK'
  BY DEF Inv, CookieIsUsers, SessionOK
<1>5. ASSUME attempt'.cookie \in {attempt.cookie, calls[c].answer.cookie}
      PROVE  LoggingIn'
  <2>1. CASE c = "log_in"
    BY <1>1, <1>2, <2>1 DEF Inv, LoggingIn, LogIn
  <2>2. CASE c # "log_in"
    BY <1>1, <1>2, <1>5, <2>2 DEF Inv, LoggingIn, LogIn, Fresh, Owned
  <2>. QED
    BY <2>1, <2>2
<1>. QED
  BY <1>2, <1>3, <1>4, <1>5 DEF CallsOK

\* A call that learns its cookie is gone takes the anonymous one, waits, or
\* begins a recovery.
LEMMA TakeInvalidationLemma ==
  ASSUME Inv, NEW c \in Calls, TakeInvalidation(c)
  PROVE  Inv'
<1>1. /\ calls[c].step = "answered" /\ Refused(calls[c])
      /\ UNCHANGED <<keychain, leaving, cookies, bounds>>
  BY DEF TakeInvalidation, Refused
<1>2. TypesFor(Len(cookies)) /\ OtherTypes
  BY Typing DEF Inv
<1>3. CASE Downgrade(c) /\ UNCHANGED <<waiting, attempt>>
  BY <1>1, <1>3, DowngradeLemma
<1>4. CASE /\ waiting /\ calls' = [calls EXCEPT ![c].step = "stuck"]
           /\ UNCHANGED <<redux, waiting, attempt>>
  <2>1. /\ calls' \in [Calls -> CallType(Len(cookies))]
        /\ \A d \in Calls : d # c => calls'[d] = calls[d]
        /\ calls'[c].step = "stuck"
        /\ CallsOK' /\ CookieIsUsers' /\ SessionOK' /\ LoggingIn'
    BY <1>1, <1>4, HeldUpLemma
  <2>2. TypeOK'
    <3>1. TypesFor(Len(cookies))' /\ OtherTypes'
      BY <1>1, <1>2, <1>4, <2>1 DEF TypesFor, OtherTypes, bounds
    <3>. QED
      BY <3>1, Typing, PTL
  <2>3. OneRecovery'
    BY <1>1, <1>4, <2>1, RecoveryKept DEF Inv
  <2>4. AttemptOK'
    BY <1>1, <1>4 DEF Inv, AttemptOK, Owned
  <2>. QED
    BY <2>1, <2>2, <2>3, <2>4 DEF Inv
<1>5. CASE /\ ~waiting /\ calls' = [calls EXCEPT ![c].step = "recovering"]
           /\ waiting' = TRUE
           /\ attempt' = [NoAttempt EXCEPT !.step = "reading",
                                           !.cookie = calls[c].answer.cookie]
           /\ UNCHANGED redux
  <2>1. /\ attempt'.step = "reading"
        /\ attempt'.cookie = calls[c].answer.cookie
        /\ attempt' \in [step : {"none", "reading", "sent", "answered"},
                         user : Anyone, cookie : 0..Len(cookies)]
    BY <1>2, <1>5 DEF NoAttempt, TypesFor, CallType, AnswerType, Anyone
  <2>2. /\ calls' \in [Calls -> CallType(Len(cookies))]
        /\ \A d \in Calls : d # c => calls'[d] = calls[d]
        /\ calls'[c].step = "recovering"
        /\ CallsOK' /\ CookieIsUsers' /\ SessionOK' /\ LoggingIn'
    BY <1>1, <1>5, <2>1, HeldUpLemma
  <2>3. TypeOK'
    <3>1. TypesFor(Len(cookies))' /\ OtherTypes'
      BY <1>1, <1>2, <1>5, <2>1, <2>2 DEF TypesFor, OtherTypes, bounds
    <3>. QED
      BY <3>1, Typing, PTL
  <2>4. OneRecovery'
    BY <1>1, <1>5, <2>1, <2>2 DEF Inv, OneRecovery
  <2>5. AttemptOK'
    BY <1>1, <2>1 DEF Inv, AttemptOK, CallsOK, CallOK
  <2>. QED
    BY <2>2, <2>3, <2>4, <2>5 DEF Inv
<1>. QED
  BY <1>3, <1>4, <1>5 DEF TakeInvalidation

\* What the end of a recovery makes of a call: sent, in the session it was
\* bound to or in that of the recovery, or refused for good.
Continued(call, after) ==
  /\ after.as = call.as
  /\ after.cookie \in {call.cookie, attempt.cookie}
  /\ after.answer \in {call.answer, NoAnswer}
  /\ \/ after = call /\ call.step \notin {"parked", "stuck", "recovering"}
     \/ /\ after.step = "sent" /\ after.cookie # 0
        /\ call.step \in {"parked", "stuck", "recovering"}
     \/ /\ after.step = "refused" /\ call.step \in {"stuck", "recovering"}
        /\ after.cookie = call.cookie /\ after.answer = call.answer

\* The end of a recovery.
LEMMA RecoveredLemma ==
  ASSUME Inv, Grown, NEW after, Recovered(after),
         after \in [Calls -> CallType(Len(cookies))],
         \A c \in Calls : Continued(calls[c], after[c]),
         redux' = redux \/ LogIn.step = "none",
         leaving' = leaving
  PROVE  OneRecovery' /\ CallsOK' /\ AttemptOK' /\ LoggingIn'
<1>1. TypesFor(Len(cookies)) /\ "log_in" \in Calls
  BY Typing DEF Inv, Calls
<1>2. calls' = after /\ waiting' = FALSE /\ attempt' = NoAttempt
  BY DEF Recovered
<1>3. OneRecovery'
  BY <1>2 DEF OneRecovery, Continued, NoAttempt
<1>4. ASSUME NEW c \in Calls PROVE CallOK(c)'
  <2>1. Continued(calls[c], calls'[c])
    BY <1>2
  <2>2. CASE calls'[c] = calls[c]
    BY <2>2, CallKept
  <2>3. CASE calls'[c].step = "sent" /\ calls'[c].cookie # 0
    BY <2>3 DEF CallOK, Refused
  <2>4. CASE /\ calls'[c].step = "refused"
             /\ calls[c].step \in {"stuck", "recovering"}
             /\ calls'[c].cookie = calls[c].cookie
             /\ calls'[c].answer = calls[c].answer
    <3>1. /\ calls[c].cookie \in DOMAIN cookies
          /\ cookies[calls[c].cookie] = Gone
          /\ calls[c].answer.user = NoUser /\ calls[c].answer.cookie # 0
      BY <1>1, <2>4 DEF Inv, CallsOK, CallOK, Refused, TypesFor, CallType, Grown
    <3>. QED
      BY <2>4, <3>1 DEF CallOK, Refused, Grown
  <2>. QED
    BY <2>1, <2>2, <2>3, <2>4 DEF Continued
<1>5. AttemptOK'
  BY <1>2 DEF AttemptOK, NoAttempt
<1>6. LoggingIn'
  <2>1. Continued(LogIn, LogIn')
    BY <1>1, <1>2 DEF LogIn
  <2>2. CASE LogIn' # LogIn
    BY <2>1, <2>2 DEF Inv, LoggingIn, Continued
  <2>3. CASE LogIn' = LogIn /\ LogIn.step = "none"
    BY <2>3 DEF LoggingIn
  <2>4. CASE LogIn' = LogIn /\ LogIn.step # "none"
    <3>2. LogIn.step = "answered" /\ LogIn.answer.user # NoUser =>
            Fresh(LogIn.answer.cookie)'
      <4>1. SUFFICES ASSUME LogIn.step = "answered", LogIn.answer.user # NoUser
                     PROVE  Fresh(LogIn.answer.cookie)'
        OBVIOUS
      <4>2. Fresh(LogIn.answer.cookie)
        BY <4>1 DEF Inv, LoggingIn
      <4>3. \A d \in Calls :
              /\ after[d].cookie # LogIn.answer.cookie
              /\ d # "log_in" => after[d].answer.cookie # LogIn.answer.cookie
        BY <4>2 DEF Continued, Fresh, NoAnswer
      <4>. QED
        BY <1>2, <2>4, <4>2, <4>3 DEF Fresh, NoAttempt
    <3>3. redux' = redux
      BY <2>4
    <3>4. LogIn.step = "storing" => Fresh(redux.cookie)'
      <4>1. SUFFICES ASSUME LogIn.step = "storing"
                     PROVE  Fresh(redux.cookie)'
        OBVIOUS
      <4>2. Fresh(redux.cookie)
        BY <4>1 DEF Inv, LoggingIn
      <4>3. \A d \in Calls :
              /\ after[d].cookie # redux.cookie
              /\ d # "log_in" => after[d].answer.cookie # redux.cookie
        BY <4>2 DEF Continued, Fresh, NoAnswer
      <4>. QED
        BY <1>2, <3>3, <4>2, <4>3 DEF Fresh, NoAttempt
    <3>5. LogIn.step = "answered" /\ LogIn.answer.user # NoUser =>
            Owned(LogIn.answer.cookie, LogIn.as)'
      BY <2>4 DEF Inv, LoggingIn, Owned, Grown
    <3>. QED
      BY <2>4, <3>2, <3>3, <3>4, <3>5 DEF Inv, LoggingIn
  <2>. QED
    BY <2>2, <2>3, <2>4
<1>. QED
  BY <1>3, <1>4, <1>5, <1>6 DEF CallsOK

\* Without a new session the calls go on, or are refused for good.
LEMMA WithoutSessionLemma ==
  ASSUME Inv, NEW c \in Calls
  PROVE  /\ WithoutSession(calls[c]) \in CallType(Len(cookies))
         /\ Continued(calls[c], WithoutSession(calls[c]))
<1>1. calls[c] \in CallType(Len(cookies))
  BY Typing DEF Inv, TypesFor
<1>2. calls[c].step # "none" => calls[c].cookie # 0
  BY DEF Inv, CallsOK, CallOK
<1>3. CASE calls[c].step = "parked"
  BY <1>1, <1>2, <1>3 DEF WithoutSession, Continued, CallType, Steps
<1>4. CASE calls[c].step \in {"stuck", "recovering"}
  BY <1>1, <1>4 DEF WithoutSession, Continued, CallType, Steps
<1>5. CASE calls[c].step \notin {"parked", "stuck", "recovering"}
  <2>1. WithoutSession(calls[c]) = calls[c]
    BY <1>5 DEF WithoutSession
  <2>. QED
    BY <1>1, <1>5, <2>1 DEF Continued
<1>. QED
  BY <1>3, <1>4, <1>5

\* A recovery that comes to nothing.
LEMMA NothingRecovered ==
  ASSUME Inv, Grown, Recovered([c \in Calls |-> WithoutSession(calls[c])]),
         Len(cookies') = Len(cookies),
         UNCHANGED <<redux, keychain, leaving, bounds>>
  PROVE  Inv'
<1> DEFINE after == [c \in Calls |-> WithoutSession(calls[c])]
<1>1. /\ after \in [Calls -> CallType(Len(cookies))]
      /\ \A c \in Calls : Continued(calls[c], after[c])
  BY WithoutSessionLemma
<1>2. Recovered(after)
  OBVIOUS
<1> HIDE DEF after
<1>3. OneRecovery' /\ CallsOK' /\ AttemptOK' /\ LoggingIn'
  BY <1>1, <1>2, RecoveredLemma
<1>4. TypeOK'
  <2>1. TypesFor(Len(cookies)) /\ OtherTypes
    BY Typing DEF Inv
  <2>2. NoAttempt \in [step : {"none", "reading", "sent", "answered"},
                       user : Anyone, cookie : 0..Len(cookies)]
    BY <2>1 DEF NoAttempt, Anyone, OtherTypes
  <2>3. TypesFor(Len(cookies))' /\ OtherTypes'
    BY <1>1, <1>2, <2>1, <2>2 DEF TypesFor, OtherTypes, Recovered, Grown, bounds
  <2>. QED
    BY <2>3, Typing, PTL
<1>5. CookieIsUsers' /\ SessionOK'
  <2>1. redux.cookie \in DOMAIN cookies
    BY Typing DEF Inv, TypesFor, Grown
  <2>. QED
    BY <2>1 DEF Inv, CookieIsUsers, SessionOK, Grown
<1>. QED
  BY <1>3, <1>4, <1>5 DEF Inv

\* A recovery starts with the keychain, and ends there if that is empty.
LEMMA ReadCredentialsLemma ==
  ASSUME Inv, ReadCredentials
  PROVE  Inv'
<1>1. /\ attempt.step = "reading" /\ cookies' = cookies
      /\ UNCHANGED <<redux, keychain, leaving, bounds>>
  BY DEF ReadCredentials
<1>2. TypesFor(Len(cookies)) /\ OtherTypes /\ TypeOK /\ Grown
  BY <1>1, Typing, SameCookies DEF Inv
<1>3. CASE Recovered([c \in Calls |-> WithoutSession(calls[c])])
  BY <1>1, <1>2, <1>3, NothingRecovered
<1>4. CASE /\ keychain # NoUser
           /\ attempt' = [attempt EXCEPT !.step = "sent", !.user = keychain]
           /\ UNCHANGED <<calls, waiting>>
  <2>1. keychain \in Users
    BY <1>2, <1>4 DEF OtherTypes, Anyone
  <2>2. /\ attempt'.step = "sent" /\ attempt'.user = keychain
        /\ attempt'.cookie = attempt.cookie
        /\ attempt' \in [step : {"none", "reading", "sent", "answered"},
                         user : Anyone, cookie : 0..Len(cookies)]
    BY <1>2, <1>4, <2>1 DEF TypesFor, Anyone
  <2>3. TypeOK'
    <3>1. TypesFor(Len(cookies))' /\ OtherTypes'
      BY <1>1, <1>2, <1>4, <2>2 DEF TypesFor, OtherTypes, bounds
    <3>. QED
      BY <3>1, Typing, PTL
  <2>4. OneRecovery'
    BY <1>1, <1>4, <2>2 DEF Inv, OneRecovery
  <2>5. CookieIsUsers' /\ SessionOK' /\ AttemptOK'
    BY <1>1, <2>1, <2>2 DEF Inv, CookieIsUsers, SessionOK, AttemptOK
  <2>6. CallsOK'
    BY <1>2, <1>4, CallKept DEF CallsOK
  <2>7. LoggingIn'
    BY <1>1, <1>4, <2>2 DEF Inv, LoggingIn, LogIn, Fresh, Owned
  <2>. QED
    BY <2>3, <2>4, <2>5, <2>6, <2>7 DEF Inv
<1>. QED
  BY <1>3, <1>4 DEF ReadCredentials

\* The log-in of a recovery brings a cookie never used before.
LEMMA ServeAttemptLemma ==
  ASSUME Inv, ServeAttempt
  PROVE  Inv'
<1>1. /\ attempt.step = "sent"
      /\ cookies' = Exchanged(attempt.cookie, attempt.user)
      /\ attempt' = [attempt EXCEPT !.step = "answered",
                                    !.cookie = Len(cookies) + 1]
      /\ UNCHANGED <<redux, keychain, calls, waiting, leaving, bounds>>
  BY DEF ServeAttempt, NewCookie
<1>2. TypesFor(Len(cookies)) /\ OtherTypes /\ TypeOK /\ attempt.user \in Users
      /\ "log_in" \in Calls
  BY <1>1, Typing DEF Inv, AttemptOK, Calls
<1>3. /\ Grown /\ Len(cookies') = Len(cookies) + 1
      /\ cookies'[Len(cookies')] = attempt.user
  BY <1>1, <1>2, ExchangedCookies DEF Anyone
<1>4. /\ attempt'.step = "answered" /\ attempt'.user = attempt.user
      /\ attempt'.cookie = Len(cookies) + 1
      /\ attempt' \in [step : {"none", "reading", "sent", "answered"},
                       user : Anyone, cookie : 0..Len(cookies')]
  <2>1. attempt \in [step : {"none", "reading", "sent", "answered"},
                    user : Anyone, cookie : 0..Len(cookies')]
    BY <1>2, <1>3 DEF TypesFor, Grown
  <2>2. Len(cookies) + 1 \in 0..Len(cookies')
    BY <1>3 DEF Grown
  <2>. QED
    BY <1>1, <2>1, <2>2
<1>5. TypeOK'
  <2>1. /\ 0..Len(cookies) \subseteq 0..Len(cookies')
        /\ CallType(Len(cookies)) \subseteq CallType(Len(cookies'))
    BY <1>3, TypesGrow DEF Grown
  <2>2. TypesFor(Len(cookies))' /\ OtherTypes'
    BY <1>1, <1>2, <1>3, <1>4, <2>1 DEF TypesFor, OtherTypes, Grown, bounds
  <2>. QED
    BY <2>2, Typing, PTL
<1>6. OneRecovery'
  BY <1>1, <1>4 DEF Inv, OneRecovery
<1>7. CallsOK'
  BY <1>1, <1>3, CallKept DEF CallsOK
<1>8. CookieIsUsers' /\ SessionOK'
  <2>1. redux.cookie \in DOMAIN cookies
    BY <1>2, <1>3 DEF TypesFor, Grown
  <2>. QED
    BY <1>1, <1>3, <2>1 DEF Inv, CookieIsUsers, SessionOK, Grown
<1>9. AttemptOK'
  BY <1>2, <1>3, <1>4 DEF AttemptOK, Owned, Grown
<1>10. LoggingIn'
  <2>1. redux.cookie \in DOMAIN cookies /\ Len(cookies) + 1 \notin DOMAIN cookies
    BY <1>2, <1>3 DEF TypesFor, Grown
  <2>. QED
    BY <1>1, <1>3, <1>4, <2>1 DEF Inv, LoggingIn, LogIn, Fresh, Owned, Grown
<1>. QED
  BY <1>5, <1>6, <1>7, <1>8, <1>9, <1>10 DEF Inv

\* In a new session the calls go on in that session.
LEMMA InSessionLemma ==
  ASSUME Inv, attempt.step = "answered", NEW c \in Calls
  PROVE  /\ InSession(calls[c], attempt.user, attempt.cookie)
              \in CallType(Len(cookies))
         /\ Continued(calls[c], InSession(calls[c], attempt.user, attempt.cookie))
<1>1. /\ calls[c] \in CallType(Len(cookies)) /\ attempt.cookie \in 0..Len(cookies)
      /\ attempt.user \in Anyone /\ attempt.cookie # 0
      /\ Len(cookies) \in Nat
  BY Typing DEF Inv, TypesFor, OtherTypes, AttemptOK
<1>2. NoAnswer \in AnswerType(Len(cookies))
  BY <1>1 DEF NoAnswer, AnswerType, Anyone
<1>3. CASE calls[c].step \in {"parked", "stuck", "recovering"}
  BY <1>1, <1>2, <1>3 DEF InSession, Continued, CallType, Steps
<1>4. CASE calls[c].step \notin {"parked", "stuck", "recovering"}
  BY <1>1, <1>4 DEF InSession, Continued
<1>. QED
  BY <1>3, <1>4

\* A recovery that succeeds changes the cookie of the user it was for, if
\* that user is still there and not leaving.
LEMMA TakeAttemptLemma ==
  ASSUME Inv, TakeAttempt
  PROVE  Inv'
<1> DEFINE after == [c \in Calls |->
                       InSession(calls[c], attempt.user, attempt.cookie)]
<1>1. /\ attempt.step = "answered" /\ Recovered(after)
      /\ UNCHANGED <<keychain, leaving, cookies, bounds>>
      /\ \/ redux' = redux
         \/ /\ redux' = [redux EXCEPT !.cookie = attempt.cookie]
            /\ redux.dataLoaded /\ redux.user = attempt.user
  BY DEF TakeAttempt, InvalidSessionRecovery
<1>2. /\ TypesFor(Len(cookies)) /\ OtherTypes /\ TypeOK /\ Grown
      /\ Owned(attempt.cookie, attempt.user) /\ attempt.cookie # 0
  BY <1>1, Typing, SameCookies DEF Inv, AttemptOK
<1>3. /\ after \in [Calls -> CallType(Len(cookies))]
      /\ \A c \in Calls : Continued(calls[c], after[c])
  BY <1>1, InSessionLemma
<1> HIDE DEF after
<1>4. /\ redux' \in SessionType(Len(cookies))
      /\ redux'.user = redux.user /\ redux'.dataLoaded = redux.dataLoaded
      /\ \/ redux' = redux
         \/ /\ redux'.cookie = attempt.cookie
            /\ redux.dataLoaded /\ redux.user = attempt.user
  BY <1>1, <1>2 DEF TypesFor, SessionType
<1>5. redux' = redux \/ LogIn.step = "none"
  BY <1>4 DEF Inv, LoggingIn, SessionOK
<1>6. OneRecovery' /\ CallsOK' /\ AttemptOK' /\ LoggingIn'
  BY <1>1, <1>2, <1>3, <1>5, RecoveredLemma
<1>7. TypeOK'
  <2>1. NoAttempt \in [step : {"none", "reading", "sent", "answered"},
                       user : Anyone, cookie : 0..Len(cookies)]
    BY <1>2 DEF NoAttempt, Anyone, OtherTypes
  <2>2. TypesFor(Len(cookies))' /\ OtherTypes'
    BY <1>1, <1>2, <1>3, <1>4, <2>1
       DEF TypesFor, OtherTypes, SessionType, Recovered, bounds
  <2>. QED
    BY <2>2, Typing, PTL
<1>8. CookieIsUsers'
  BY <1>1, <1>2, <1>4 DEF Inv, CookieIsUsers, Owned
<1>9. SessionOK'
  BY <1>1, <1>4 DEF Inv, SessionOK
<1>. QED
  BY <1>6, <1>7, <1>8, <1>9 DEF Inv

\* The log-in fails, its cookie maybe gone all the same.
LEMMA AttemptFailsLemma ==
  ASSUME Inv, AttemptFails
  PROVE  Inv'
<1>1. /\ Recovered([c \in Calls |-> WithoutSession(calls[c])])
      /\ UNCHANGED <<redux, keychain, leaving, bounds>>
      /\ cookies' = cookies \/ cookies' = Without(attempt.cookie)
  BY DEF AttemptFails, Without
<1>2. TypeOK
  BY DEF Inv
<1>3. Grown /\ Len(cookies') = Len(cookies)
  BY <1>1, <1>2, SameCookies, DroppedCookie, Dropping
<1>. QED
  BY <1>1, <1>3, NothingRecovered

-----------------------------------------------------------------------------
(* The theorems.                                                           *)

\* Every step preserves the invariant.
LEMMA NextLemma ==
  ASSUME Inv, [Next]_vars
  PROVE  Inv'
<1>1. CASE UNCHANGED vars
  <2>1. TypeOK'
    BY <1>1 DEF Inv, TypeOK, vars
  <2>. QED
    BY <1>1, <2>1 DEF vars, Inv, OneRecovery, CookieIsUsers, CallsOK, CallOK,
       Refused, AttemptOK, Owned, SessionOK, LoggingIn, LogIn, Fresh
<1>2. CASE Next
  BY <1>2, StartCallLemma, StartLogInLemma, StartLogOutLemma, ServePlainLemma,
     ServeLogInLemma, ServeLogOutLemma, InvalidateLemma, TakeAnswerLemma,
     FinishLogInLemma, LogOutGivesUpLemma, TimeOutLemma, TakeInvalidationLemma,
     ReadCredentialsLemma, ServeAttemptLemma, TakeAttemptLemma,
     AttemptFailsLemma, GiveUpLemma
     DEF Next, ClientStep, Recovery
<1>. QED
  BY <1>1, <1>2

\* The invariant holds throughout.
LEMMA Invariance == Spec => []Inv
<1>1. Init => Inv
  <2> SUFFICES ASSUME Init PROVE Inv
    OBVIOUS
  <2>1. PICK u \in Anyone :
           /\ redux = [cookie |-> 1, user |-> u, dataLoaded |-> u # NoUser]
           /\ cookies = <<u>>
    BY DEF Init
  <2>2. /\ cookies \in Seq(Anyone \cup {Gone}) /\ Len(cookies) = 1
        /\ cookies[1] = u
    BY <2>1
  <2>3. /\ redux \in SessionType(1) /\ redux.cookie = 1 /\ redux.user = u
        /\ redux.dataLoaded <=> u # NoUser
    <3> DEFINE loaded == u # NoUser
    <3>1. loaded \in BOOLEAN /\ (loaded <=> u # NoUser)
      OBVIOUS
    <3>2. redux = [cookie |-> 1, user |-> u, dataLoaded |-> loaded]
      BY <2>1
    <3> HIDE DEF loaded
    <3>3. redux.cookie = 1 /\ redux.user = u /\ redux.dataLoaded = loaded
      BY <3>2
    <3>4. redux \in [cookie : {1}, user : Anyone, dataLoaded : BOOLEAN]
      BY <3>1, <3>2
    <3>. QED
      BY <3>1, <3>3, <3>4 DEF SessionType
  <2>4. calls \in [Calls -> CallType(1)] /\ \A c \in Calls : calls[c] = Idle
    BY DEF Init, Idle, NoAnswer, CallType, AnswerType, Steps, Anyone
  <2>5. TypesFor(1)
    BY <2>3, <2>4 DEF TypesFor, SessionType, Init, NoAttempt, NotLeaving, Anyone
  <2>6. TypeOK
    <3>1. keychain \in Anyone /\ waiting = FALSE /\ started = 0
          /\ invalidations = 0
      BY DEF Init
    <3>2. started \in 0..MaxCalls /\ invalidations \in 0..MaxInvalidations
      BY <3>1, CookieAssumption
    <3>3. waiting \in BOOLEAN
      BY <3>1
    <3>4. OtherTypes
      BY <2>2, <3>1, <3>2, <3>3 DEF OtherTypes
    <3>5. TypesFor(Len(cookies))
      BY <2>2, <2>5
    <3>. QED
      BY <3>4, <3>5, Typing
  <2>7. OneRecovery /\ CallsOK /\ AttemptOK
    BY <2>4 DEF Init, OneRecovery, CallsOK, CallOK, Refused, AttemptOK, Idle,
       NoAnswer, NoAttempt
  <2>8. CookieIsUsers /\ SessionOK
    BY <2>2, <2>3 DEF Init, CookieIsUsers, SessionOK
  <2>9. LoggingIn
    BY <2>4 DEF LoggingIn, LogIn, Idle, Calls
  <2>. QED
    BY <2>6, <2>7, <2>8, <2>9 DEF Inv
<1>. QED
  BY <1>1, NextLemma, PTL DEF Spec

\* The variables have their types.
THEOREM TypeCorrect == Spec => []TypeOK
<1>1. Inv => TypeOK
  BY DEF Inv
<1>. QED
  BY <1>1, Invariance, PTL

\* However many calls are refused at once, and however their recoveries end,
\* calls wait only while exactly one of them is carrying out the recovery
\* they wait for (action-utils.js).
THEOREM RecoveryIsOne == Spec => []OneRecovery
<1>1. Inv => OneRecovery
  BY DEF Inv
<1>. QED
  BY <1>1, Invariance, PTL

\* Whoever is logged in holds a cookie of his own or one that is gone: late
\* answers, recoveries and log-ins under way never mix the user of one
\* session with the cookie of another.
THEOREM CookieOfUser == Spec => []CookieIsUsers
<1>1. Inv => CookieIsUsers
  BY DEF Inv
<1>. QED
  BY <1>1, Invariance, PTL

\* What ValidSessionSurvives and LogOutStays say of a step.
Survives ==
  redux.user # NoUser /\ redux'.user # redux.user =>
    \/ cookies[redux.cookie] # redux.user
    \/ leaving.user = redux.user
Settles == leaving # NotLeaving /\ leaving' = NotLeaving => redux'.user = NoUser
ByHand  == redux.user = NoUser /\ redux'.user # NoUser =>
             LogIn.step \in {"answered", "storing"}

\* Nothing can be said against a step that keeps the user and the log-out.
LEMMA SameUser ==
  ASSUME redux'.user = redux.user,
         leaving' = leaving \/ leaving = NotLeaving
  PROVE  Survives /\ Settles /\ ByHand
  BY DEF Survives, Settles, ByHand

\* A log-out that settles takes the user along, whatever a recovery did.
LEMMA LogOutSettles ==
  ASSUME Inv, leaving # NotLeaving, NEW session,
         session = redux \/ session \in AnonymousSessions
  PROVE  /\ LogOutSuccess(session, leaving).user = NoUser
         /\ session = redux /\ redux.user # NoUser => leaving.user = redux.user
<1>1. redux.user # NoUser =>
        redux.user = leaving.user /\ redux.cookie = leaving.cookie
  BY DEF Inv, SessionOK
<1>2. redux \in SessionType(Len(cookies))
  BY Typing DEF Inv, TypesFor, SessionType
<1>3. ~InvalidSessionDowngrade(session, NoUser, leaving)
  BY <1>1 DEF InvalidSessionDowngrade, AnonymousSessions
<1>4. session \in SessionType(Len(cookies))
  BY <1>2 DEF AnonymousSessions
<1>5. [session EXCEPT !.user = NoUser, !.dataLoaded = FALSE].user = NoUser
  BY <1>4 DEF SessionType
<1>. QED
  BY <1>1, <1>3, <1>5 DEF LogOutSuccess

\* An answer changes the user by a log-in, in a session that is gone, or
\* because the user is logging out.
LEMMA TakeAnswerChanges ==
  ASSUME Inv, NEW c \in Calls, TakeAnswer(c)
  PROVE  Survives /\ Settles /\ ByHand
<1> DEFINE session == IF calls[c].answer.cookie = 0 THEN redux
                      ELSE SetNewSession(redux, calls[c].answer, Bound(c))
<1>1. /\ calls[c].step = "answered"
      /\ \/ redux' = session /\ leaving' = leaving
         \/ leaving # NotLeaving /\ redux' = LogOutSuccess(session, leaving)
  BY DEF TakeAnswer
<1>2. CASE calls[c].answer.user # NoUser
  <2>1. c = "log_in" /\ c # "log_out" /\ LogIn.step = "answered"
    BY <1>1, <1>2 DEF Inv, CallsOK, CallOK, LogIn
  <2>2. redux.user = NoUser /\ leaving = NotLeaving
    BY <2>1 DEF Inv, LoggingIn
  <2>. QED
    BY <2>1, <2>2 DEF Survives, Settles, ByHand
<1>3. CASE calls[c].answer.user = NoUser
  <2>1. \/ session = redux
        \/ /\ session \in AnonymousSessions
           /\ redux.user # NoUser => cookies[redux.cookie] = Gone
    BY <1>1, <1>3, AnswerSession
  <2>2. redux.user \in Anyone
    BY Typing DEF Inv, TypesFor
  <2> HIDE DEF session
  <2>3. session \in AnonymousSessions => session.user = NoUser
    BY DEF AnonymousSessions
  <2>4. CASE redux' = session /\ leaving' = leaving
    BY <2>1, <2>2, <2>3, <2>4, CookieAssumption
       DEF Survives, Settles, ByHand, Anyone
  <2>5. CASE leaving # NotLeaving /\ redux' = LogOutSuccess(session, leaving)
    <3>1. /\ redux'.user = NoUser
          /\ session = redux /\ redux.user # NoUser => leaving.user = redux.user
      BY <2>1, <2>5, LogOutSettles
    <3>. QED
      BY <2>1, <2>2, <3>1, CookieAssumption DEF Survives, Settles, ByHand, Anyone
  <2>. QED
    BY <1>1, <2>4, <2>5
<1>. QED
  BY <1>2, <1>3

\* A downgrade of a user's session is one of a session that is gone.
LEMMA DowngradeChanges ==
  ASSUME Inv, NEW c \in Calls, Downgrade(c), leaving' = leaving,
         calls[c].step \in {"answered", "refused"}, Refused(calls[c])
  PROVE  Survives /\ Settles /\ ByHand
<1>1. /\ calls[c].answer.user = NoUser /\ calls[c].answer.cookie # 0
      /\ cookies[calls[c].cookie] = Gone
  BY DEF Inv, CallsOK, CallOK
<1>2. redux' = SetNewSession(redux, calls[c].answer, Bound(c))
  BY DEF Downgrade
<1>3. \/ redux' = redux
      \/ /\ redux' \in AnonymousSessions
         /\ redux.user # NoUser =>
              Bound(c) = [user |-> redux.user, cookie |-> redux.cookie]
  BY <1>1, <1>2, AnonymousSession
<1>4. redux' # redux =>
        /\ redux'.user = NoUser
        /\ redux.user # NoUser => cookies[redux.cookie] = Gone
  BY <1>1, <1>3 DEF AnonymousSessions, Bound
<1>5. redux.user \in Anyone
  BY Typing DEF Inv, TypesFor
<1>. QED
  BY <1>4, <1>5, CookieAssumption DEF Survives, Settles, ByHand, Anyone

\* Each step changes the user and settles a log-out as it should.
LEMMA Changes ==
  ASSUME Inv, [Next]_vars
  PROVE  Survives /\ Settles /\ ByHand
<1>1. ASSUME NEW c \in Calls, TakeInvalidation(c)
      PROVE  Survives /\ Settles /\ ByHand
  <2>1. CASE Downgrade(c)
    BY <1>1, <2>1, DowngradeChanges DEF TakeInvalidation, Refused
  <2>2. CASE redux' = redux
    BY <1>1, <2>2, SameUser DEF TakeInvalidation
  <2>. QED
    BY <1>1, <2>1, <2>2 DEF TakeInvalidation
<1>2. ASSUME NEW c \in Calls, GiveUp(c)
      PROVE  Survives /\ Settles /\ ByHand
  BY <1>2, DowngradeChanges DEF GiveUp, Refused
<1>3. CASE LogOutGivesUp
  <2>1. /\ redux'.user = NoUser
        /\ redux.user # NoUser => leaving.user = redux.user
    BY <1>3, LogOutSettles DEF LogOutGivesUp
  <2>. QED
    BY <2>1 DEF Survives, Settles, ByHand
<1>4. redux \in SessionType(Len(cookies))
  BY Typing DEF Inv, TypesFor, SessionType
<1>5. CASE FinishLogIn
  <2>1. LogIn.step = "storing" /\ redux.user = LogIn.as /\ leaving' = leaving
    BY <1>5 DEF FinishLogIn, LogIn, Inv, LoggingIn
  <2>2. redux'.user = LogIn.as
    BY <1>4, <1>5 DEF FinishLogIn, LogIn, SessionType
  <2>. QED
    BY <2>1, <2>2, SameUser
<1>6. CASE TakeAttempt
  <2>1. redux'.user = redux.user /\ leaving' = leaving
    BY <1>4, <1>6 DEF TakeAttempt, SessionType
  <2>. QED
    BY <2>1, SameUser
<1>7. ASSUME NEW keep \in BOOLEAN, StartLogOut(keep)
      PROVE  Survives /\ Settles /\ ByHand
  <2>1. redux'.user = redux.user /\ leaving = NotLeaving
    BY <1>4, <1>7 DEF StartLogOut, SessionType
  <2>. QED
    BY <2>1, SameUser
<1>8. ASSUME NEW c \in Calls, TimeOut(c) \/ ServePlain(c)
      PROVE  Survives /\ Settles /\ ByHand
  BY <1>8, SameUser DEF TimeOut, ServePlain
<1>9. ASSUME NEW c \in Others, StartCall(c)
      PROVE  Survives /\ Settles /\ ByHand
  BY <1>9, SameUser DEF StartCall
<1>10. ASSUME NEW u \in Users, StartLogIn(u)
       PROVE  Survives /\ Settles /\ ByHand
  BY <1>10, SameUser DEF StartLogIn
<1>11. ASSUME NEW k \in DOMAIN cookies, Invalidate(k)
       PROVE  Survives /\ Settles /\ ByHand
  BY <1>11, SameUser DEF Invalidate
<1>12. CASE ServeLogIn \/ ServeLogOut \/ ServeAttempt
  BY <1>12, SameUser DEF ServeLogIn, ServeLogOut, ServeAttempt
<1>13. CASE ReadCredentials \/ AttemptFails
  BY <1>13, SameUser DEF ReadCredentials, AttemptFails
<1>14. CASE UNCHANGED vars
  BY <1>14, SameUser DEF vars
<1>. QED
  BY <1>1, <1>2, <1>3, <1>5, <1>6, <1>7, <1>8, <1>9, <1>10, <1>11, <1>12,
     <1>13, <1>14, TakeAnswerChanges DEF Next, ClientStep, Recovery

\* No late answer logs out or replaces a user whose cookie is good: only the
\* log-out he has asked for does.
THEOREM NoLateLogOut == Spec => ValidSessionSurvives
<1>1. Inv /\ [Next]_vars =>
        [redux.user # NoUser /\ redux'.user # redux.user =>
           \/ cookies[redux.cookie] # redux.user
           \/ leaving.user = redux.user]_vars
  BY Changes DEF Survives
<1>. QED
  BY <1>1, Invariance, PTL DEF Spec, ValidSessionSurvives

\* A log-out that settles has logged the client out, and only a log-in made
\* by hand ends that.
THEOREM LogOutIsFinal == Spec => LogOutStays
<1>1. Inv /\ [Next]_vars =>
        [/\ leaving # NotLeaving /\ leaving' = NotLeaving => redux'.user = NoUser
         /\ redux.user = NoUser /\ redux'.user # NoUser =>
              calls["log_in"].step \in {"answered", "storing"}]_vars
  BY Changes DEF Settles, ByHand, LogIn
<1>. QED
  BY <1>1, Invariance, PTL DEF Spec, LogOutStays
=============================================================================
