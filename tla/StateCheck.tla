----------------------------- MODULE StateCheck -----------------------------
(***************************************************************************)
(* The state check of one connected session.                               *)
(*                                                                         *)
(* Updates can be missed (UpdateSync), so when a session has been quiet    *)
(* for three seconds and was last validated three minutes ago, its socket  *)
(* compares hashes of the client's store with the database: first one hash *)
(* of all threads and one of each single value (such as currentUserInfo),  *)
(* then one hash per thread, then it sends the content of what differs.    *)
(* Handlers are asynchronous: database reads, other writes and live        *)
(* updates happen in between.                                              *)
(*                                                                         *)
(* Content is the number of the write that made it, 0 standing for a       *)
(* thread that is not there, and stands for its own hash: collisions are   *)
(* not modelled.                                                           *)
(***************************************************************************)
EXTENDS Integers, FiniteSetsExt, Sequences

CONSTANTS
  Threads,      \* keys hashed together, then one by one
  Singles,      \* keys hashed and replaced on their own
  MaxWrites,    \* bound: changes of the database
  MaxFaults     \* bound: handlers that fail or time out, sockets replaced

ASSUME KeysAssumption   == Threads \cap Singles = {}
ASSUME BoundsAssumption == MaxWrites \in Nat /\ MaxFaults \in Nat

VARIABLES
  truth,     \* content of every key in the database
  view,      \* content of every key in the client's store
  writes,    \* how many writes there have been
  recent,    \* stateCheckConditions.activityRecentlyOccurred
  ongoing,   \* stateCheckConditions.stateCheckOngoing
  timer,     \* is stateCheckTimeoutID set?
  due,       \* has sessionCheckFrequency passed since sessionLastValidated?
  jobs,      \* handlers of the keyserver in progress
  down,      \* messages to the client, in order
  up,        \* RESPONSES on their way to the keyserver
  failed,    \* history: a handler of this socket left its check with no reply
  began,     \* history: writes when the last check began
  faults     \* how many faults have happened

conditionVars == <<recent, ongoing, timer, began>>
vars == <<truth, view, writes, conditionVars, due, jobs, down, up, failed,
          faults>>

-----------------------------------------------------------------------------
Keys    == Threads \cup Singles
Content == 0..MaxWrites
Partial == UNION {[D -> Content] : D \in SUBSET Keys}
Nothing == [k \in {} |-> 0]

\* a client's answer: do all threads match, and which other keys do not
Answer == [whole : BOOLEAN, bad : SUBSET Keys]

\* A handler that has an answer (or starts a check) and what it has read.
\* again: the client has sent its answer for the second time; late: the
\* handler's five seconds are over, and what it returns is not sent.
Job == [step : {"check", "answer"}, answer : Answer, read : BOOLEAN,
        snap : [Keys -> Content], again : BOOLEAN, late : BOOLEAN]

Message == [type : {"updates", "check"}, whole : BOOLEAN, narrow : BOOLEAN,
            hashes : Partial, changes : Partial]

AllMatch == [whole |-> FALSE, bad |-> {}]
CheckJob == [step |-> "check", answer |-> AllMatch, read |-> FALSE,
             snap |-> [k \in Keys |-> 0], again |-> FALSE, late |-> FALSE]
AnswerJob(a) == [CheckJob EXCEPT !.step = "answer", !.answer = a]

Init ==
  /\ truth = [k \in Keys |-> 0]
  /\ view = truth
  /\ writes = 0
  /\ recent = TRUE
  /\ ongoing = FALSE
  /\ timer = FALSE
  /\ due \in BOOLEAN
  /\ jobs = {}
  /\ down = << >>
  /\ up = {}
  /\ failed = FALSE
  /\ began = 0
  /\ faults = 0

-----------------------------------------------------------------------------
(* setStateCheckConditions and handleStateCheckConditionsUpdate, with the  *)
(* handlers in js left in progress.  initiateStateCheck sets               *)
(* stateCheckOngoing, which clears the timer, and starts its handler.      *)

SetConditions(r, o, d, js) ==
  LET canStart == ~r /\ ~o
      initiate == canStart /\ ~timer /\ d
  IN /\ recent' = r
     /\ ongoing' = (o \/ initiate)
     /\ timer' = (canStart /\ ~initiate)
     /\ jobs' = IF initiate THEN js \cup {CheckJob} ELSE js
     /\ began' = IF initiate THEN writes ELSE began

\* debouncedAfterActivity
ActivityEnds ==
  /\ recent
  /\ SetConditions(FALSE, ongoing, due, jobs)
  /\ UNCHANGED <<truth, view, writes, due, down, up, failed, faults>>

\* mutant: the check does not take the flag
TimerFires_NoFlag ==
  /\ timer
  /\ due
  /\ timer' = FALSE
  /\ jobs' = jobs \cup {CheckJob}
  /\ began' = writes
  /\ UNCHANGED <<truth, view, writes, recent, ongoing, due, down, up, failed,
                 faults>>

TimerFires ==
  /\ timer
  /\ due
  /\ timer' = FALSE
  /\ ongoing' = TRUE
  /\ jobs' = jobs \cup {CheckJob}
  /\ began' = writes
  /\ UNCHANGED <<truth, view, writes, recent, due, down, up, failed, faults>>

Asking == \/ jobs # {} \/ up # {}
          \/ \E i \in DOMAIN down : down[i].type = "check"

\* Three minutes are longer than a round trip can take: the client closes a
\* socket that leaves a request unanswered for ten seconds, and no handler's
\* queries are taken to last that long.
TimePasses ==
  /\ ~due
  /\ ~Asking
  /\ due' = TRUE
  /\ UNCHANGED <<truth, view, writes, conditionVars, jobs, down, up, failed,
                 faults>>

-----------------------------------------------------------------------------
(* Changes of the database, delivered live or missed.                      *)

Change(k, c) ==
  /\ writes < MaxWrites
  /\ c \in {writes + 1} \cup (IF k \in Threads THEN {0} ELSE {})
  /\ c # truth[k]
  /\ writes' = writes + 1
  /\ truth' = [truth EXCEPT ![k] = c]

WriteMissed(k, c) ==
  /\ Change(k, c)
  /\ UNCHANGED <<view, conditionVars, due, jobs, down, up, failed, faults>>

\* processRedisMessage marks activity when it has hydrated an update
WriteDelivered(k, c) ==
  /\ Change(k, c)
  /\ down' = Append(down, [type |-> "updates", whole |-> FALSE,
                           narrow |-> FALSE, hashes |-> Nothing,
                           changes |-> [x \in {k} |-> c]])
  /\ SetConditions(TRUE, ongoing, due, jobs)
  /\ UNCHANGED <<view, due, up, failed, faults>>

-----------------------------------------------------------------------------
(* The keyserver's side of a check.                                        *)

\* the fetches at the head of checkState
ReadDatabase(j) ==
  /\ j \in jobs
  /\ ~j.read
  /\ j.step = "check" \/ j.answer # AllMatch
  /\ jobs' = (jobs \ {j}) \cup {[j EXCEPT !.read = TRUE, !.snap = truth]}
  /\ UNCHANGED <<truth, view, writes, conditionVars, due, down, up, failed,
                 faults>>

\* initiateStateCheck: one hash for all threads, one for each single
SendCheck(j) ==
  /\ j \in jobs
  /\ j.step = "check"
  /\ j.read
  /\ jobs' = jobs \ {j}
  /\ down' = Append(down, [type |-> "check", whole |-> TRUE, narrow |-> FALSE,
                           hashes |-> j.snap, changes |-> Nothing])
  /\ UNCHANGED <<truth, view, writes, conditionVars, due, up, failed, faults>>

\* onMessage: RESPONSES, whose handler marks activity and then works
ReceiveResponses(a) ==
  /\ a \in up
  /\ up' = up \ {a}
  /\ SetConditions(TRUE, ongoing, due, jobs \cup {AnswerJob(a)})
  /\ UNCHANGED <<truth, view, writes, due, down, failed, faults>>

\* checkState with state_validated
FinishValidated(j) ==
  /\ j \in jobs
  /\ j.step = "answer"
  /\ j.answer = AllMatch
  /\ due' = FALSE
  /\ SetConditions(recent, FALSE, FALSE, jobs \ {j})
  /\ UNCHANGED <<truth, view, writes, down, up, failed, faults>>

\* mutant: threads that are gone are not sent as deleteThreadIDs
Request_NoDeletes(a, snap) ==
  [type |-> "check", whole |-> FALSE, narrow |-> a.whole,
   hashes |-> [t \in {x \in Threads : a.whole /\ snap[x] # 0} |-> snap[t]],
   changes |-> [k \in {x \in a.bad : snap[x] # 0} |-> snap[k]]]

\* What checkState makes of an answer that reports differences: the hashes
\* to compare next and the state changes.
Request(a, snap) ==
  [type |-> "check", whole |-> FALSE, narrow |-> a.whole,
   hashes |-> [t \in {x \in Threads : a.whole /\ snap[x] # 0} |-> snap[t]],
   changes |-> [k \in a.bad |-> snap[k]]]

\* checkState with state_invalid: with no hash left to compare the session
\* counts as validated and the check is over
FinishInvalid(j) ==
  /\ j \in jobs
  /\ j.step = "answer"
  /\ j.read
  /\ ~j.late
  /\ LET m == Request(j.answer, j.snap)
     IN /\ down' = Append(down, m)
        /\ IF m.hashes = Nothing
           THEN /\ due' = FALSE
                /\ SetConditions(recent, FALSE, FALSE, jobs \ {j})
           ELSE /\ jobs' = jobs \ {j}
                /\ UNCHANGED <<conditionVars, due>>
  /\ UNCHANGED <<truth, view, writes, up, failed, faults>>

\* The same by a handler that has timed out: Promise.race has dropped its
\* message, but the session update is committed and the flag cleared all the
\* same.  With hashes left to compare nothing clears the flag any more.
FinishLate(j) ==
  /\ j \in jobs
  /\ j.step = "answer"
  /\ j.read
  /\ j.late
  /\ IF Request(j.answer, j.snap).hashes = Nothing
     THEN /\ due' = FALSE
          /\ SetConditions(recent, FALSE, FALSE, jobs \ {j})
          /\ UNCHANGED failed
     ELSE /\ jobs' = jobs \ {j}
          /\ failed' = (failed \/ ongoing)
          /\ UNCHANGED <<conditionVars, due>>
  /\ UNCHANGED <<truth, view, writes, down, up, faults>>

-----------------------------------------------------------------------------
(* The client.                                                             *)

\* mutant: the changes replace the store
Apply_Replace(news) == [k \in DOMAIN news |-> news[k]]

Apply(news) == [k \in Keys |-> IF k \in DOMAIN news THEN news[k] ELSE view[k]]

\* mutant: failUnmentioned is ignored
Compare_IgnoreUnmentioned(m, v) ==
  LET differ == {k \in DOMAIN m.hashes : v[k] # m.hashes[k]}
  IN [whole |-> m.whole /\ differ \cap Threads # {},
      bad |-> IF m.whole THEN differ \cap Singles ELSE differ]

\* getClientResponsesSelector on the store v
Compare(m, v) ==
  LET differ == {k \in DOMAIN m.hashes : v[k] # m.hashes[k]}
      unmentioned == {t \in Threads \ DOMAIN m.hashes : v[t] # 0}
  IN IF m.whole
     THEN [whole |-> differ \cap Threads # {}, bad |-> differ \cap Singles]
     ELSE [whole |-> FALSE,
           bad |-> differ \cup (IF m.narrow THEN unmentioned ELSE {})]

ReceiveUpdates ==
  /\ down # << >>
  /\ Head(down).type = "updates"
  /\ view' = Apply(Head(down).changes)
  /\ down' = Tail(down)
  /\ UNCHANGED <<truth, writes, conditionVars, due, jobs, up, failed, faults>>

\* mutant: only a mismatch is answered
ReceiveCheck_OnlyMismatch ==
  /\ down # << >>
  /\ Head(down).type = "check"
  /\ view' = Apply(Head(down).changes)
  /\ LET a == Compare(Head(down), Apply(Head(down).changes))
     IN up' = IF a = AllMatch THEN up ELSE up \cup {a}
  /\ down' = Tail(down)
  /\ UNCHANGED <<truth, writes, conditionVars, due, jobs, failed, faults>>

\* RequestResponseHandler: dispatch the changes, then answer
ReceiveCheck ==
  /\ down # << >>
  /\ Head(down).type = "check"
  /\ view' = Apply(Head(down).changes)
  /\ up' = up \cup {Compare(Head(down), Apply(Head(down).changes))}
  /\ down' = Tail(down)
  /\ UNCHANGED <<truth, writes, conditionVars, due, jobs, failed, faults>>

-----------------------------------------------------------------------------
(* Faults.                                                                 *)

\* socket_response_timeout: the client is told, and does not send its answer
\* again; the handler goes on.
HandlerTimesOut(j) ==
  /\ faults < MaxFaults
  /\ j \in jobs
  /\ j.step = "answer"
  /\ ~j.late
  /\ SetConditions(TRUE, ongoing, due, (jobs \ {j}) \cup {[j EXCEPT !.late = TRUE]})
  /\ faults' = faults + 1
  /\ UNCHANGED <<truth, view, writes, due, down, up, failed>>

\* An exception in a handler: its message is never sent and stateCheckOngoing
\* stays as it is.  onMessage reports it to the client, and that is activity;
\* nobody hears of one in initiateStateCheck or after a time-out.
HandlerThrows(j) ==
  /\ faults < MaxFaults
  /\ j \in jobs
  /\ \/ /\ j.step = "answer" /\ ~j.late
        /\ SetConditions(TRUE, ongoing, due, jobs \ {j})
     \/ /\ j.step = "check" \/ j.late
        /\ jobs' = jobs \ {j}
        /\ UNCHANGED conditionVars
  /\ failed' = (failed \/ ongoing)
  /\ faults' = faults + 1
  /\ UNCHANGED <<truth, view, writes, due, down, up>>

\* The exception is reported as unknown_error, and the client sends the same
\* answer once more, which starts the handler anew.
AnswerSentAgain(j) ==
  /\ faults < MaxFaults
  /\ j \in jobs
  /\ j.step = "answer"
  /\ ~j.late
  /\ ~j.again
  /\ SetConditions(TRUE, ongoing, due,
                   (jobs \ {j}) \cup {[AnswerJob(j.answer) EXCEPT !.again = TRUE]})
  /\ faults' = faults + 1
  /\ UNCHANGED <<truth, view, writes, due, down, up, failed>>

\* The socket closes and the next one starts afresh; what its state sync
\* brings is not counted on.  A handler of the old socket may still commit
\* that the session is validated.
Reconnect ==
  /\ faults < MaxFaults
  /\ faults' = faults + 1
  /\ recent' = TRUE
  /\ ongoing' = FALSE
  /\ timer' = FALSE
  /\ jobs' = {}
  /\ down' = << >>
  /\ up' = {}
  /\ failed' = FALSE
  /\ due' \in {due, due /\ \A j \in jobs : j.step = "check"}
  /\ UNCHANGED <<truth, view, writes, began>>

-----------------------------------------------------------------------------
JobStep == \E j \in jobs : \/ ReadDatabase(j) \/ SendCheck(j)
                           \/ FinishValidated(j) \/ FinishInvalid(j)
                           \/ FinishLate(j)

Next ==
  \/ ActivityEnds \/ TimerFires \/ TimePasses
  \/ \E k \in Keys, c \in Content : WriteMissed(k, c) \/ WriteDelivered(k, c)
  \/ JobStep
  \/ \E a \in up : ReceiveResponses(a)
  \/ ReceiveUpdates
  \/ ReceiveCheck
  \/ \E j \in jobs : HandlerTimesOut(j) \/ HandlerThrows(j) \/ AnswerSentAgain(j)
  \/ Reconnect

Spec == Init /\ [][Next]_vars

\* timers fire, queries return, messages on an open socket arrive
Fairness ==
  /\ WF_vars(ActivityEnds) /\ WF_vars(TimerFires) /\ WF_vars(TimePasses)
  /\ WF_vars(JobStep)
  /\ WF_vars(\E a \in up : ReceiveResponses(a))
  /\ WF_vars(ReceiveUpdates) /\ WF_vars(ReceiveCheck)

FairSpec == Spec /\ Fairness
-----------------------------------------------------------------------------
(* Properties.                                                             *)

\* Every variable has the type the rest of the module reads it with.
TypeOK ==
  /\ truth \in [Keys -> Content]
  /\ view \in [Keys -> Content]
  /\ writes \in Content
  /\ recent \in BOOLEAN /\ ongoing \in BOOLEAN /\ timer \in BOOLEAN
  /\ due \in BOOLEAN
  /\ jobs \subseteq Job
  /\ down \in Seq(Message)
  /\ up \subseteq Answer
  /\ failed \in BOOLEAN
  /\ faults \in 0..MaxFaults

\* A check that is under way always has a next step: while the flag that
\* keeps further checks from starting is set, a handler, a request or an
\* answer is in progress, unless a handler of this socket ended in an
\* exception, or with its next request dropped by the time-out.
CheckHasNextStep == ongoing => Asking \/ failed

\* a request or a handler of the conversation before its last message
InConversation ==
  [jobs |-> {j \in jobs : j.step = "check" \/ j.answer # AllMatch},
   down |-> {i \in DOMAIN down : down[i].type = "check" /\ down[i].hashes # Nothing}]

\* stateCheckOngoing does its job: one conversation at a time.
OneCheckAtATime ==
  Cardinality(InConversation.jobs) + Cardinality(InConversation.down) <= 1

\* what the client will have once it has received all of down
Expected ==
  [k \in Keys |->
     LET about == {i \in DOMAIN down : k \in DOMAIN down[i].changes}
     IN IF about = {} THEN view[k] ELSE down[Max(about)].changes[k]]

\* One check repairs everything but what a time-out drops: when a check ends
\* by validating the session and the database has not changed since it began,
\* the client has, or will have when it has read what was sent, the content
\* of the database for every key, except the keys whose content the handler
\* was to send in a reply that had timed out.  Left out is a database without
\* any of the threads the client has: there is then no hash left to send, the
\* session counts as validated, and it takes one more answer
\* (failUnmentioned) to remove them.
OneCheckRepairsAll ==
  [][/\ ongoing /\ ~ongoing' /\ ~Reconnect /\ writes' = began
     /\ \E t \in Threads : truth[t] # 0
     => \A k \in Keys : \/ Expected'[k] = truth'[k]
                       \/ \E j \in jobs \ jobs' : j.late /\ k \in j.answer.bad]_vars

\* Whatever updates were missed, however checks raced with writes and with
\* live updates, and whatever a time-out dropped, the client's store ends up
\* equal to the database once writes stop, unless stateCheckOngoing was left
\* set: by an exception in a handler, or by one whose next request timed out.
EventuallyInSync == <>[](view = truth \/ failed)
=============================================================================
