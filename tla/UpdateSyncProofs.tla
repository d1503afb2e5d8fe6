-------------------------- MODULE UpdateSyncProofs --------------------------
(***************************************************************************)
(* Proofs about UpdateSync, for any entities, any number of calls and      *)
(* faults, any kinds of update, with or without stale restarts; and, at    *)
(* the end, about the quiet environment of MCUpdateSync.                   *)
(***************************************************************************)
EXTENDS MCUpdateSync, FiniteSetTheorems, SequenceTheorems,
        WellFoundedInduction, TLAPS

-----------------------------------------------------------------------------
(* Helpers.                                                                *)

\* A nonempty set of numbers up to N has a largest element: the interval
\* above it is the smallest one, strict inclusion of finite sets being
\* well-founded.
LEMMA MaxExists ==
  ASSUME NEW N \in Nat, NEW T \in SUBSET (0..N), T # {}
  PROVE  \E x \in T : \A y \in T : x >= y
<1> DEFINE Above(x) == (x + 1)..N
           U == {Above(x) : x \in T}
           R == StrictSubsetOrdering(0..N)
<1>1. IsWellFoundedOn(R, FiniteSubsetsOf(0..N))
  BY FS_StrictSubsetOrderingWellFounded
<1>2. U \subseteq FiniteSubsetsOf(0..N)
  <2>1. ASSUME NEW x \in T PROVE Above(x) \in FiniteSubsetsOf(0..N)
    <3>1. Above(x) \subseteq 0..N  OBVIOUS
    <3>2. IsFiniteSet(0..N)  BY FS_Interval
    <3>3. IsFiniteSet(Above(x))  BY <3>1, <3>2, FS_Subset
    <3> QED BY <3>1, <3>3 DEF FiniteSubsetsOf
  <2> QED BY <2>1
<1>3. U # {}  OBVIOUS
<1>4. PICK u \in U : \A v \in U : ~(<<v, u>> \in R)
  <2> HIDE DEF U, R
  <2> QED BY <1>1, <1>2, <1>3, WFMin
<1>5. PICK x \in T : u = Above(x)  OBVIOUS
<1>6. ASSUME NEW y \in T, y > x PROVE FALSE
  <2>1. Above(y) \subseteq Above(x) /\ y \in Above(x) /\ y \notin Above(y)
    BY <1>6
  <2>2. <<Above(y), Above(x)>> \in R  BY <2>1 DEF StrictSubsetOrdering
  <2> QED BY <2>2, <1>4, <1>5
<1> QED BY <1>6

\* mostRecentUpdateTimestamp answers the latest of the updates' times.
LEMMA MostRecentIsOne ==
  ASSUME TypeOK, NEW ids \in SUBSET Calls, NEW t \in Times, ids # {}
  PROVE  /\ MostRecent(ids, t) \in {calls[x].time : x \in ids}
         /\ \A x \in {calls[x].time : x \in ids} : MostRecent(ids, t) >= x
<1> DEFINE T == {calls[x].time : x \in ids}
<1>1. T \in SUBSET (0..MaxCalls) /\ T # {}
  BY DEF TypeOK, Call, Times
<1>2. MaxCalls \in Nat  BY BoundsAssumption
<1>3. \E x \in T : \A y \in T : x >= y
  <2> HIDE DEF T
  <2> QED BY <1>1, <1>2, MaxExists
<1>4. Max(T) \in T /\ \A y \in T : Max(T) >= y
  <2> HIDE DEF T
  <2> QED BY <1>3 DEF Max
<1> QED BY <1>4 DEF MostRecent

\* So it is a time, and not before the one it is given if no update is.
LEMMA MostRecentBound ==
  ASSUME TypeOK, NEW ids \in SUBSET Calls, NEW t \in Times
  PROVE  /\ MostRecent(ids, t) \in Times
         /\ (\A x \in ids : calls[x].time > t) => MostRecent(ids, t) >= t
<1>1. {calls[x].time : x \in ids} \subseteq Times
  BY DEF TypeOK, Call
<1>2. Times \subseteq Nat  BY BoundsAssumption DEF Times
<1>3. CASE ids = {}  BY <1>2, <1>3 DEF MostRecent
<1>4. CASE ids # {}
  <2>1. MostRecent(ids, t) \in {calls[x].time : x \in ids}
    BY <1>4, MostRecentIsOne
  <2>2. PICK x \in ids : MostRecent(ids, t) = calls[x].time  BY <2>1
  <2>3. calls[x].time \in Nat /\ t \in Nat  BY <1>1, <1>2
  <2> QED BY <1>1, <2>2, <2>3
<1> QED BY <1>3, <1>4

\* laying news over a view gives a view
LEMMA MergeType ==
  ASSUME NEW view \in [Keys -> Versions], NEW news \in News
  PROVE  Merge(view, news) \in [Keys -> Versions]
BY DEF Merge, News

\* What a delta or a whole store holds for some keys is news of them.
LEMMA ContentType ==
  ASSUME TypeOK, NEW ks \in SUBSET Keys
  PROVE  Content(ks) \in News
BY DEF TypeOK, Content, News

\* what is left to do, the content and the deleted rows of a call may change
LEMMA CallType ==
  ASSUME NEW c \in Call, NEW todo \in SUBSET Work, NEW val \in Versions,
         NEW took \in SUBSET Calls
  PROVE  /\ [c EXCEPT !.todo = todo] \in Call
         /\ [c EXCEPT !.todo = todo, !.val = val] \in Call
         /\ [c EXCEPT !.todo = todo, !.took = took] \in Call
BY DEF Call

\* So is a single update.
LEMMA SomeNewsType ==
  ASSUME NEW k \in Keys, NEW v \in Versions
  PROVE  [x \in {k} |-> v] \in News
<1>1. [x \in {k} |-> v] \in [{k} -> Versions]  OBVIOUS
<1>2. {k} \in SUBSET Keys  OBVIOUS
<1> QED BY <1>1, <1>2 DEF News

\* So is nothing.
LEMMA NothingNew == [k \in {} |-> 0] \in News
<1>1. [k \in {} |-> 0] \in [{} -> Versions]  OBVIOUS
<1>2. {} \in SUBSET Keys  OBVIOUS
<1> QED BY <1>1, <1>2 DEF News

\* what an UPDATES message does to the checkpoint and the connection
LEMMA UpdatesReceived ==
  ASSUME TypeOK, ReceiveUpdates
  PROVE  /\ client'.asOf = NextAsOf(Head(wire))
         /\ client'.status = client.status
<1> DEFINE m == Head(wire)
           next == [client EXCEPT !.view = Merge(@, m.news), !.asOf = NextAsOf(m)]
<1>1. next.asOf = NextAsOf(m) /\ next.status = client.status
  <2> HIDE DEF m
  <2> QED BY DEF TypeOK
<1> QED BY <1>1 DEF ReceiveUpdates

Phase == {"none", "deciding", "full", "fetch", "hydrate", "reply", "live"}
Sock  == [phase : Phase, asOf : Times, saw : Times, found : SUBSET Calls,
          full : BOOLEAN, committed : BOOLEAN, news : News]

\* No socket is a socket value.
LEMMA NoSockType == NoSock \in Sock
BY NothingNew, BoundsAssumption DEF NoSock, Sock, Phase, Times

\* A state sync is a message, and no older than the checkpoint it starts from
\* if the updates it brings are all newer.
LEMMA StateSyncType ==
  ASSUME TypeOK
  PROVE  /\ StateSync \in Message
         /\ (\A x \in sock.found : calls[x].time > sock.asOf)
              => StateSync.asOf >= sock.asOf
<1>1. sock \in Sock  BY DEF TypeOK, Sock, Phase
<1>2. /\ MostRecent(sock.found, sock.asOf) \in Times
      /\ (\A x \in sock.found : calls[x].time > sock.asOf)
           => MostRecent(sock.found, sock.asOf) >= sock.asOf
  BY <1>1, MostRecentBound DEF Sock
<1>3. sock.asOf \in Nat  BY <1>1, BoundsAssumption DEF Sock, Times
<1> QED BY <1>1, <1>2, <1>3 DEF StateSync, Message, Sock

-----------------------------------------------------------------------------
(* Type correctness.                                                       *)

LEMMA TypeInit == Init => TypeOK
<1> SUFFICES ASSUME Init PROVE TypeOK
  OBVIOUS
<1>1. calls \in [Calls -> Call]
  BY KeysAssumption, BoundsAssumption DEF Init, Call, Times, Versions, Work
<1>2. sock \in Sock
  BY NoSockType DEF Init
<1> QED
  BY <1>1, <1>2, BoundsAssumption
  DEF Init, TypeOK, Sock, Phase, Times, Versions, Store

\* a new call, and the sessions table
LEMMA TypeDatabase ==
  ASSUME TypeOK,
         \/ \E k \in Keys, kind \in Kinds, t \in Times : CreateUpdates(k, kind, t)
         \/ \E t \in Times : CommitSessionUpdate(t) \/ DeleteExpiredUpdates(t)
  PROVE  TypeOK'
<1> USE BoundsAssumption
<1>1. ASSUME NEW k \in Keys, NEW kind \in Kinds, NEW t \in Times,
             CreateUpdates(k, kind, t)
      PROVE  TypeOK'
  <2> DEFINE todo == CASE kind = "own"  -> Work
                       [] kind = "self" -> {"delete", "hydrate", "reply"}
                       [] OTHER         -> {"insert", "publish", "delete"}
             new  == [key |-> k, kind |-> kind, time |-> t, todo |-> todo,
                      val |-> 0, took |-> {}]
  <2>1. todo \in SUBSET Work  BY DEF Work
  <2>2. new \in Call
    BY <2>1, KindsAssumption DEF Call, Versions
  <2>3. made' \in Calls /\ calls' = [calls EXCEPT ![made'] = new]
        /\ truth' = [truth EXCEPT ![k] = made']
    BY <1>1 DEF CreateUpdates, TypeOK, Calls, Versions
  <2>4. calls' \in [Calls -> Call]
    <3> HIDE DEF new
    <3> QED BY <2>2, <2>3 DEF TypeOK
  <2>5. truth' \in [Keys -> Versions] /\ made' \in Versions
    BY <2>3 DEF TypeOK, Calls, Versions
  <2> QED
    BY <1>1, <2>4, <2>5
    DEF CreateUpdates, TypeOK, sessionVars, socketVars, clientVars
<1>2. ASSUME NEW t \in Times, CommitSessionUpdate(t) PROVE TypeOK'
  BY <1>2 DEF CommitSessionUpdate, TypeOK, socketVars, clientVars
<1>3. ASSUME NEW t \in Times, DeleteExpiredUpdates(t) PROVE TypeOK'
  BY <1>3 DEF DeleteExpiredUpdates, TypeOK, sessionVars, socketVars, clientVars
<1> QED BY <1>1, <1>2, <1>3

\* the steps of a call
LEMMA TypeCall ==
  ASSUME TypeOK, NEW w \in Calls, CallStep(w) \/ LoseReply(w)
  PROVE  TypeOK'
<1> USE BoundsAssumption
<1>2. ASSUME NEW step \in Work, calls' = Did(w, step) PROVE calls' \in [Calls -> Call]
  <2>1. /\ calls[w] \in Call /\ calls[w].val \in Versions
        /\ calls[w].todo \ {step} \in SUBSET Work
    BY DEF TypeOK, Call
  <2>2. [calls[w] EXCEPT !.todo = calls[w].todo \ {step}] \in Call
    BY <2>1, CallType
  <2> QED BY <1>2, <2>2 DEF Did, TypeOK
<1>3. CASE InsertRow(w)
  BY <1>2, <1>3 DEF InsertRow, TypeOK, Work, sessionVars, socketVars, clientVars
<1>4. CASE Publish(w)
  <2>1. calls' \in [Calls -> Call]  BY <1>2, <1>4 DEF Publish, Work
  <2> DEFINE P == [call : Calls, val : Versions]
             e == [call |-> w, val |-> 0]
  <2>2. e \in P /\ inbox \in Seq(P)  BY DEF Versions, TypeOK
  <2>3. inbox' \in Seq(P)
    <3>1. inbox' = Append(inbox, e) \/ inbox' = inbox  BY <1>4 DEF Publish
    <3> HIDE DEF P, e
    <3> QED BY <2>2, <3>1, AppendProperties
  <2> QED BY <1>4, <2>1, <2>3 DEF Publish, TypeOK, sessionVars, clientVars
<1>5. ASSUME NEW timed \in BOOLEAN, DeleteSuperseded(w, timed) PROVE TypeOK'
  <2> DEFINE c == calls[w]
             todo == c.todo \ {"delete"}
             took == IF c.kind = "self" THEN c.took \cup Superseded(w, timed) ELSE c.took
             e == [c EXCEPT !.todo = todo, !.took = took]
  <2>1. c \in Call /\ todo \in SUBSET Work /\ took \in SUBSET Calls
    BY DEF TypeOK, Call, Superseded
  <2>2. e \in Call
    <3>1. 0 \in Versions  BY DEF Versions
    <3> HIDE DEF c, todo, took
    <3> QED BY <2>1, <3>1, CallType
  <2>3. calls' = [calls EXCEPT ![w] = e]  BY <1>5 DEF DeleteSuperseded
  <2>4. calls' \in [Calls -> Call]
    <3> HIDE DEF e
    <3> QED BY <2>2, <2>3 DEF TypeOK
  <2> QED
    BY <1>5, <2>4
    DEF DeleteSuperseded, TypeOK, sessionVars, socketVars, clientVars
<1>6. CASE HydrateReply(w)
  <2>1. truth[calls[w].key] \in Versions  BY DEF TypeOK, Call
  <2>2. calls' \in [Calls -> Call]
    <3> DEFINE c == calls[w]
               todo == c.todo \ {"hydrate"}
               val == truth[c.key]
               e == [c EXCEPT !.todo = todo, !.val = val]
    <3>1. c \in Call /\ todo \in SUBSET Work /\ val \in Versions
      BY <2>1 DEF TypeOK, Call
    <3>2. e \in Call
      <4> HIDE DEF c, todo, val
      <4> QED BY <3>1, CallType
    <3>3. calls' = [calls EXCEPT ![w] = e]  BY <1>6 DEF HydrateReply
    <3> HIDE DEF e
    <3> QED BY <3>2, <3>3 DEF TypeOK
  <2> QED
    BY <1>6, <2>2 DEF HydrateReply, TypeOK, sessionVars, socketVars, clientVars
<1>7. CASE ReceiveReply(w)
  <2>1. calls' \in [Calls -> Call]  BY <1>2, <1>7 DEF ReceiveReply, Work
  <2>2. calls[w].key \in Keys /\ calls[w].val \in Versions  BY DEF TypeOK, Call
  <2>3. client' \in [view : [Keys -> Versions], asOf : Times,
                     status : {"disconnected", "connecting", "connected"}]
    BY <1>7, <2>2 DEF ReceiveReply, TypeOK
  <2> QED BY <1>7, <2>1, <2>3 DEF ReceiveReply, TypeOK, sessionVars, socketVars
<1>8. CASE LoseReply(w)
  BY <1>2, <1>8 DEF LoseReply, TypeOK, Work, sessionVars, socketVars
<1> QED
  BY <1>3, <1>4, <1>5, <1>6, <1>7, <1>8 DEF CallStep

\* what the keyserver's side of a socket does
LEMMA TypeHandler == ASSUME TypeOK, HandlerStep PROVE TypeOK'
<1> USE DEF Phase
<1>1. sock \in Sock  BY DEF TypeOK, Sock
<1>2. CASE InvalidateSession
  BY <1>1, <1>2
  DEF InvalidateSession, TypeOK, Sock, dbVars, clientVars
<1>3. CASE ContinueSession
  BY <1>1, <1>3 DEF ContinueSession, TypeOK, Sock, dbVars, sessionVars, clientVars
<1>4. CASE FetchEverything
  <2>1. Content(Keys) \in News  BY ContentType
  <2> QED
    BY <1>1, <1>4, <2>1
    DEF FetchEverything, TypeOK, Sock, dbVars, sessionVars, clientVars
<1>5. CASE FetchUpdateInfos
  <2>1. NewerThan(sock.asOf) \subseteq Calls  BY DEF NewerThan, TypeOK
  <2> QED
    BY <1>1, <1>5, <2>1
    DEF FetchUpdateInfos, TypeOK, Sock, dbVars, sessionVars, clientVars
<1>6. CASE HydrateFetched
  <2>1. {calls[x].key : x \in sock.found} \in SUBSET Keys
    BY <1>1 DEF TypeOK, Sock, Call
  <2>2. Content({calls[x].key : x \in sock.found}) \in News
    BY <2>1, ContentType
  <2> QED
    BY <1>1, <1>6, <2>2
    DEF HydrateFetched, TypeOK, Sock, dbVars, sessionVars, clientVars
<1>7. CASE CommitInitial
  BY <1>1, <1>7
  DEF CommitInitial, InitialCheckpoint, TypeOK, Sock, clientVars
<1>8. CASE SendStateSync
  <2>1. wire' \in Seq(Message)
    BY <1>8, StateSyncType DEF SendStateSync, TypeOK
  <2> QED
    BY <1>1, <1>8, <2>1
    DEF SendStateSync, TypeOK, Sock, dbVars, sessionVars, clientVars
<1>9. CASE SubscriptionStarts
  BY <1>9 DEF SubscriptionStarts, TypeOK, dbVars, sessionVars, clientVars
<1>10. CASE SendUpdates
  <2> DEFINE w == Head(inbox).call
             k == calls[w].key
             m == [type |-> "updates", asOf |-> UpdatesAsOf(w), ids |-> {w},
                   news |-> [x \in {k} |-> Head(inbox).val]]
  <2>1. Head(inbox) \in [call : Calls, val : Versions]
        /\ Tail(inbox) \in Seq([call : Calls, val : Versions])
    BY <1>10, HeadTailProperties DEF SendUpdates, TypeOK
  <2>2. k \in Keys /\ UpdatesAsOf(w) \in Times
    BY <2>1 DEF TypeOK, Call, UpdatesAsOf
  <2>3. [x \in {k} |-> Head(inbox).val] \in News
    BY <2>1, <2>2, SomeNewsType
  <2>4. m \in Message  BY <2>1, <2>2, <2>3 DEF Message
  <2>5. wire' \in Seq(Message)
    BY <1>10, <2>4, AppendProperties DEF SendUpdates, TypeOK
  <2> QED
    BY <1>10, <2>1, <2>5 DEF SendUpdates, TypeOK, dbVars, sessionVars, clientVars
<1>11. ASSUME NEW i \in DOMAIN inbox, HydratePublished(i) PROVE TypeOK'
  <2> DEFINE P == [call : Calls, val : Versions]
             e == [inbox[i] EXCEPT !.val = truth[calls[inbox[i].call].key]]
  <2>1. inbox \in Seq(P) /\ i \in 1..Len(inbox) /\ inbox[i] \in P
    <3>1. inbox \in Seq(P)  BY DEF TypeOK
    <3> HIDE DEF P
    <3> QED BY <3>1, LenProperties, ElementOfSeq
  <2>2. e \in P
    <3>1. truth[calls[inbox[i].call].key] \in Versions
      BY <2>1 DEF TypeOK, Call
    <3> QED BY <2>1, <3>1
  <2>3. inbox' \in Seq(P)
    <3>1. inbox' = [inbox EXCEPT ![i] = e]  BY <1>11 DEF HydratePublished
    <3> HIDE DEF P, e
    <3> QED BY <2>1, <2>2, <3>1, ExceptSeq
  <2> QED
    BY <1>11, <2>3 DEF HydratePublished, TypeOK, dbVars, sessionVars, clientVars
<1> QED
  BY <1>2, <1>3, <1>4, <1>5, <1>6, <1>7, <1>8, <1>9, <1>10, <1>11 DEF HandlerStep

\* what the client does, and faults
LEMMA TypeClient ==
  ASSUME TypeOK, ClientStep \/ Persist \/ CloseSocket \/ Restart
  PROVE  TypeOK'
<1> USE BoundsAssumption
<1> DEFINE Client == [view : [Keys -> Versions], asOf : Times,
                      status : {"disconnected", "connecting", "connected"}]
<1>1. sock \in Sock /\ client \in Client /\ saved \in Store
  BY DEF TypeOK, Sock, Phase
<1>2. ASSUME wire # << >>
      PROVE  Head(wire) \in Message /\ Tail(wire) \in Seq(Message)
  BY <1>2, HeadTailProperties DEF TypeOK
<1>3. \A m \in Message : /\ NextAsOf(m) \in Times
                         /\ Larger(reached, NextAsOf(m)) \in Times
                         /\ Merge(client.view, m.news) \in [Keys -> Versions]
  BY <1>1, MergeType DEF Message, NextAsOf, Larger, TypeOK, Times
<1>4. \A t \in Times : [commits EXCEPT ![t] = @ + 1] \in [Times -> Nat]
  BY DEF TypeOK
<1>5. CASE OpenSocket
  <2>1. sock' \in Sock
    BY <1>1, <1>5, NoSockType DEF OpenSocket, Sock, Phase, TypeOK
  <2>2. client' \in Client  BY <1>1, <1>5 DEF OpenSocket
  <2> QED
    BY <1>5, <2>1, <2>2 DEF OpenSocket, Sock, Phase, TypeOK, dbVars, sessionVars
<1>6. CASE ReceiveStateSync
  <2> DEFINE m == Head(wire)
  <2>1. m \in Message /\ Tail(wire) \in Seq(Message) /\ m.asOf \in Times
    BY <1>2, <1>6 DEF ReceiveStateSync, Message
  <2>2. client' \in Client /\ reached' \in Times
    BY <1>3, <1>6, <2>1 DEF ReceiveStateSync
  <2>3. commits' \in [Times -> Nat] /\ wire' \in Seq(Message)
    BY <1>4, <1>6, <2>1 DEF ReceiveStateSync
  <2> QED
    BY <1>6, <2>2, <2>3 DEF ReceiveStateSync, TypeOK, dbVars
<1>7. CASE ReceiveUpdates
  <2> DEFINE m == Head(wire)
  <2>1. m \in Message /\ Tail(wire) \in Seq(Message) /\ m.asOf \in Times
    BY <1>2, <1>7 DEF ReceiveUpdates, Message
  <2>2. client' \in Client /\ reached' \in Times
    BY <1>1, <1>3, <1>7, <2>1 DEF ReceiveUpdates
  <2>3. commits' \in [Times -> Nat] /\ wire' \in Seq(Message)
    BY <1>4, <1>7, <2>1 DEF ReceiveUpdates, TypeOK
  <2> QED
    BY <1>7, <2>2, <2>3 DEF ReceiveUpdates, TypeOK, dbVars
<1>8. CASE Persist
  BY <1>1, <1>8 DEF Persist, Store, TypeOK, dbVars, sessionVars, socketVars
<1>9. ASSUME EndConnection
      PROVE  /\ sock' \in Sock /\ sub' = "off" /\ inbox' = << >> /\ wire' = << >>
             /\ commits' \in [Times -> Nat] /\ faults' \in 0..MaxFaults
  <2>1. sock.asOf \in Times  BY <1>1 DEF Sock
  <2>2. commits' \in [Times -> Nat]
    BY <1>4, <1>9, <2>1 DEF EndConnection, TypeOK
  <2> QED BY <1>9, <2>2, NoSockType DEF EndConnection, TypeOK
<1>10. CASE CloseSocket
  <2>1. UpdatesOnWire \subseteq Calls
    <3>1. \A i \in DOMAIN wire : wire[i] \in Message
      BY LenProperties, ElementOfSeq DEF TypeOK
    <3> QED BY <3>1 DEF UpdatesOnWire, Message
  <2>2. client' \in Client  BY <1>1, <1>10 DEF CloseSocket
  <2>3. wire' \in Seq(Message) /\ inbox' \in Seq([call : Calls, val : Versions])
    BY <1>9, <1>10 DEF CloseSocket
  <2> QED
    BY <1>9, <1>10, <2>1, <2>2, <2>3
    DEF CloseSocket, TypeOK, Sock, Phase, dbVars
<1>11. CASE Restart
  <2>1. client' \in Client  BY <1>1, <1>11 DEF Restart, Store
  <2>2. \A w \in Calls : [calls[w] EXCEPT !.todo = @ \ {"reply"}] \in Call
    BY CallType, ZenonT(40) DEF TypeOK, Call
  <2>3. calls' \in [Calls -> Call]  BY <1>11, <2>2 DEF Restart
  <2>4. wire' \in Seq(Message) /\ inbox' \in Seq([call : Calls, val : Versions])
    BY <1>9, <1>11 DEF Restart
  <2> QED
    BY <1>9, <1>11, <2>1, <2>3, <2>4 DEF Restart, TypeOK, Sock, Phase
<1> QED BY <1>5, <1>6, <1>7, <1>8, <1>10, <1>11 DEF ClientStep

\* Every step keeps the types.
LEMMA TypeStep == TypeOK /\ [Next]_vars => TypeOK'
<1> SUFFICES ASSUME TypeOK, [Next]_vars PROVE TypeOK'
  OBVIOUS
<1>1. CASE UNCHANGED vars
  BY <1>1 DEF TypeOK, vars, dbVars, sessionVars, socketVars, clientVars
<1> QED BY <1>1, TypeDatabase, TypeCall, TypeHandler, TypeClient DEF Next

\* Every reachable state of the update protocol has the types TypeOK gives:
\* in particular no checkpoint, on either side or on the wire, is a time
\* that no call was made at.
THEOREM TypeCorrect == Spec => []TypeOK
BY TypeInit, TypeStep, PTL DEF Spec

-----------------------------------------------------------------------------
(* The keyserver never assumes a checkpoint the client has not reached.    *)
(* Every place the keyserver takes a checkpoint from has to be bounded:    *)
(* the client's, the saved store a restart may return to, and the one an   *)
(* INITIAL message in progress carries.                                    *)

Bounded ==
  /\ client.asOf <= reached
  /\ saved.asOf <= reached
  /\ sock.phase # "none" => sock.asOf <= reached
  /\ ServerNeverAhead

\* At first no checkpoint is ahead of the client's.
LEMMA BoundedInit == Init => Bounded
BY BoundsAssumption DEF Init, Bounded, ServerNeverAhead, NoSock, Times

\* Every step keeps it so.
LEMMA BoundedStep == TypeOK /\ Bounded /\ [Next]_vars => Bounded'
<1> SUFFICES ASSUME TypeOK, Bounded, [Next]_vars PROVE Bounded'
  OBVIOUS
<1> USE DEF Bounded, ServerNeverAhead
<1>1. /\ sock \in Sock /\ reached \in Nat /\ lastUpdate \in Nat
      /\ client.asOf \in Times /\ saved.asOf \in Times /\ Times \subseteq Nat
      /\ commits \in [Times -> Nat]
  <2>1. Times \subseteq Nat  BY BoundsAssumption DEF Times
  <2>2. sock \in Sock  BY DEF TypeOK, Sock, Phase
  <2> QED BY <2>1, <2>2 DEF TypeOK, Store
<1>2. ASSUME wire # << >> PROVE Head(wire).asOf \in Times
  <2>1. Head(wire) \in Message  BY <1>2, HeadTailProperties DEF TypeOK
  <2> QED BY <2>1 DEF Message
<1>3. \A t \in Times, r \in Nat :
        reached <= r /\ t <= r
        => \A u \in Times : [commits EXCEPT ![t] = @ + 1][u] > 0 => u <= r
  BY <1>1
<1>4. CASE UNCHANGED vars
  BY <1>4 DEF vars, dbVars, sessionVars, socketVars, clientVars
<1>5. ASSUME NEW k \in Keys, NEW kind \in Kinds, NEW t \in Times,
             CreateUpdates(k, kind, t)
      PROVE  Bounded'
  BY <1>5 DEF CreateUpdates, sessionVars, socketVars, clientVars
<1>6. ASSUME NEW w \in Calls, CallStep(w) \/ LoseReply(w) PROVE Bounded'
  <2>1. /\ UNCHANGED <<sessionVars, sock, saved, reached>>
        /\ client'.asOf = client.asOf
    BY <1>6
    DEF CallStep, InsertRow, Publish, DeleteSuperseded, HydrateReply,
        ReceiveReply, LoseReply, sessionVars, socketVars, clientVars, TypeOK
  <2> QED BY <2>1 DEF sessionVars
<1>7. ASSUME NEW t \in Times, CommitSessionUpdate(t) PROVE Bounded'
  <2>1. \A u \in Times : commits'[u] > 0 => commits[u] > 0
    BY <1>1, <1>7 DEF CommitSessionUpdate
  <2>2. t <= reached  BY <1>7 DEF CommitSessionUpdate
  <2> QED
    BY <1>7, <2>1, <2>2 DEF CommitSessionUpdate, socketVars, clientVars
<1>8. ASSUME NEW t \in Times, DeleteExpiredUpdates(t) PROVE Bounded'
  BY <1>8 DEF DeleteExpiredUpdates, sessionVars, socketVars, clientVars
<1>9. CASE HandlerStep
  <2>1. /\ UNCHANGED <<client, saved, reached, commits>>
        /\ sock'.asOf = sock.asOf
        /\ sock'.phase # "none" => sock.phase # "none"
        /\ lastUpdate' # lastUpdate =>
             sock.phase # "none" /\ lastUpdate' = sock.asOf
    BY <1>1, <1>9
    DEF HandlerStep, InvalidateSession, ContinueSession, FetchEverything,
        FetchUpdateInfos, HydrateFetched, CommitInitial, InitialCheckpoint,
        SendStateSync, SubscriptionStarts, SendUpdates, HydratePublished,
        sessionVars, clientVars, Sock
  <2> QED BY <2>1
<1>10. CASE OpenSocket
  BY <1>1, <1>10 DEF OpenSocket, NoSock, sessionVars
<1>11. ASSUME NEW t \in Times, NEW asOf \in {t, Larger(t, client.asOf)},
              reached' = Larger(reached, asOf), client'.asOf = asOf,
              commits' \in {commits, [commits EXCEPT ![t] = @ + 1]},
              UNCHANGED <<lastUpdate, sock, saved>>
       PROVE  Bounded'
  <2>1. t \in Nat /\ client.asOf \in Nat  BY <1>1
  <2>2. /\ reached' \in Nat /\ reached <= reached' /\ t <= reached'
        /\ client'.asOf <= reached'
    BY <1>1, <1>11, <2>1 DEF Larger
  <2>3. \A u \in Times : commits'[u] > 0 => u <= reached'
    BY <1>1, <1>3, <1>11, <2>2
  <2>4. saved.asOf \in Nat /\ sock.asOf \in Nat  BY <1>1 DEF Sock
  <2> QED BY <1>1, <1>11, <2>2, <2>3, <2>4
<1>12. ASSUME ReceiveStateSync \/ ReceiveUpdates PROVE Bounded'
  <2> DEFINE m == Head(wire)
  <2>1. m.asOf \in Times
    BY <1>2, <1>12 DEF ReceiveStateSync, ReceiveUpdates
  <2>2. NextAsOf(m) \in {m.asOf, Larger(m.asOf, client.asOf)}  BY DEF NextAsOf
  <2>3. /\ reached' = Larger(reached, NextAsOf(m))
        /\ client'.asOf = NextAsOf(m)
        /\ commits' \in {commits, [commits EXCEPT ![m.asOf] = @ + 1]}
        /\ UNCHANGED <<lastUpdate, sock, saved>>
    <3>1. CASE ReceiveStateSync  BY <3>1 DEF ReceiveStateSync
    <3>2. CASE ReceiveUpdates  BY <3>2, UpdatesReceived DEF ReceiveUpdates
    <3> QED BY <1>12, <3>1, <3>2
  <2> HIDE DEF m
  <2> QED BY <1>11, <2>1, <2>2, <2>3
<1>13. CASE Persist
  BY <1>13 DEF Persist, sessionVars, socketVars
<1>14. ASSUME EndConnection
       PROVE  /\ sock'.phase = "none"
              /\ \A t \in Times : commits'[t] > 0 => t <= reached
  BY <1>1, <1>3, <1>14 DEF EndConnection, NoSock, Sock
<1>15. CASE CloseSocket
  BY <1>14, <1>15 DEF CloseSocket, TypeOK
<1>16. CASE Restart
  BY <1>14, <1>16 DEF Restart
<1> QED
  BY <1>4, <1>5, <1>6, <1>7, <1>8, <1>9, <1>10, <1>12, <1>13, <1>15, <1>16
  DEF Next, ClientStep

\* sessions.last_update, and every write of it that is still to come, stays
\* at or below the highest checkpoint the client has had, so the expiry of
\* updates never runs ahead of the client.
THEOREM NeverAhead == Spec => []ServerNeverAhead
<1>1. TypeOK /\ Bounded /\ [Next]_vars => TypeOK' /\ Bounded'
  BY TypeStep, BoundedStep
<1>2. Bounded => ServerNeverAhead  BY DEF Bounded
<1> QED BY TypeInit, BoundedInit, <1>1, <1>2, PTL DEF Spec

-----------------------------------------------------------------------------
(* Calls still to be made have no time and no work, and what the call of   *)
(* a step does leaves its entity, its kind and its time alone.  So the     *)
(* updates an INITIAL handler has found stay newer than its checkpoint.    *)

Unmade == \A w \in Calls : w > made => /\ calls[w].time = 0
                                      /\ calls[w].todo = {}
                                      /\ calls[w].took = {}

FoundNewer ==
  /\ Unmade
  /\ \A x \in sock.found : calls[x].time > sock.asOf

\* A step of a call takes work off its list and does nothing to other calls.
LEMMA CallOnly ==
  ASSUME TypeOK, NEW w \in Calls, CallStep(w) \/ LoseReply(w)
  PROVE  /\ UNCHANGED <<made, sock, reached>>
         /\ calls[w].todo # {}
         /\ \A x \in Calls : /\ calls'[x].key = calls[x].key
                             /\ calls'[x].time = calls[x].time
                             /\ calls'[x].kind = calls[x].kind
                             /\ calls'[x].todo \subseteq calls[x].todo
                             /\ x # w => calls'[x] = calls[x]
<1>1. calls[w] \in Call /\ \A x \in Calls : calls[x] \in Call  BY DEF TypeOK
<1>2. ASSUME NEW step \in Work, step \in calls[w].todo,
             \/ calls' = Did(w, step)
             \/ \E v : calls' = [calls EXCEPT ![w].todo = @ \ {step}, ![w].val = v]
             \/ \E t : calls' = [calls EXCEPT ![w].todo = @ \ {step}, ![w].took = t],
             UNCHANGED <<made, sock, reached>>
      PROVE  /\ UNCHANGED <<made, sock, reached>>
             /\ calls[w].todo # {}
             /\ \A x \in Calls : /\ calls'[x].key = calls[x].key
                                 /\ calls'[x].time = calls[x].time
                                 /\ calls'[x].kind = calls[x].kind
                                 /\ calls'[x].todo \subseteq calls[x].todo
                                 /\ x # w => calls'[x] = calls[x]
  <2>1. /\ calls'[w].key = calls[w].key /\ calls'[w].time = calls[w].time
        /\ calls'[w].kind = calls[w].kind
        /\ calls'[w].todo = calls[w].todo \ {step}
    <3>1. CASE calls' = Did(w, step)  BY <1>1, <3>1 DEF Did, TypeOK, Call
    <3>2. CASE \E v : calls' = [calls EXCEPT ![w].todo = @ \ {step}, ![w].val = v]
      BY <1>1, <3>2 DEF TypeOK, Call
    <3>3. CASE \E t : calls' = [calls EXCEPT ![w].todo = @ \ {step}, ![w].took = t]
      BY <1>1, <3>3 DEF TypeOK, Call
    <3> QED BY <1>2, <3>1, <3>2, <3>3
  <2>2. \A x \in Calls : x # w => calls'[x] = calls[x]
    BY <1>2 DEF Did, TypeOK
  <2> QED BY <1>2, <2>1, <2>2
<1>3. CASE InsertRow(w)  BY <1>2, <1>3 DEF InsertRow, socketVars, clientVars, Work
<1>4. CASE Publish(w)  BY <1>2, <1>4 DEF Publish, clientVars, Work
<1>5. ASSUME NEW timed \in BOOLEAN, DeleteSuperseded(w, timed)
      PROVE  \E t : calls' = [calls EXCEPT ![w].todo = @ \ {"delete"}, ![w].took = t]
  BY <1>5 DEF DeleteSuperseded
<1>6. ASSUME NEW timed \in BOOLEAN, DeleteSuperseded(w, timed)
      PROVE  "delete" \in calls[w].todo /\ UNCHANGED <<made, sock, reached>>
  BY <1>6 DEF DeleteSuperseded, socketVars, clientVars
<1>7. CASE \E timed \in BOOLEAN : DeleteSuperseded(w, timed)
  BY <1>2, <1>5, <1>6, <1>7 DEF Work
<1>8. CASE HydrateReply(w)
  <2>1. \E v : calls' = [calls EXCEPT ![w].todo = @ \ {"hydrate"}, ![w].val = v]
    BY <1>8 DEF HydrateReply
  <2> QED BY <1>2, <1>8, <2>1 DEF HydrateReply, socketVars, clientVars, Work
<1>9. CASE ReceiveReply(w)  BY <1>2, <1>9 DEF ReceiveReply, socketVars, Work
<1>10. CASE LoseReply(w)  BY <1>2, <1>10 DEF LoseReply, socketVars, Work
<1> QED BY <1>3, <1>4, <1>7, <1>8, <1>9, <1>10 DEF CallStep

\* At first there is no call and no handler.
LEMMA FoundInit == Init => FoundNewer
BY DEF Init, FoundNewer, Unmade, NoSock

\* Every step leaves found updates newer than the handler's checkpoint.
LEMMA FoundStep == TypeOK /\ FoundNewer /\ [Next]_vars => FoundNewer'
<1> SUFFICES ASSUME TypeOK, FoundNewer, [Next]_vars PROVE FoundNewer'
  OBVIOUS
<1> USE DEF FoundNewer, Unmade
<1>1. /\ sock \in Sock /\ made \in Nat /\ Times \subseteq Nat
      /\ sock.found \subseteq Calls /\ sock.asOf \in Nat
      /\ \A w \in Calls : calls[w] \in Call
  <2>1. sock \in Sock  BY DEF TypeOK, Sock, Phase
  <2>2. Times \subseteq Nat /\ Versions \subseteq Nat
    BY BoundsAssumption DEF Times, Versions
  <2> QED BY <2>1, <2>2 DEF TypeOK, Sock
\* steps that leave the calls alone and find nothing new
<1>2. ASSUME UNCHANGED <<calls, made>>,
             \/ sock'.found = {}
             \/ sock'.found = sock.found /\ sock'.asOf = sock.asOf
      PROVE  FoundNewer'
  BY <1>1, <1>2
<1>3. CASE UNCHANGED vars  BY <1>2, <1>3 DEF vars, dbVars, socketVars
<1>4. ASSUME NEW k \in Keys, NEW kind \in Kinds, NEW t \in Times,
             CreateUpdates(k, kind, t)
      PROVE  FoundNewer'
  <2>1. /\ made' = made + 1 /\ sock' = sock
        /\ \A x \in Calls : x # made' => calls'[x] = calls[x]
    BY <1>1, <1>4 DEF CreateUpdates, TypeOK, socketVars
  <2>2. \A x \in sock.found : x # made'
    BY <1>1, <2>1
  <2> QED BY <1>1, <2>1, <2>2 DEF Calls
<1>5. ASSUME NEW w \in Calls, CallStep(w) \/ LoseReply(w) PROVE FoundNewer'
  <2>1. /\ UNCHANGED <<made, sock>> /\ calls[w].todo # {}
        /\ \A x \in Calls : /\ calls'[x].time = calls[x].time
                            /\ x # w => calls'[x] = calls[x]
    BY <1>5, CallOnly
  <2> QED BY <1>1, <2>1
<1>6. ASSUME NEW t \in Times, CommitSessionUpdate(t) \/ DeleteExpiredUpdates(t)
      PROVE  FoundNewer'
  BY <1>2, <1>6 DEF CommitSessionUpdate, DeleteExpiredUpdates, socketVars
<1>7. ASSUME FetchUpdateInfos PROVE FoundNewer'
  <2>1. /\ UNCHANGED <<calls, made>>
        /\ sock'.found = NewerThan(sock.asOf) /\ sock'.asOf = sock.asOf
    BY <1>1, <1>7 DEF FetchUpdateInfos, dbVars, Sock
  <2> QED BY <1>1, <2>1 DEF NewerThan
<1>8. ASSUME HandlerStep, ~FetchUpdateInfos PROVE FoundNewer'
  <2>1. /\ UNCHANGED <<calls, made>>
        /\ sock'.found = sock.found /\ sock'.asOf = sock.asOf
    BY <1>1, <1>8
    DEF HandlerStep, InvalidateSession, ContinueSession, FetchEverything,
        HydrateFetched, CommitInitial, SendStateSync, SubscriptionStarts,
        SendUpdates, HydratePublished, dbVars, Sock
  <2> QED BY <1>2, <2>1
<1>9. CASE ClientStep
  BY <1>2, <1>9
  DEF ClientStep, OpenSocket, ReceiveStateSync, ReceiveUpdates, NoSock, dbVars
<1>10. CASE Persist  BY <1>2, <1>10 DEF Persist, dbVars, socketVars
<1>11. CASE CloseSocket
  BY <1>2, <1>11 DEF CloseSocket, EndConnection, NoSock, dbVars
<1>12. CASE Restart
  <2>1. \A w \in Calls : /\ calls'[w].time = calls[w].time
                         /\ calls'[w].took = calls[w].took
                         /\ calls'[w].todo \subseteq calls[w].todo
    BY <1>1, <1>12 DEF Restart, Call
  <2>2. made' = made /\ sock'.found = {}
    BY <1>12 DEF Restart, EndConnection, NoSock
  <2> QED BY <1>1, <2>1, <2>2
<1> QED
  BY <1>3, <1>4, <1>5, <1>6, <1>7, <1>8, <1>9, <1>10, <1>11, <1>12 DEF Next

-----------------------------------------------------------------------------
(* No message lowers the client's checkpoint.  A state sync is the only    *)
(* message that could, and there is at most one: it is the first message   *)
(* of its connection, and until it is received the client's checkpoint is  *)
(* the one the INITIAL message carried, which the answer cannot be below.  *)

Asked == sock.phase \in {"deciding", "full", "fetch", "hydrate", "reply"}

Handshake ==
  /\ client.status = "disconnected" => sock.phase = "none"
  /\ sock.phase # "live" => wire = << >> /\ sub = "off" /\ inbox = << >>
  /\ Asked => sock.asOf = client.asOf
  /\ \A i \in 1..Len(wire) :
       wire[i].type # "updates" => i = 1 /\ wire[i].asOf >= client.asOf

\* At first the handshake is in order.
LEMMA HandshakeInit == Init => Handshake
BY DEF Init, Handshake, NoSock, Asked

\* reading a message keeps the rest of the wire free of state syncs
LEMMA HandshakeTail ==
  ASSUME TypeOK, Handshake, wire # << >>, wire' = Tail(wire)
  PROVE  \A i \in 1..Len(wire') : wire'[i].type = "updates"
<1>1. /\ wire \in Seq(Message) /\ Len(wire') = Len(wire) - 1 /\ Len(wire) \in Nat
      /\ \A i \in 1..Len(Tail(wire)) : Tail(wire)[i] = wire[i + 1]
  BY HeadTailProperties, LenProperties DEF TypeOK
<1>2. \A i \in 1..Len(wire') : i + 1 \in 1..Len(wire) /\ i + 1 # 1
  BY <1>1
<1> QED BY <1>1, <1>2 DEF Handshake

\* Every step keeps it in order.
LEMMA HandshakeStep ==
  TypeOK /\ FoundNewer /\ Handshake /\ [Next]_vars => Handshake'
<1> SUFFICES ASSUME TypeOK, FoundNewer, Handshake, [Next]_vars PROVE Handshake'
  OBVIOUS
<1>1. /\ sock \in Sock /\ wire \in Seq(Message) /\ Len(wire) \in Nat
      /\ client.asOf \in Nat /\ Times \subseteq Nat
  BY LenProperties, BoundsAssumption DEF TypeOK, Sock, Phase, Times
\* steps that leave the connection and the checkpoint alone
<1>2. ASSUME UNCHANGED <<sock, sub, wire, client.asOf, client.status>>,
             inbox' = inbox \/ sub = "on" \/ inbox # << >>
      PROVE  Handshake'
  BY <1>2 DEF Handshake, Asked
<1>3. CASE UNCHANGED vars
  BY <1>2, <1>3 DEF vars, socketVars, clientVars
<1>4. ASSUME NEW k \in Keys, NEW kind \in Kinds, NEW t \in Times,
             CreateUpdates(k, kind, t)
      PROVE  Handshake'
  BY <1>2, <1>4 DEF CreateUpdates, socketVars, clientVars
<1>5. ASSUME NEW w \in Calls, CallStep(w) \/ LoseReply(w) PROVE Handshake'
  <2>1. /\ UNCHANGED <<sock, sub, wire, client.asOf, client.status>>
        /\ inbox' = inbox \/ sub = "on"
    BY <1>5
    DEF CallStep, InsertRow, Publish, DeleteSuperseded, HydrateReply,
        ReceiveReply, LoseReply, socketVars, clientVars, TypeOK
  <2> QED BY <1>2, <2>1
<1>6. ASSUME NEW t \in Times, CommitSessionUpdate(t) \/ DeleteExpiredUpdates(t)
      PROVE  Handshake'
  BY <1>2, <1>6
  DEF CommitSessionUpdate, DeleteExpiredUpdates, socketVars, clientVars
<1>7. CASE HandlerStep
  <2>1. ASSUME \/ InvalidateSession \/ ContinueSession \/ FetchEverything
               \/ FetchUpdateInfos \/ HydrateFetched \/ CommitInitial
        PROVE  Handshake'
    <3>1. /\ UNCHANGED <<sub, inbox, wire, client>>
          /\ sock'.asOf = sock.asOf /\ Asked /\ Asked'
      BY <1>1, <2>1
      DEF InvalidateSession, ContinueSession, FetchEverything, FetchUpdateInfos,
          HydrateFetched, CommitInitial, Asked, clientVars, Sock
    <3> QED BY <3>1 DEF Handshake, Asked
  <2>2. CASE SendStateSync
    <3>1. /\ sock.phase = "reply" /\ wire = << >> /\ client' = client
          /\ sock'.phase = "live" /\ wire' = Append(wire, StateSync)
      BY <1>1, <2>2 DEF SendStateSync, Handshake, clientVars, Sock
    <3>2. StateSync \in Message /\ StateSync.asOf >= client.asOf
      BY <3>1, StateSyncType DEF Handshake, Asked, FoundNewer
    <3>3. Len(wire') = 1 /\ wire'[1] = StateSync
      BY <3>1, <3>2, AppendProperties, EmptySeq DEF TypeOK
    <3> QED BY <3>1, <3>2, <3>3 DEF Handshake, Asked
  <2>3. CASE SubscriptionStarts
    BY <2>3 DEF SubscriptionStarts, Handshake, Asked, clientVars
  <2>4. CASE SendUpdates
    <3>1. /\ sock.phase = "live" /\ UNCHANGED <<sock, sub, client>>
      BY <2>4 DEF SendUpdates, Handshake, clientVars
    <3> DEFINE w == Head(inbox).call
               m == [type |-> "updates", asOf |-> UpdatesAsOf(w), ids |-> {w},
                     news |-> [x \in {calls[w].key} |-> Head(inbox).val]]
    <3>2. wire' = Append(wire, m) /\ m.type = "updates"
      BY <2>4 DEF SendUpdates
    <3> HIDE DEF m
    <3>3. \A i \in 1..Len(wire') : \/ i \in 1..Len(wire) /\ wire'[i] = wire[i]
                                   \/ wire'[i] = m
      BY <1>1, <3>2
    <3> QED BY <3>1, <3>2, <3>3 DEF Handshake, Asked
  <2>5. ASSUME NEW i \in DOMAIN inbox, HydratePublished(i) PROVE Handshake'
    BY <2>5 DEF HydratePublished, Handshake, Asked, clientVars
  <2> QED BY <1>7, <2>1, <2>2, <2>3, <2>4, <2>5 DEF HandlerStep
<1>8. CASE OpenSocket
  <2>1. /\ wire = << >> /\ UNCHANGED <<wire, sub, inbox>>
        /\ client'.asOf = client.asOf /\ client'.status = "connecting"
        /\ sock'.asOf = client.asOf /\ sub = "off" /\ inbox = << >>
    BY <1>8 DEF OpenSocket, Handshake, NoSock, TypeOK
  <2> QED BY <2>1 DEF Handshake, Asked
<1>9. ASSUME ReceiveStateSync \/ ReceiveUpdates PROVE Handshake'
  <2>1. /\ wire # << >> /\ wire' = Tail(wire)
        /\ UNCHANGED <<sock, sub, inbox>>
        /\ client'.status = "disconnected" => client.status = "disconnected"
    BY <1>9, UpdatesReceived DEF ReceiveStateSync, ReceiveUpdates
  <2>2. sock.phase = "live"  BY <2>1 DEF Handshake
  <2>3. \A i \in 1..Len(wire') : wire'[i].type = "updates"
    BY <2>1, HandshakeTail
  <2> QED BY <2>1, <2>2, <2>3 DEF Handshake, Asked
<1>10. CASE Persist
  BY <1>2, <1>10 DEF Persist, socketVars
<1>11. ASSUME EndConnection PROVE Handshake'
  <2>1. /\ sock'.phase = "none" /\ sub' = "off"
        /\ inbox' = << >> /\ wire' = << >>
    BY <1>11 DEF EndConnection, NoSock
  <2> QED BY <2>1 DEF Handshake, Asked
<1>12. CASE CloseSocket  BY <1>11, <1>12 DEF CloseSocket
<1>13. CASE Restart  BY <1>11, <1>13 DEF Restart
<1> QED
  BY <1>3, <1>4, <1>5, <1>6, <1>7, <1>8, <1>9, <1>10, <1>12, <1>13
  DEF Next, ClientStep

\* One step never lowers the client's checkpoint, a restart excepted.
LEMMA CheckpointStep ==
  TypeOK /\ Handshake /\ [Next]_vars =>
    \/ client'.asOf >= client.asOf
    \/ Restart /\ client'.asOf = saved.asOf
    \/ UNCHANGED vars
<1> SUFFICES ASSUME TypeOK, Handshake, Next, ~UNCHANGED vars
             PROVE  \/ client'.asOf >= client.asOf
                    \/ Restart /\ client'.asOf = saved.asOf
  OBVIOUS
<1>1. client.asOf \in Nat  BY BoundsAssumption DEF TypeOK, Times
<1>2. CASE ReceiveStateSync
  <2>1. wire # << >> /\ Head(wire) = wire[1] /\ 1 \in 1..Len(wire)
        /\ Head(wire).type # "updates"
    BY <1>2, EmptySeq DEF ReceiveStateSync, TypeOK
  <2>2. client'.asOf = Head(wire).asOf
    BY <1>2 DEF ReceiveStateSync, NextAsOf
  <2> QED BY <2>1, <2>2 DEF Handshake
<1>3. CASE ReceiveUpdates
  <2>1. Head(wire).asOf \in Nat
    <3>1. Head(wire) \in Message
      BY <1>3, HeadTailProperties DEF ReceiveUpdates, TypeOK
    <3> QED BY <3>1, BoundsAssumption DEF Message, Times
  <2> DEFINE m == Head(wire)
  <2>2. client'.asOf = NextAsOf(m)  BY <1>3, UpdatesReceived
  <2>3. NextAsOf(m) = Larger(m.asOf, client.asOf)
    BY <1>3 DEF ReceiveUpdates, NextAsOf
  <2> QED BY <1>1, <2>1, <2>2, <2>3 DEF Larger
<1>4. CASE Restart
  <2>1. client'.asOf \in {saved.asOf, client.asOf}  BY <1>4 DEF Restart
  <2> QED BY <1>1, <1>4, <2>1
<1>5. ASSUME OpenSocket \/ CloseSocket PROVE client'.asOf = client.asOf
  <2>1. CASE OpenSocket  BY <2>1 DEF OpenSocket, TypeOK
  <2>2. CASE CloseSocket  BY <2>2 DEF CloseSocket, TypeOK
  <2> QED BY <1>5, <2>1, <2>2
<1>6. ASSUME NEW w \in Calls, ReceiveReply(w) PROVE client'.asOf = client.asOf
  BY <1>6 DEF ReceiveReply, TypeOK
<1>7. ASSUME NEW k \in Keys, NEW kind \in Kinds, NEW t \in Times, CreateUpdates(k, kind, t)
      PROVE  client' = client
  BY <1>7 DEF CreateUpdates, clientVars
<1>8. ASSUME NEW w \in Calls, CallStep(w) \/ LoseReply(w), ~ReceiveReply(w)
      PROVE  client' = client
  BY <1>8
  DEF CallStep, InsertRow, Publish, DeleteSuperseded, HydrateReply, LoseReply,
      clientVars
<1>9. ASSUME NEW t \in Times, CommitSessionUpdate(t) \/ DeleteExpiredUpdates(t)
      PROVE  client' = client
  BY <1>9 DEF CommitSessionUpdate, DeleteExpiredUpdates, clientVars
<1>10. ASSUME HandlerStep \/ Persist PROVE client' = client
  BY <1>10
  DEF HandlerStep, InvalidateSession, ContinueSession, FetchEverything,
      FetchUpdateInfos, HydrateFetched, CommitInitial, SendStateSync,
      SubscriptionStarts, SendUpdates, HydratePublished, Persist, clientVars
<1> QED
  BY <1>1, <1>2, <1>3, <1>4, <1>5, <1>6, <1>7, <1>8, <1>9, <1>10
  DEF Next, ClientStep

\* However messages, closes and restarts interleave, the reducer's bare
\* assignment of a state sync's checkpoint never moves it backwards.
THEOREM NeverBackwards == Spec => CheckpointNeverBackwards
<1>1. TypeOK /\ FoundNewer /\ Handshake /\ [Next]_vars
      => TypeOK' /\ FoundNewer' /\ Handshake'
  BY TypeStep, FoundStep, HandshakeStep
<1>2. TypeOK /\ Handshake /\ [Next]_vars =>
        [client'.asOf >= client.asOf \/ (Restart /\ client'.asOf = saved.asOf)]_vars
  BY CheckpointStep
<1> QED
  BY TypeInit, FoundInit, HandshakeInit, <1>1, <1>2, PTL
  DEF Spec, CheckpointNeverBackwards

-----------------------------------------------------------------------------
(* An update above the checkpoint can be downloaded until a later update   *)
(* of its entity stands for it, and then that one can.  A row leaves the   *)
(* table in three ways: as superseded, as targeted, and as expired; the    *)
(* last two go by times the keyserver never has beyond the client's        *)
(* (Bounded).  A call that supersedes the one that stood for an update     *)
(* stands for the update itself, and if its own row is gone already, some  *)
(* call stands for that: the induction goes by what Redownloadable says of *)
(* the superseding call.                                                   *)

\* At first there is nothing to download.
LEMMA DownloadInit == Init => Redownloadable
BY DEF Init, Redownloadable, Calls

\* Work that is done stays done, so a call goes on standing for another.
LEMMA StandsOn ==
  ASSUME \A x \in Calls : /\ calls'[x].key = calls[x].key
                          /\ calls'[x].time = calls[x].time
                          /\ calls'[x].kind = calls[x].kind
                          /\ calls'[x].todo \subseteq calls[x].todo
  PROVE  \A x, w \in Calls : StandsFor(x, w) => StandsFor(x, w)'
BY DEF StandsFor, Covers

\* A call is no later than one that stands for it, and standing is transitive.
LEMMA StandsLater ==
  ASSUME TypeOK, NEW x \in Calls, NEW w \in Calls, StandsFor(x, w)
  PROVE  /\ calls[x].time >= calls[w].time
         /\ \A y \in Calls : StandsFor(y, x) => StandsFor(y, w)
<1>1. /\ \A v \in Calls : calls[v] \in Call
      /\ Times \subseteq Nat
  BY BoundsAssumption DEF TypeOK, Times
<1>2. \A v \in Calls : calls[v].time \in Nat  BY <1>1 DEF Call
<1> QED BY <1>2 DEF StandsFor, Covers

\* steps that make no call: times and keys stay, work only gets done, and
\* no row goes that is not covered by the checkpoint or answered with
LEMMA WorkDone ==
  ASSUME TypeOK, Redownloadable,
         made' = made, reached' \in Nat, reached' >= reached,
         \A x \in Calls : /\ calls'[x].key = calls[x].key
                          /\ calls'[x].time = calls[x].time
                          /\ calls'[x].kind = calls[x].kind
                          /\ calls'[x].todo \subseteq calls[x].todo
                          /\ calls[x].took \subseteq calls'[x].took
                          /\ \/ "insert" \notin calls[x].todo
                             \/ "insert" \in calls'[x].todo
                             \/ x \in rows',
         \A x \in rows \ rows' : \/ calls[x].time <= reached'
                                 \/ \E s \in Calls : x \in calls'[s].took
  PROVE  Redownloadable'
<1> SUFFICES ASSUME NEW w \in Calls, w <= made', calls'[w].kind # "self",
                    calls'[w].time > reached'
             PROVE  Kept(w)'
  BY DEF Redownloadable
<1>1. /\ reached \in Nat
      /\ \A v \in Calls : calls[v] \in Call /\ calls[v].time \in Nat
  <2>1. Times \subseteq Nat  BY BoundsAssumption DEF Times
  <2>2. \A v \in Calls : calls[v] \in Call  BY DEF TypeOK
  <2> QED BY <2>1, <2>2 DEF TypeOK, Call
<1>2. Kept(w)  BY <1>1 DEF Redownloadable
<1>3. PICK x \in Calls : /\ StandsFor(x, w)
                         /\ \/ x \in rows
                            \/ "insert" \in calls[x].todo
                            \/ \E s \in Calls : x \in calls[s].took
  BY <1>2 DEF Kept
<1>4. StandsFor(x, w)'  BY <1>3, StandsOn
<1>5. calls[x].time > reached'
  BY <1>1, <1>3, StandsLater
<1>6. \/ x \in rows'
      \/ "insert" \in calls'[x].todo
      \/ \E s \in Calls : x \in calls'[s].took
  <2>1. CASE x \in rows  BY <1>1, <1>5, <2>1
  <2>2. CASE "insert" \in calls[x].todo  BY <2>2
  <2>3. CASE \E s \in Calls : x \in calls[s].took  BY <2>3
  <2> QED BY <1>3, <2>1, <2>2, <2>3
<1> QED BY <1>4, <1>6 DEF Kept

\* deleting superseded rows
LEMMA DeleteKeeps ==
  ASSUME TypeOK, FoundNewer, Redownloadable,
         NEW v \in Calls, NEW timed \in BOOLEAN, DeleteSuperseded(v, timed)
  PROVE  Redownloadable'
<1>1. /\ reached \in Nat /\ made \in Nat /\ rows \subseteq Calls
      /\ \A x \in Calls : calls[x] \in Call /\ calls[x].time \in Nat
  <2>1. Times \subseteq Nat /\ Versions \subseteq Nat
    BY BoundsAssumption DEF Times, Versions
  <2>2. \A x \in Calls : calls[x] \in Call  BY DEF TypeOK
  <2> QED BY <2>1, <2>2 DEF TypeOK, Call
<1>2. /\ UNCHANGED <<made, reached>>
      /\ \A x \in Calls : /\ calls'[x].key = calls[x].key
                          /\ calls'[x].time = calls[x].time
                          /\ calls'[x].kind = calls[x].kind
                          /\ calls'[x].todo \subseteq calls[x].todo
                          /\ x # v => calls'[x] = calls[x]
  BY CallOnly DEF CallStep
<1>3. /\ "delete" \in calls[v].todo
      /\ calls'[v].todo = calls[v].todo \ {"delete"}
      /\ calls'[v].took = IF calls[v].kind = "self"
                          THEN calls[v].took \cup Superseded(v, timed)
                          ELSE calls[v].took
      /\ rows' = rows \ Superseded(v, timed)
  BY <1>1 DEF DeleteSuperseded, TypeOK, Call
<1>4. v <= made
  <2>1. v \in Nat  BY DEF Calls
  <2> QED BY <1>1, <1>3, <2>1 DEF FoundNewer, Unmade
<1>5. \A x \in Calls : /\ "insert" \in calls[x].todo => "insert" \in calls'[x].todo
                      /\ calls[x].took \subseteq calls'[x].took
  BY <1>2, <1>3
<1>6. CASE calls[v].kind = "self"
  <2>1. \A x \in rows \ rows' : x \in calls'[v].took  BY <1>3, <1>6
  <2> QED BY <1>1, <1>2, <1>5, <2>1, WorkDone
<1>7. CASE calls[v].kind # "self"
  <2>1. timed  BY <1>7 DEF DeleteSuperseded
  <2>2. SUFFICES ASSUME NEW w \in Calls, w <= made', calls'[w].kind # "self",
                        calls'[w].time > reached'
                 PROVE  Kept(w)'
    BY DEF Redownloadable
  <2>3. Kept(w)  BY <1>2, <2>2 DEF Redownloadable
  <2>4. PICK x \in Calls : /\ StandsFor(x, w)
                           /\ \/ x \in rows
                              \/ "insert" \in calls[x].todo
                              \/ \E s \in Calls : x \in calls[s].took
    BY <2>3 DEF Kept
  <2>5. \A y, u \in Calls : StandsFor(y, u) => StandsFor(y, u)'
    BY <1>2, StandsOn
  <2>6. CASE \/ x \in rows'
             \/ "insert" \in calls[x].todo
             \/ \E s \in Calls : x \in calls[s].took
    BY <1>5, <2>4, <2>5, <2>6 DEF Kept
  <2>7. CASE x \in Superseded(v, timed)
    <3>1. Covers(v, x) /\ calls[v].time > calls[x].time
      BY <1>1, <2>1, <2>7 DEF Superseded
    <3>2. calls[x].time >= calls[w].time  BY <2>4, StandsLater
    <3>3. calls[v].time > reached /\ calls[v].time > calls[w].time
      BY <1>1, <1>2, <2>2, <3>1, <3>2
    <3>4. Covers(v, w)  BY <2>4, <3>1 DEF StandsFor, Covers
    <3>5. \A y \in Calls : StandsFor(y, v) => StandsFor(y, w)'
      <4>1. SUFFICES ASSUME NEW y \in Calls, StandsFor(y, v) PROVE StandsFor(y, w)'
        OBVIOUS
      <4>2. CASE y = v
        BY <1>2, <1>3, <3>3, <3>4, <4>2 DEF StandsFor, Covers
      <4>3. CASE y # v
        <5>1. /\ Covers(y, v) /\ calls[y].time > calls[v].time
              /\ "delete" \notin calls[y].todo
          BY <4>1, <4>3 DEF StandsFor
        <5>2. Covers(y, w) /\ calls[y].time > calls[w].time
          BY <1>1, <3>3, <3>4, <5>1 DEF Covers
        <5> QED BY <1>2, <4>3, <5>1, <5>2 DEF StandsFor, Covers
      <4> QED BY <4>2, <4>3
    <3>6. Kept(v)  BY <1>4, <1>7, <3>3 DEF Redownloadable
    <3>7. PICK z \in Calls : /\ StandsFor(z, v)
                             /\ \/ z \in rows
                                \/ "insert" \in calls[z].todo
                                \/ \E s \in Calls : z \in calls[s].took
      BY <3>6 DEF Kept
    <3>8. z \in rows => z \in rows'
      <4>1. calls[z].time >= calls[v].time  BY <3>7, StandsLater
      <4> QED BY <1>1, <1>3, <2>1, <4>1 DEF Superseded
    <3> QED BY <1>5, <3>5, <3>7, <3>8 DEF Kept
  <2> QED BY <1>3, <2>4, <2>6, <2>7
<1> QED BY <1>6, <1>7

\* Every step leaves what the client has not seen to be downloaded again.
LEMMA DownloadStep ==
  TypeOK /\ Bounded /\ FoundNewer /\ Redownloadable /\ [Next]_vars
    => Redownloadable'
<1> SUFFICES ASSUME TypeOK, Bounded, FoundNewer, Redownloadable, [Next]_vars
             PROVE  Redownloadable'
  OBVIOUS
<1>1. /\ reached \in Nat /\ lastUpdate \in Nat /\ Times \subseteq Nat
      /\ made \in Nat /\ rows \subseteq Calls /\ sock \in Sock
      /\ \A w \in Calls : calls[w] \in Call /\ calls[w].time \in Nat
  <2>1. Times \subseteq Nat /\ Versions \subseteq Nat
    BY BoundsAssumption DEF Times, Versions
  <2>2. reached \in Nat /\ lastUpdate \in Nat /\ made \in Nat
    BY <2>1 DEF TypeOK
  <2>3. rows \subseteq Calls /\ sock \in Sock  BY DEF TypeOK, Sock, Phase
  <2>4. \A w \in Calls : calls[w] \in Call  BY DEF TypeOK
  <2>5. \A w \in Calls : calls[w].time \in Nat  BY <2>1, <2>4 DEF Call
  <2> QED BY <2>1, <2>2, <2>3, <2>4, <2>5
\* steps that make no call, do no work and expire only what is covered
<1>2. ASSUME UNCHANGED <<calls, made>>, reached' \in Nat, reached' >= reached,
             \A w \in rows \ rows' : calls[w].time <= reached'
      PROVE  Redownloadable'
  BY <1>2, WorkDone
<1>3. ASSUME UNCHANGED <<calls, made, rows, reached>>
      PROVE  Redownloadable'
  BY <1>1, <1>2, <1>3
<1>4. CASE UNCHANGED vars
  BY <1>3, <1>4 DEF vars, dbVars, clientVars
<1>5. ASSUME NEW k \in Keys, NEW kind \in Kinds, NEW t \in Times,
             CreateUpdates(k, kind, t)
      PROVE  Redownloadable'
  <2>1. /\ made' = made + 1 /\ made' \in Calls /\ UNCHANGED <<rows, reached>>
        /\ \A x \in Calls : x # made' => calls'[x] = calls[x]
        /\ calls'[made'].kind # "self" => "insert" \in calls'[made'].todo
    <3>1. made' \in Calls  BY <1>1, <1>5, BoundsAssumption DEF CreateUpdates, Calls
    <3> QED
      BY <1>1, <1>5, <3>1 DEF CreateUpdates, TypeOK, clientVars, Work
  <2>2. SUFFICES ASSUME NEW w \in Calls, w <= made', calls'[w].kind # "self",
                        calls'[w].time > reached'
                 PROVE  Kept(w)'
    BY DEF Redownloadable
  <2>3. CASE w = made'
    BY <2>1, <2>2, <2>3 DEF Kept, StandsFor
  <2>4. CASE w # made'
    <3>1. w <= made  BY <1>1, <2>1, <2>2, <2>4 DEF Calls
    <3>2. calls'[w] = calls[w]  BY <2>1, <2>4
    <3>3. Kept(w)  BY <2>1, <2>2, <3>1, <3>2 DEF Redownloadable
    <3>4. PICK x \in Calls : /\ StandsFor(x, w)
                             /\ \/ x \in rows
                                \/ "insert" \in calls[x].todo
                                \/ \E s \in Calls : x \in calls[s].took
      BY <3>3 DEF Kept
    <3>5. made' > made  BY <1>1, <2>1
    <3>6. x # made'
      <4>1. calls[made'].time = 0  BY <2>1, <3>5 DEF FoundNewer, Unmade
      <4>2. x = made' => calls[made'].time > calls[w].time
        BY <2>4, <3>4 DEF StandsFor
      <4> QED BY <1>1, <4>1, <4>2
    <3>7. StandsFor(x, w)'
      BY <2>1, <3>2, <3>4, <3>6 DEF StandsFor, Covers
    <3>8. \A s \in Calls : x \in calls[s].took => x \in calls'[s].took
      BY <2>1, <3>5 DEF FoundNewer, Unmade
    <3> QED BY <2>1, <3>4, <3>6, <3>7, <3>8 DEF Kept
  <2> QED BY <2>3, <2>4
<1>6. ASSUME NEW w \in Calls, CallStep(w) \/ LoseReply(w),
             ~\E timed \in BOOLEAN : DeleteSuperseded(w, timed)
      PROVE  Redownloadable'
  <2>1. \A x \in Calls : calls[x].took \subseteq calls'[x].took
    <3>1. CASE \E step \in Work : calls' = Did(w, step)
      BY <1>1, <3>1 DEF Did, TypeOK, Call
    <3>2. CASE HydrateReply(w)
      BY <1>1, <3>2 DEF HydrateReply, TypeOK, Call
    <3> QED
      BY <1>6, <3>1, <3>2
      DEF CallStep, InsertRow, Publish, ReceiveReply, LoseReply, Work
  <2>2. rows \subseteq rows'
    BY <1>6
    DEF CallStep, InsertRow, Publish, HydrateReply, ReceiveReply, LoseReply
  <2>3. ASSUME NEW x \in Calls
        PROVE  \/ "insert" \notin calls[x].todo
               \/ "insert" \in calls'[x].todo
               \/ x \in rows'
    <3>1. CASE InsertRow(w)
      <4>1. x = w => x \in rows'  BY <3>1 DEF InsertRow
      <4>2. x # w => calls'[x] = calls[x]  BY <1>6, CallOnly
      <4> QED BY <4>1, <4>2
    <3>2. CASE \E step \in Work \ {"insert"} : calls' = Did(w, step)
      BY <1>1, <3>2 DEF Did, TypeOK, Call
    <3>3. CASE HydrateReply(w)
      BY <1>1, <3>3 DEF HydrateReply, TypeOK, Call
    <3> QED
      BY <1>6, <3>1, <3>2, <3>3
      DEF CallStep, Publish, ReceiveReply, LoseReply, Work
  <2>4. /\ UNCHANGED <<made, reached>>
        /\ \A x \in Calls : /\ calls'[x].key = calls[x].key
                            /\ calls'[x].time = calls[x].time
                            /\ calls'[x].kind = calls[x].kind
                            /\ calls'[x].todo \subseteq calls[x].todo
    BY <1>6, CallOnly
  <2>5. reached' \in Nat /\ reached' >= reached  BY <1>1, <2>4
  <2> QED BY <2>1, <2>2, <2>3, <2>4, <2>5, WorkDone
<1>7. ASSUME NEW w \in Calls, CallStep(w) \/ LoseReply(w)
      PROVE  Redownloadable'
  BY <1>6, <1>7, DeleteKeeps
<1>8. ASSUME NEW t \in Times, CommitSessionUpdate(t)
      PROVE  Redownloadable'
  <2>1. t \in Nat /\ t <= reached
    BY <1>1, <1>8 DEF CommitSessionUpdate, Bounded, ServerNeverAhead
  <2>2. UNCHANGED <<calls, made, reached>> /\ rows' = rows \ TargetedUpTo(t)
    BY <1>8 DEF CommitSessionUpdate, clientVars
  <2>3. \A w \in rows \ rows' : calls[w].time <= reached'
    BY <1>1, <2>1, <2>2 DEF TargetedUpTo
  <2> QED BY <1>1, <1>2, <2>2, <2>3
<1>9. ASSUME NEW t \in Times, DeleteExpiredUpdates(t)
      PROVE  Redownloadable'
  <2>1. t \in Nat /\ t <= lastUpdate /\ lastUpdate <= reached
    BY <1>1, <1>9 DEF DeleteExpiredUpdates, Bounded, ServerNeverAhead
  <2>2. /\ UNCHANGED <<calls, made, reached>>
        /\ rows' = {x \in rows : calls[x].time >= t}
    BY <1>9 DEF DeleteExpiredUpdates, clientVars
  <2>3. \A w \in rows \ rows' : calls[w].time <= reached'
    BY <1>1, <2>1, <2>2
  <2> QED BY <1>1, <1>2, <2>2, <2>3
<1>10. CASE CommitInitial
  <2>1. sock.asOf \in Nat /\ sock.asOf <= reached
    BY <1>1, <1>10 DEF CommitInitial, Bounded, Sock
  <2>2. /\ UNCHANGED <<calls, made, reached>>
        /\ rows' = rows \ TargetedUpTo(sock.asOf)
    BY <1>10 DEF CommitInitial, clientVars
  <2>3. \A w \in rows \ rows' : calls[w].time <= reached'
    BY <1>1, <2>1, <2>2 DEF TargetedUpTo
  <2> QED BY <1>1, <1>2, <2>2, <2>3
<1>11. ASSUME HandlerStep, ~CommitInitial
       PROVE  Redownloadable'
  BY <1>3, <1>11
  DEF HandlerStep, InvalidateSession, ContinueSession, FetchEverything,
      FetchUpdateInfos, HydrateFetched, SendStateSync, SubscriptionStarts,
      SendUpdates, HydratePublished, dbVars, clientVars
<1>12. CASE ClientStep
  <2>1. CASE OpenSocket  BY <1>3, <2>1 DEF OpenSocket, dbVars
  <2>2. CASE ReceiveStateSync \/ ReceiveUpdates
    <3> DEFINE m == Head(wire)
    <3>1. Head(wire) \in Message
      BY <2>2, HeadTailProperties DEF ReceiveStateSync, ReceiveUpdates, TypeOK
    <3>2. NextAsOf(m) \in Nat
      BY <1>1, <3>1 DEF NextAsOf, Larger, Message, TypeOK
    <3>3. reached' = Larger(reached, NextAsOf(m)) /\ UNCHANGED dbVars
      BY <2>2 DEF ReceiveStateSync, ReceiveUpdates
    <3>4. reached' \in Nat /\ reached' >= reached
      <4> HIDE DEF m
      <4> QED BY <1>1, <3>2, <3>3 DEF Larger
    <3> QED BY <1>2, <3>3, <3>4 DEF dbVars
  <2> QED BY <1>12, <2>1, <2>2 DEF ClientStep
<1>13. CASE Persist  BY <1>3, <1>13 DEF Persist, dbVars
<1>14. CASE CloseSocket  BY <1>3, <1>14 DEF CloseSocket, dbVars
<1>15. CASE Restart
  <2>1. \A w \in Calls : /\ calls'[w].key = calls[w].key
                         /\ calls'[w].time = calls[w].time
                         /\ calls'[w].kind = calls[w].kind
                         /\ calls'[w].took = calls[w].took
                         /\ calls'[w].todo = calls[w].todo \ {"reply"}
    BY <1>1, <1>15 DEF Restart, Call
  <2>2. UNCHANGED <<made, rows, reached>>  BY <1>15 DEF Restart
  <2> QED BY <1>1, <2>1, <2>2, WorkDone
<1> QED
  BY <1>4, <1>5, <1>7, <1>8, <1>9, <1>10, <1>11, <1>12, <1>13, <1>14, <1>15
  DEF Next

\* However calls, acknowledgements, the cron job and restarts interleave, of
\* an update above every checkpoint the client has had, or of a later update
\* of its entity, the row is in the updates table; or that later call is just
\* inserting it, or a change of the session's own deleted it, whose answer
\* brings the entity.
THEOREM UpdatesKept == Spec => []Redownloadable
<1>1. /\ TypeOK /\ Bounded /\ FoundNewer /\ Redownloadable /\ [Next]_vars
      => TypeOK' /\ Bounded' /\ FoundNewer' /\ Redownloadable'
  BY TypeStep, BoundedStep, FoundStep, DownloadStep
<1> QED BY TypeInit, BoundedInit, FoundInit, DownloadInit, <1>1, PTL DEF Spec

-----------------------------------------------------------------------------
(* The quiet environment of MCUpdateSync.  A call is over before the next  *)
(* one is made, and the connection delivers calls one after another: the   *)
(* client has everything up to some call, the updates of the following     *)
(* calls are on the wire and in the inbox, and of the last call perhaps    *)
(* not even that.  The state sync bridges the gap between the client's     *)
(* checkpoint and the first of these updates.                              *)

\* What the environment does not do: change anything over HTTP on behalf of
\* this session, whose reply may get lost, or come back with an older store.
Plain == Kinds \cap {"own", "self"} = {} /\ ~StaleRestarts

\* The calls made so far were made one at a time, at the times 1, 2 and so
\* on, so that the database has the content of the last call for an entity.
Serial ==
  /\ \A w \in Calls : w <= made => /\ calls[w].time = w
                                   /\ calls[w].kind \notin {"own", "self"}
  /\ \A w \in Calls : calls[w].took = {}
  /\ \A w \in Calls : calls[w].todo # {} => w = made
  /\ \A w \in Calls : calls[w].todo \cap {"hydrate", "reply"} = {}
  /\ \A k \in Keys : truth[k] <= made /\ (truth[k] # 0 => calls[truth[k]].key = k)
  /\ \A w \in Calls : w <= made => w <= truth[calls[w].key]

\* Nothing is published in the blind window.
Idle == Blind => ~Active

\* The client is not ahead of the database, and has all calls up to its
\* checkpoint.
Behind ==
  /\ \A k \in Keys : client.view[k] <= truth[k]
  /\ client.asOf = reached /\ reached <= made
  /\ \A w \in Calls : w <= client.asOf => w <= client.view[calls[w].key]
  /\ \A w \in ignored : w <= made

\* The INITIAL handler finds every update the client lacks, and answers with
\* the content of the database.
Answers ==
  /\ \A x \in sock.found : x <= made
  /\ sock.phase = "hydrate" =>
       \A k \in Keys : client.view[k] # truth[k] => truth[k] \in sock.found
  /\ sock.phase = "reply" =>
       /\ \A k \in DOMAIN sock.news : sock.news[k] = truth[k]
       /\ \A k \in Keys : client.view[k] # truth[k] => k \in DOMAIN sock.news

\* No state sync is on the wire.
Synced == wire # << >> => wire[1].type = "updates"

\* What the client has of an entity, with the state sync on the wire if there
\* is one.
After(k) == IF ~Synced /\ k \in DOMAIN wire[1].news THEN wire[1].news[k]
            ELSE client.view[k]

\* The last call that has been published, the last one whose update has been
\* sent, and the last one before the updates on the wire.
Last    == IF made # 0 /\ "publish" \in calls[made].todo THEN made - 1 ELSE made
Sent    == Last - Len(inbox)
Covered == IF Synced THEN Sent - Len(wire) ELSE Sent - Len(wire) + 1

\* content v was read after call c
Recent(v, c) == v \in c..truth[calls[c].key]

\* message m is the update of call c
IsUpdate(m, c) ==
  /\ c \in 1..made
  /\ m.asOf = c /\ m.ids = {c} /\ DOMAIN m.news = {calls[c].key}
  /\ Recent(m.news[calls[c].key], c)

InboxInOrder ==
  \A i \in 1..Len(inbox) :
    /\ inbox[i].call = Sent + i
    /\ inbox[i].val # 0 => Recent(inbox[i].val, inbox[i].call)

WireInOrder ==
  \A i \in 1..Len(wire) :
    wire[i].type = "updates" => IsUpdate(wire[i], Sent - Len(wire) + i)

\* Nothing is between the checkpoint and the updates on the wire.
NoGap ==
  /\ 0 <= Covered /\ client.asOf <= Covered
  /\ ~Synced => /\ wire[1].asOf <= Covered
                /\ \A k \in DOMAIN wire[1].news : wire[1].news[k] <= truth[k]
  /\ \A w \in Calls : w <= Covered => w <= After(calls[w].key)

Stream ==
  sock.phase = "live" => sub # "off" /\ InboxInOrder /\ WireInOrder /\ NoGap

Known == TypeOK /\ Bounded /\ FoundNewer /\ Handshake /\ Redownloadable

Calm == Serial /\ Idle /\ Behind /\ Answers /\ Stream

\* What the types say, with the bounds as numbers.
LEMMA QuietFacts ==
  ASSUME TypeOK
  PROVE  /\ MaxCalls \in Nat /\ Calls = 1..MaxCalls
         /\ made \in Nat /\ made <= MaxCalls
         /\ client.asOf \in Nat /\ reached \in Nat
         /\ wire \in Seq(Message) /\ Len(wire) \in Nat
         /\ inbox \in Seq([call : Calls, val : Versions]) /\ Len(inbox) \in Nat
         /\ \A k \in Keys : truth[k] \in Nat /\ client.view[k] \in Nat
         /\ \A w \in Calls : calls[w].key \in Keys /\ calls[w].time \in Nat
<1>1. MaxCalls \in Nat /\ Times \subseteq Nat /\ Versions = 0..MaxCalls
  BY BoundsAssumption DEF Times, Versions
<1>2. made \in Nat /\ made <= MaxCalls /\ Calls = 1..MaxCalls
  BY <1>1 DEF TypeOK, Calls
<1>3. client.asOf \in Nat /\ reached \in Nat  BY <1>1 DEF TypeOK
<1>4. /\ wire \in Seq(Message) /\ Len(wire) \in Nat
      /\ inbox \in Seq([call : Calls, val : Versions]) /\ Len(inbox) \in Nat
  BY LenProperties DEF TypeOK
<1>5. \A k \in Keys : truth[k] \in Nat /\ client.view[k] \in Nat
  BY <1>1 DEF TypeOK
<1>6. \A w \in Calls : calls[w].key \in Keys /\ calls[w].time \in Nat
  BY <1>1 DEF TypeOK, Call
<1> QED BY <1>1, <1>2, <1>3, <1>4, <1>5, <1>6

\* Last is made, or one before it
LEMMA LastBounds ==
  ASSUME TypeOK, Serial
  PROVE  /\ Last \in Nat /\ Last <= made
         /\ ~Active => Last = made
<1>1. made \in Nat /\ Calls = 1..MaxCalls /\ made <= MaxCalls  BY QuietFacts
<1>2. ASSUME made # 0, ~Active PROVE "publish" \notin calls[made].todo
  BY <1>1, <1>2 DEF Active
<1> QED BY <1>1, <1>2 DEF Last

\* a step that makes no call
Steady ==
  /\ made' = made /\ truth' = truth
  /\ \A w \in Calls : /\ calls'[w].key = calls[w].key
                      /\ calls'[w].time = calls[w].time
                      /\ calls'[w].kind = calls[w].kind
                      /\ calls'[w].took = calls[w].took
                      /\ calls'[w].todo \subseteq calls[w].todo

\* Calls that only do their work stay one at a time.
LEMMA SerialStays ==
  ASSUME TypeOK, Serial, Steady
  PROVE  Serial' /\ (Active' => Active)
<1>1. \A k \in Keys : truth[k] # 0 => truth[k] \in Calls
  BY QuietFacts DEF Serial
<1>2. \A k \in Keys : truth'[k] # 0 => calls'[truth'[k]].key = k
  BY <1>1 DEF Serial, Steady
<1>3. \A w \in Calls : calls'[w].todo # {} => w = made'
  BY DEF Serial, Steady
<1>4. \A w \in Calls : calls'[w].todo \cap {"hydrate", "reply"} = {}
  BY DEF Serial, Steady
<1>5. Serial'
  BY <1>2, <1>3, <1>4 DEF Serial, Steady
<1>6. Active' => Active  BY DEF Active, Steady
<1> QED BY <1>5, <1>6

\* The client, untouched, stays behind the database.
LEMMA BehindStays ==
  ASSUME TypeOK, Behind, Steady, client'.view = client.view,
         client'.asOf = client.asOf, reached' = reached, ignored' = ignored
  PROVE  Behind'
BY DEF Behind, Steady

\* So does the answer of an INITIAL handler that goes on with it.
LEMMA AnswersStay ==
  ASSUME TypeOK, Answers, Steady, client'.view = client.view,
         sock'.phase \in {sock.phase, "none", "deciding", "full", "fetch", "live"},
         sock'.found \in {sock.found, {}}, sock'.found = sock.found \/ sock'.phase # "hydrate",
         sock'.news = sock.news \/ sock'.phase # "reply"
  PROVE  Answers'
BY DEF Answers, Steady

\* What is on the wire stays in order, though the database may go on.
LEMMA WireStays ==
  ASSUME TypeOK, WireInOrder, NoGap, wire' = wire,
         client'.view = client.view, client'.asOf = client.asOf,
         Sent' = Sent, Sent \in Int, Sent <= made, made <= made', made' \in Nat,
         \A w \in Calls : w <= made => calls'[w].key = calls[w].key,
         \A k \in Keys : truth[k] <= truth'[k] /\ truth'[k] \in Nat
  PROVE  WireInOrder' /\ NoGap'
<1>1. /\ Len(wire) \in Nat /\ made \in Nat
      /\ Calls = 1..MaxCalls /\ MaxCalls \in Nat /\ made <= MaxCalls
      /\ \A k \in Keys : truth[k] \in Nat
      /\ \A w \in Calls : calls[w].key \in Keys
  BY QuietFacts
<1>2. /\ (Synced' <=> Synced) /\ Covered' = Covered
      /\ \A k \in Keys : After(k)' = After(k)
  BY DEF Synced, Covered, After
<1>3. Covered \in Int /\ Covered <= made
  <2>1. ~Synced => Len(wire) # 0  BY EmptySeq DEF Synced, TypeOK
  <2> QED BY <1>1, <2>1 DEF Covered
<1>4. WireInOrder'
  <2>1. ASSUME NEW i \in 1..Len(wire), wire[i].type = "updates"
        PROVE  IsUpdate(wire[i], Sent - Len(wire) + i)'
    <3> DEFINE c == Sent - Len(wire) + i
               v == wire[i].news[calls[c].key]
    <3>1. IsUpdate(wire[i], c)  BY <2>1 DEF WireInOrder
    <3>2. c' = c  OBVIOUS
    <3>3. Recent(v, c)  BY <3>1 DEF IsUpdate
    <3> HIDE DEF c
    <3>4. c \in 1..made /\ c \in Calls /\ c \in 1..made'
      BY <1>1, <3>1 DEF IsUpdate
    <3>5. calls'[c].key = calls[c].key  BY <1>1, <3>4
    <3>6. v \in c..truth'[calls'[c].key]
      <4> HIDE DEF v
      <4>1. calls[c].key \in Keys  BY <1>1, <3>4
      <4> QED BY <1>1, <3>3, <3>4, <3>5, <4>1 DEF Recent
    <3>7. IsUpdate(wire[i], c)'
      BY <3>1, <3>2, <3>4, <3>5, <3>6 DEF IsUpdate, Recent
    <3> QED BY <3>7 DEF c
  <2> QED BY <2>1 DEF WireInOrder
<1>5. NoGap'
  <2>1. ASSUME NEW w \in Calls, w <= Covered
        PROVE  w <= After(calls[w].key)' /\ calls'[w].key = calls[w].key
    <3>1. w <= made /\ calls'[w].key = calls[w].key  BY <1>1, <1>3, <2>1
    <3> QED BY <1>1, <1>2, <2>1, <3>1 DEF NoGap
  <2>2. ~Synced => \A k \in DOMAIN wire[1].news : wire[1].news[k] <= truth'[k]
    <3> SUFFICES ASSUME ~Synced, NEW k \in DOMAIN wire[1].news
                 PROVE  wire[1].news[k] <= truth'[k]
      OBVIOUS
    <3>1. wire[1] \in Message  BY <1>1, EmptySeq DEF Synced, TypeOK
    <3>2. k \in Keys /\ wire[1].news[k] \in Nat
      BY <3>1, BoundsAssumption DEF Message, News, Versions
    <3> QED BY <1>1, <3>2 DEF NoGap
  <2> QED BY <1>2, <2>1, <2>2 DEF NoGap
<1> QED BY <1>4, <1>5

\* So do the updates waiting to be sent.
LEMMA InboxStays ==
  ASSUME TypeOK, InboxInOrder, NEW i \in 1..Len(inbox),
         Len(inbox) \in Nat, Last \in Nat, Last <= made, made \in Nat,
         \A w \in Calls : w <= made => calls'[w].key = calls[w].key,
         \A k \in Keys : truth[k] <= truth'[k] /\ truth'[k] \in Nat
  PROVE  /\ inbox[i].call \in Calls /\ inbox[i].call \in 1..made
         /\ inbox[i].call = Sent + i
         /\ inbox[i].val # 0 =>
              inbox[i].val \in inbox[i].call..truth'[calls'[inbox[i].call].key]
<1> DEFINE S == [call : Calls, val : Versions]
<1>1. inbox[i].call \in Calls
  <2>1. inbox[i] \in S
    <3> HIDE DEF S
    <3>1. inbox \in Seq(S)  BY DEF TypeOK, S
    <3> QED BY <3>1, ElementOfSeq
  <2> QED BY <2>1
<1>2. inbox[i].call = Sent + i
      /\ (inbox[i].val # 0 => Recent(inbox[i].val, inbox[i].call))
  BY DEF InboxInOrder
<1>3. inbox[i].call \in 1..made
  BY <1>1, <1>2, QuietFacts DEF Sent
<1>4. /\ calls[inbox[i].call].key \in Keys
      /\ calls'[inbox[i].call].key = calls[inbox[i].call].key
      /\ truth[calls[inbox[i].call].key] \in Nat
  <2> DEFINE w == inbox[i].call
  <2>1. calls[w].key \in Keys  BY <1>1, QuietFacts
  <2>2. truth[calls[w].key] \in Nat  BY <2>1, QuietFacts
  <2>3. w <= made  BY <1>3
  <2> HIDE DEF w
  <2>4. calls'[w].key = calls[w].key  BY <1>1, <2>3 DEF w
  <2> QED BY <2>1, <2>2, <2>4 DEF w
<1> DEFINE c == inbox[i].call
           k == calls[c].key
<1>5. inbox[i].val # 0 => inbox[i].val \in c..truth[k]
  BY <1>2 DEF Recent
<1>6. c \in Nat /\ k \in Keys /\ truth[k] \in Nat /\ truth[k] <= truth'[k]
  BY <1>3, <1>4
<1>7. calls'[c].key = k  BY <1>4
<1>8. inbox[i].val # 0 => inbox[i].val \in c..truth'[k]
  <2> HIDE DEF c, k
  <2> QED BY <1>5, <1>6
<1> QED BY <1>1, <1>2, <1>3, <1>7, <1>8

\* what the stream is made of stays, though the database may go on
LEMMA StreamStays ==
  ASSUME TypeOK, Stream, sock.phase = "live", sub' # "off",
         inbox' = inbox, wire' = wire,
         client'.view = client.view, client'.asOf = client.asOf,
         Last' = Last, made <= made',
         \A w \in Calls : w <= made => calls'[w].key = calls[w].key,
         \A k \in Keys : truth[k] <= truth'[k] /\ truth'[k] \in Nat,
         Last <= made, Last \in Nat, made' \in Nat
  PROVE  Stream'
<1>1. Len(inbox) \in Nat /\ made \in Nat  BY QuietFacts
<1>2. InboxInOrder /\ WireInOrder /\ NoGap  BY DEF Stream
<1>3. Sent' = Sent /\ Sent \in Int /\ Sent <= made  BY <1>1 DEF Sent
<1>4. InboxInOrder'
  <2>1. ASSUME NEW i \in 1..Len(inbox)
        PROVE  /\ inbox[i].call = Sent + i
               /\ inbox[i].val # 0 =>
                    inbox[i].val \in inbox[i].call..truth'[calls'[inbox[i].call].key]
    BY <1>1, <1>2, InboxStays
  <2> QED BY <1>3, <2>1 DEF InboxInOrder, Recent
<1>5. WireInOrder' /\ NoGap'
  BY <1>1, <1>2, <1>3, WireStays
<1> QED BY <1>4, <1>5 DEF Stream

-----------------------------------------------------------------------------
(* The steps of a call.                                                    *)

\* A step of a call takes it off the call's list, and changes neither its
\* entity nor its kind, its time and what it has deleted.
LEMMA DidOnly ==
  ASSUME TypeOK, NEW w \in Calls, NEW step \in Work, calls' = Did(w, step)
  PROVE  \A x \in Calls : /\ calls'[x].key = calls[x].key
                          /\ calls'[x].time = calls[x].time
                          /\ calls'[x].kind = calls[x].kind
                          /\ calls'[x].took = calls[x].took
                          /\ calls'[x].todo = IF x = w THEN calls[x].todo \ {step}
                                                       ELSE calls[x].todo
<1>1. calls[w] \in Call  BY DEF TypeOK
<1>2. calls' = [calls EXCEPT ![w] = [calls[w] EXCEPT !.todo = @ \ {step}]]
  BY DEF Did
<1>3. /\ \A x \in Calls : x # w => calls'[x] = calls[x]
      /\ calls'[w] = [calls[w] EXCEPT !.todo = @ \ {step}]
  BY <1>2 DEF TypeOK
<1>4. /\ calls'[w].key = calls[w].key /\ calls'[w].time = calls[w].time
      /\ calls'[w].kind = calls[w].kind
      /\ calls'[w].took = calls[w].took
      /\ calls'[w].todo = calls[w].todo \ {step}
  BY <1>1, <1>3 DEF Call
<1> QED BY <1>3, <1>4

\* Deleting what it supersedes is such a step for a call that inserts a row.
LEMMA DeleteIsDid ==
  ASSUME TypeOK, NEW w \in Calls, NEW timed \in BOOLEAN,
         DeleteSuperseded(w, timed), calls[w].kind # "self"
  PROVE  calls' = Did(w, "delete")
<1> DEFINE c == calls[w]
<1>1. c \in Call /\ calls \in [Calls -> Call]  BY DEF TypeOK
<1>2. calls' = [calls EXCEPT ![w] = [c EXCEPT !.todo = c.todo \ {"delete"}, !.took = c.took]]
  BY DEF DeleteSuperseded
<1>3. [c EXCEPT !.todo = c.todo \ {"delete"}, !.took = c.took]
      = [c EXCEPT !.todo = c.todo \ {"delete"}]
  <2> HIDE DEF c
  <2> QED BY <1>1 DEF Call
<1> QED BY <1>2, <1>3 DEF Did

\* A call that does some of its work makes no call; only the publication
\* moves the last call published.
LEMMA WorkSteady ==
  ASSUME TypeOK, NEW w \in Calls, NEW step \in Work,
         calls' = Did(w, step), UNCHANGED <<made, truth>>
  PROVE  /\ Steady
         /\ step # "publish" => Last' = Last
<1>1. \A x \in Calls : /\ calls'[x].key = calls[x].key
                       /\ calls'[x].time = calls[x].time
                       /\ calls'[x].kind = calls[x].kind
                       /\ calls'[x].took = calls[x].took
                       /\ calls'[x].todo = IF x = w THEN calls[x].todo \ {step}
                                                    ELSE calls[x].todo
  BY DidOnly
<1>3. Steady  BY <1>1, Zenon DEF Steady
<1>4. ASSUME step # "publish" PROVE Last' = Last
  <2>1. made # 0 => made \in Calls  BY QuietFacts
  <2>2. made # 0 => ("publish" \in calls'[made].todo <=> "publish" \in calls[made].todo)
    BY <1>1, <1>4, <2>1
  <2> QED BY <2>2 DEF Last
<1> QED BY <1>3, <1>4

\* A call made in a quiet moment: its number is its time, and nobody is
\* between a state sync and a subscription to miss it.
LEMMA QuietCreate ==
  ASSUME Plain, TypeOK, Calm, Quiet,
         NEW k \in Keys, NEW kind \in Kinds, NEW t \in Times,
         CreateUpdates(k, kind, t)
  PROVE  Calm'
<1>1. /\ MaxCalls \in Nat /\ Calls = 1..MaxCalls
      /\ made \in Nat /\ made <= MaxCalls
      /\ client.asOf \in Nat /\ reached \in Nat
      /\ \A x \in Keys : truth[x] \in Nat /\ client.view[x] \in Nat
      /\ \A w \in Calls : calls[w].key \in Keys /\ calls[w].time \in Nat
  BY QuietFacts
<1> DEFINE n == made + 1
<1>2. /\ made' = n /\ n \in Calls /\ made < n
      /\ truth' = [truth EXCEPT ![k] = n]
      /\ t \in {Clock, Clock + 1} \ {0}
      /\ UNCHANGED <<sock, sub, inbox, wire, client, reached, ignored>>
  BY <1>1 DEF CreateUpdates, socketVars, clientVars
<1>3. /\ \A w \in Calls : w # n => calls'[w] = calls[w]
      /\ calls'[n].key = k /\ calls'[n].kind = kind /\ calls'[n].time = t
      /\ calls'[n].todo \subseteq {"insert", "publish", "delete"}
      /\ calls'[n].took = {}
      /\ "publish" \in calls'[n].todo
  <2>1. kind \notin {"own", "self"}  BY DEF Plain
  <2> QED BY <1>2, <2>1 DEF CreateUpdates, TypeOK
<1>4. ~Active /\ ~Blind /\ t > Clock
  BY <1>1, <1>2, <1>3 DEF Quiet
<1>5. Serial  BY DEF Calm
<1>6. Clock = made
  BY <1>1, <1>5 DEF Clock, Serial
<1>7. t = n  BY <1>1, <1>2, <1>4, <1>6
<1>8. \A x \in Keys : truth'[x] = IF x = k THEN n ELSE truth[x]
  BY <1>2 DEF TypeOK
<1>9. \A x \in Keys : truth[x] <= made  BY <1>5 DEF Serial
<1>10. \A w \in Calls : w <= made => w # n /\ calls'[w] = calls[w]
  BY <1>1, <1>3
<1>11. \A w \in Calls : w <= made' => w = n \/ w <= made
  BY <1>1, <1>2
<1> HIDE DEF n
<1>12. Serial'
  <2>1. /\ \A w \in Calls : w <= made' => /\ calls'[w].time = w
                                         /\ calls'[w].kind \notin {"own", "self"}
        /\ \A w \in Calls : calls'[w].took = {}
    BY <1>3, <1>5, <1>7, <1>10, <1>11 DEF Serial, Plain
  <2>2. \A w \in Calls : calls[w].todo = {}  BY <1>4 DEF Active
  <2>3. \A w \in Calls : calls'[w].todo # {} => w = made'
    BY <1>2, <1>3, <2>2
  <2>4. \A w \in Calls : calls'[w].todo \cap {"hydrate", "reply"} = {}
    <3>1. calls'[n].todo \cap {"hydrate", "reply"} = {}  BY <1>3
    <3> QED BY <1>3, <2>2, <3>1
  <2>5. \A x \in Keys : truth'[x] <= made' /\ (truth'[x] # 0 => calls'[truth'[x]].key = x)
    <3> SUFFICES ASSUME NEW x \in Keys
                 PROVE  truth'[x] <= made' /\ (truth'[x] # 0 => calls'[truth'[x]].key = x)
      OBVIOUS
    <3>1. CASE x = k  BY <1>1, <1>2, <1>3, <1>8, <3>1
    <3>2. CASE x # k
      <4>1. truth'[x] = truth[x] /\ truth[x] <= made /\ truth[x] \in Nat
        BY <1>1, <1>8, <1>9, <3>2
      <4>2. truth[x] # 0 => truth[x] \in Calls /\ calls[truth[x]].key = x
        BY <1>1, <1>5, <4>1 DEF Serial
      <4>3. truth[x] <= made'  BY <1>1, <1>2, <4>1
      <4> QED BY <1>10, <4>1, <4>2, <4>3
    <3> QED BY <3>1, <3>2
  <2>6. \A w \in Calls : w <= made' => w <= truth'[calls'[w].key]
    <3> SUFFICES ASSUME NEW w \in Calls, w <= made'
                 PROVE  w <= truth'[calls'[w].key]
      OBVIOUS
    <3>1. CASE w = n  BY <1>1, <1>3, <1>8, <3>1
    <3>2. CASE w <= made
      <4>1. calls'[w].key = calls[w].key /\ w <= truth[calls[w].key]
        BY <1>5, <1>10, <3>2 DEF Serial
      <4>2. calls[w].key = k => w <= n  BY <1>1, <1>2, <3>2
      <4> QED BY <1>1, <1>8, <4>1, <4>2
    <3> QED BY <1>11, <3>1, <3>2
  <2> QED BY <2>1, <2>3, <2>4, <2>5, <2>6 DEF Serial
<1>13. Idle'
  BY <1>2, <1>4 DEF Idle, Blind
<1>14. made <= made' /\ made' \in Nat
  BY <1>1, <1>2
<1>15. \A x \in Keys : truth[x] <= truth'[x] /\ truth'[x] \in Nat
  BY <1>1, <1>2, <1>8, <1>9
<1>16. Behind'
  <2>1. \A x \in Keys : client.view[x] <= truth'[x]
    BY <1>1, <1>15 DEF Calm, Behind
  <2>2. \A w \in Calls : w <= client.asOf => w <= client.view[calls'[w].key]
    BY <1>1, <1>10 DEF Calm, Behind
  <2>3. reached <= made' /\ \A w \in ignored : w <= made'
    <3>1. ignored \subseteq Calls  BY DEF TypeOK
    <3> QED BY <1>1, <1>14, <3>1 DEF Calm, Behind
  <2> QED BY <1>2, <2>1, <2>2, <2>3 DEF Calm, Behind
<1>17. Answers'
  <2>1. sock.phase \notin {"hydrate", "reply"}  BY <1>4 DEF Blind
  <2>2. \A x \in sock.found : x <= made'
    <3>1. sock.found \subseteq Calls  BY DEF TypeOK
    <3> QED BY <1>1, <1>14, <3>1 DEF Calm, Answers
  <2> QED BY <1>2, <2>1, <2>2 DEF Answers
<1>18. Stream'
  <2>1. CASE sock.phase = "live"
    <3>1. Last' = Last /\ Last \in Nat /\ Last <= made
      <4>1. Last = made  BY <1>4, <1>5, LastBounds
      <4>2. Last' = made'- 1  BY <1>1, <1>2, <1>3 DEF Last, n
      <4> QED BY <1>1, <1>2, <4>1, <4>2 DEF n
    <3>2. sub' # "off"  BY <1>2, <2>1 DEF Calm, Stream
    <3>3. \A w \in Calls : w <= made => calls'[w].key = calls[w].key
      BY <1>10
    <3>4. Stream /\ UNCHANGED <<inbox, wire, client>>
      BY <1>2 DEF Calm
    <3> QED BY <1>14, <1>15, <2>1, <3>1, <3>2, <3>3, <3>4, StreamStays
  <2>2. CASE sock.phase # "live"
    BY <1>2, <2>2 DEF Stream
  <2> QED BY <2>1, <2>2
<1> QED BY <1>12, <1>13, <1>16, <1>17, <1>18 DEF Calm

\* A step that makes no call and changes neither what the client has nor the
\* connection keeps the calm.
LEMMA QuietFrame ==
  ASSUME TypeOK, Calm, Steady, Blind' => ~Active,
         UNCHANGED <<client.view, client.asOf, reached, ignored>>,
         UNCHANGED <<sub, inbox, wire>>, Last' = Last,
         sock'.phase \in {sock.phase, "deciding", "full", "fetch"},
         sock'.phase = "live" <=> sock.phase = "live",
         sock'.found \in {sock.found, {}}, sock'.news \in {sock.news, [k \in {} |-> 0]},
         sock'.found = sock.found \/ sock'.phase # "hydrate",
         sock'.news = sock.news \/ sock'.phase # "reply"
  PROVE  Calm'
<1>1. Serial' /\ (Active' => Active)  BY SerialStays DEF Calm
<1>2. Idle'  BY <1>1 DEF Idle
<1>3. Behind'  BY BehindStays DEF Calm
<1>4. Answers'  BY AnswersStay DEF Calm
<1>5. Stream'
  <2>1. CASE sock.phase = "live"
    <3>1. sub' # "off" /\ Stream  BY <2>1 DEF Calm, Stream
    <3>2. Last \in Nat /\ Last <= made  BY LastBounds DEF Calm
    <3>3. \A k \in Keys : truth[k] <= truth'[k] /\ truth'[k] \in Nat
      BY QuietFacts DEF Steady
    <3>4. \A w \in Calls : w <= made => calls'[w].key = calls[w].key
      BY DEF Steady
    <3>5. made <= made' /\ made' \in Nat
      BY QuietFacts DEF Steady
    <3> QED BY <2>1, <3>1, <3>2, <3>3, <3>4, <3>5, StreamStays
  <2>2. CASE sock.phase # "live"  BY <2>2 DEF Stream
  <2> QED BY <2>1, <2>2
<1> QED BY <1>1, <1>2, <1>3, <1>4, <1>5 DEF Calm

\* What is left of a call; its publication reaches the subscriber if there
\* is a connection at all.
LEMMA QuietCall ==
  ASSUME Plain, TypeOK, Calm, Quiet, NEW w \in Calls, CallStep(w) \/ LoseReply(w)
  PROVE  Calm'
<1>1. Serial  BY DEF Calm
<1>2. Blind' => ~Active  BY DEF Quiet
<1>3. ASSUME NEW step \in Work \ {"publish"}, calls' = Did(w, step),
             UNCHANGED <<made, truth, sock, sub, inbox, wire, client, reached, ignored>>
      PROVE  Calm'
  <2>1. Steady /\ Last' = Last  BY <1>3, WorkSteady
  <2> QED BY <1>2, <1>3, <2>1, QuietFrame
<1>4. CASE InsertRow(w)
  BY <1>3, <1>4 DEF InsertRow, Work, socketVars, clientVars
<1>5. ASSUME NEW timed \in BOOLEAN, DeleteSuperseded(w, timed) PROVE Calm'
  <2>1. w <= made
    <3>1. made \in Nat /\ Calls = 1..MaxCalls /\ MaxCalls \in Nat  BY QuietFacts
    <3> QED BY <1>1, <1>5, <3>1 DEF Serial, DeleteSuperseded
  <2>2. calls' = Did(w, "delete")  BY <1>1, <1>5, <2>1, DeleteIsDid DEF Serial
  <2> QED BY <1>3, <1>5, <2>2 DEF DeleteSuperseded, Work, socketVars, clientVars
<1>6. CASE HydrateReply(w) \/ ReceiveReply(w) \/ LoseReply(w)
  BY <1>1, <1>6 DEF HydrateReply, ReceiveReply, LoseReply, Serial
<1>7. CASE Publish(w)
  <2>1. /\ "publish" \in calls[w].todo /\ calls' = Did(w, "publish")
        /\ UNCHANGED <<made, truth, sock, sub, wire, client, reached, ignored>>
        /\ inbox' = IF sub = "on" /\ calls[w].kind # "own"
                    THEN Append(inbox, [call |-> w, val |-> 0])
                    ELSE inbox
    BY <1>7 DEF Publish, clientVars
  <2>2. /\ w = made /\ w # 0 /\ w <= made /\ made \in Nat /\ calls[w].kind # "own"
        /\ Calls = 1..MaxCalls /\ MaxCalls \in Nat
    <3>1. made \in Nat /\ Calls = 1..MaxCalls /\ MaxCalls \in Nat  BY QuietFacts
    <3>2. w = made  BY <1>1, <2>1 DEF Serial
    <3> QED BY <1>1, <3>1, <3>2 DEF Serial
  <2>3. Active  BY <2>1 DEF Active
  <2>4. Steady  BY <2>1, WorkSteady DEF Work
  <2>5. "publish" \notin calls'[made].todo
    <3>1. calls[w] \in Call  BY DEF TypeOK
    <3>2. calls'[w] = [calls[w] EXCEPT !.todo = @ \ {"publish"}]
      BY <2>1 DEF Did, TypeOK
    <3>3. calls'[w].todo = calls[w].todo \ {"publish"}
      BY <3>1, <3>2 DEF Call
    <3> QED BY <2>2, <3>3
  <2>6. Last = made - 1 /\ Last' = made
    BY <2>1, <2>2, <2>5 DEF Last
  <2>7. Serial' /\ (Active' => Active)  BY <1>1, <2>4, SerialStays
  <2>8. Idle'  BY <1>2, <2>7 DEF Idle
  <2>9. Behind'  BY <2>1, <2>4, BehindStays DEF Calm
  <2>10. Answers'  BY <2>1, <2>4, AnswersStay DEF Calm
  <2>11. ASSUME sock.phase = "live" PROVE Stream'
    <3>1. sub = "on"  BY <1>2, <2>1, <2>3, <2>11 DEF Blind
    <3> DEFINE e == [call |-> w, val |-> 0]
               S == [call : Calls, val : Versions]
    <3>2. e \in S /\ e.call = made /\ e.val = 0
      BY <2>2, BoundsAssumption DEF Versions
    <3> HIDE DEF e, S
    <3>3. inbox' = Append(inbox, e) /\ inbox \in Seq(S)
      BY <2>1, <2>2, <3>1 DEF e, S, TypeOK
    <3>4. /\ Len(inbox') = Len(inbox) + 1 /\ Len(inbox) \in Nat
          /\ \A i \in 1..Len(inbox) : inbox'[i] = inbox[i]
          /\ inbox'[Len(inbox) + 1] = e
      BY <3>2, <3>3, AppendProperties, LenProperties
    <3>5. Sent' = Sent
      BY <2>2, <2>6, <3>4 DEF Sent
    <3>6. \A k \in Keys : truth[k] <= truth'[k] /\ truth'[k] \in Nat
      BY <2>1, QuietFacts
    <3>7. \A x \in Calls : x <= made => calls'[x].key = calls[x].key
      BY <2>4 DEF Steady
    <3>8. Stream /\ InboxInOrder /\ WireInOrder /\ NoGap
      BY <2>11 DEF Calm, Stream
    <3>9. Last \in Nat /\ Last <= made  BY <2>2, <2>6
    <3>10. InboxInOrder'
      <4>1. ASSUME NEW i \in 1..Len(inbox')
            PROVE  /\ inbox'[i].call = Sent + i
                   /\ inbox'[i].val # 0 =>
                        inbox'[i].val \in inbox'[i].call..truth'[calls'[inbox'[i].call].key]
        <5>1. CASE i = Len(inbox) + 1
          <6>1. Sent + i = made  BY <2>2, <2>6, <3>4, <5>1 DEF Sent
          <6>2. inbox'[i] = e  BY <3>4, <5>1
          <6> QED BY <3>2, <6>1, <6>2
        <5>2. CASE i # Len(inbox) + 1
          <6>1. i \in 1..Len(inbox) /\ inbox'[i] = inbox[i]
            BY <3>4, <5>2
          <6> QED BY <2>2, <3>4, <3>6, <3>7, <3>8, <3>9, <6>1, InboxStays
        <5> QED BY <5>1, <5>2
      <4> QED BY <3>5, <4>1 DEF InboxInOrder, Recent
    <3>11. WireInOrder' /\ NoGap'
      <4>1. Sent \in Int /\ Sent <= made  BY <2>2, <3>4, <3>9 DEF Sent
      <4>2. made <= made' /\ made' \in Nat  BY <2>1, <2>2
      <4> QED BY <2>1, <3>5, <3>6, <3>7, <3>8, <4>1, <4>2, WireStays
    <3> QED BY <2>1, <3>1, <3>10, <3>11 DEF Stream
  <2>12. Stream'
    <3>1. CASE sock.phase = "live"  BY <2>11, <3>1
    <3>2. CASE sock.phase # "live"  BY <2>1, <3>2 DEF Stream
    <3> QED BY <3>1, <3>2
  <2> QED BY <2>7, <2>8, <2>9, <2>10, <2>12 DEF Calm
<1> QED BY <1>4, <1>5, <1>6, <1>7 DEF CallStep

-----------------------------------------------------------------------------
(* The steps of the INITIAL handler and of the subscription.               *)

\* A step that leaves the calls alone is steady.
LEMMA NoCallSteady ==
  ASSUME UNCHANGED <<calls, made, truth>>
  PROVE  Steady /\ Last' = Last
BY DEF Steady, Last

\* Without a call in progress, the latest call for an entity the client does
\* not have up to date has its row in the table: its update is above the
\* checkpoint, and no later update can have taken its place.
LEMMA LatestIsThere ==
  ASSUME Known, Serial, Behind, ~Active, NEW k \in Keys,
         client.view[k] # truth[k]
  PROVE  /\ truth[k] \in rows /\ truth[k] \in Calls
         /\ calls[truth[k]].key = k /\ calls[truth[k]].kind \notin {"own", "self"}
         /\ calls[truth[k]].time > client.asOf
<1> DEFINE w == truth[k]
<1>1. /\ made \in Nat /\ Calls = 1..MaxCalls /\ made <= MaxCalls /\ MaxCalls \in Nat
      /\ client.asOf \in Nat /\ w \in Nat /\ client.view[k] \in Nat
      /\ \A x \in Keys : truth[x] \in Nat
      /\ \A x \in Calls : calls[x].key \in Keys /\ calls[x].time \in Nat
  BY QuietFacts DEF Known
<1>2. w <= made /\ (w # 0 => calls[w].key = k)  BY DEF Serial
<1>3. client.view[k] <= w  BY DEF Behind
<1> HIDE DEF w
<1>4. w # 0 /\ w \in Calls /\ calls[w].key = k
  BY <1>1, <1>2, <1>3 DEF w
<1>5. calls[w].time = w /\ calls[w].kind \notin {"own", "self"}
  BY <1>2, <1>4 DEF Serial
<1>6. w > client.asOf
  <2>1. w <= client.asOf => w <= client.view[k]  BY <1>4 DEF Behind
  <2> QED BY <1>1, <1>3, <2>1 DEF w
<1>7. \A x \in Calls : StandsFor(x, w) => x = w
  <2> SUFFICES ASSUME NEW x \in Calls, calls[x].key = k, calls[x].time > w
               PROVE  FALSE
    BY <1>4, <1>5 DEF StandsFor, Covers
  <2>1. x <= made  BY <1>1, <1>4 DEF Known, FoundNewer, Unmade
  <2>2. x <= truth[k] /\ calls[x].time = x  BY <2>1 DEF Serial
  <2> QED BY <1>1, <2>2 DEF w
<1>8. w \in rows
  <2>1. calls[w].time > reached  BY <1>5, <1>6 DEF Behind
  <2>2. Kept(w)  BY <1>2, <1>4, <1>5, <2>1 DEF Known, Redownloadable
  <2>3. "insert" \notin calls[w].todo  BY <1>4 DEF Active
  <2> QED BY <1>7, <2>2, <2>3 DEF Kept, Serial
<1> QED BY <1>4, <1>5, <1>6, <1>8 DEF w

\* The rows fetched are those of all the updates the client lacks.
LEMMA QuietFetch ==
  ASSUME Known, Calm, Quiet, FetchUpdateInfos
  PROVE  Calm'
<1>1. /\ sock.phase = "fetch" /\ sock' = [sock EXCEPT !.phase = "hydrate",
                                               !.found = NewerThan(sock.asOf)]
      /\ UNCHANGED <<calls, made, truth, rows, sub, inbox, wire, client, reached, ignored>>
  BY DEF FetchUpdateInfos, dbVars, clientVars
<1>2. sock'.phase = "hydrate" /\ sock'.found = NewerThan(sock.asOf)
  BY <1>1 DEF Known, TypeOK
<1>3. ~Active  BY <1>2 DEF Quiet, Blind
<1>4. Steady  BY <1>1, NoCallSteady
<1>5. sock.asOf = client.asOf
  BY <1>1 DEF Known, Handshake, Asked
<1>6. Serial' /\ (Active' => Active)  BY <1>4, SerialStays DEF Calm, Known
<1>7. Behind'  BY <1>1, <1>4, BehindStays DEF Calm, Known
<1>8. \A x \in sock'.found : x <= made
  <2> SUFFICES ASSUME NEW x \in Calls, calls[x].time > sock.asOf
               PROVE  x <= made
    BY <1>2 DEF NewerThan, Known, TypeOK
  <2>1. /\ client.asOf \in Nat /\ made \in Nat /\ Calls = 1..MaxCalls
        /\ MaxCalls \in Nat
    BY QuietFacts DEF Known
  <2> QED BY <1>5, <2>1 DEF Known, FoundNewer, Unmade
<1>9. \A k \in Keys : client.view[k] # truth[k] => truth[k] \in sock'.found
  <2> SUFFICES ASSUME NEW k \in Keys, client.view[k] # truth[k]
               PROVE  truth[k] \in sock'.found
    OBVIOUS
  <2>1. /\ truth[k] \in rows /\ truth[k] \in Calls
        /\ calls[truth[k]].key = k /\ calls[truth[k]].kind \notin {"own", "self"}
        /\ calls[truth[k]].time > client.asOf
    BY <1>3, LatestIsThere DEF Calm
  <2> QED BY <1>2, <1>5, <2>1 DEF NewerThan
<1> QED BY <1>1, <1>2, <1>3, <1>6, <1>7, <1>8, <1>9 DEF Calm, Idle, Answers, Stream

\* The answer has the content of the database for all of them.
LEMMA QuietHydrate ==
  ASSUME Known, Calm, Quiet, FetchEverything \/ HydrateFetched
  PROVE  Calm'
<1> DEFINE ks == IF sock.phase = "full" THEN Keys
                 ELSE {calls[x].key : x \in sock.found}
<1>1. /\ sock.phase \in {"full", "hydrate"}
      /\ sock' = [sock EXCEPT !.phase = "reply", !.news = Content(ks)]
      /\ UNCHANGED <<calls, made, truth, sub, inbox, wire, client, reached, ignored>>
  BY DEF FetchEverything, HydrateFetched, dbVars, clientVars
<1>2. /\ sock'.phase = "reply" /\ sock'.found = sock.found
      /\ DOMAIN sock'.news = ks /\ \A k \in ks : sock'.news[k] = truth[k]
  <2>1. sock'.phase = "reply" /\ sock'.found = sock.found
        /\ sock'.news = Content(ks)
    <3> HIDE DEF ks
    <3> QED BY <1>1 DEF Known, TypeOK
  <2> HIDE DEF ks
  <2> QED BY <2>1 DEF Content
<1>3. ~Active  BY <1>2 DEF Quiet, Blind
<1>4. Steady  BY <1>1, NoCallSteady
<1>5. Serial' /\ (Active' => Active)  BY <1>4, SerialStays DEF Calm, Known
<1>6. Behind'  BY <1>1, <1>4, BehindStays DEF Calm, Known
<1>7. ASSUME NEW k \in Keys, client.view[k] # truth[k] PROVE k \in ks
  <2>1. CASE sock.phase = "full"  BY <2>1
  <2>2. CASE sock.phase = "hydrate"
    <3>1. truth[k] \in sock.found  BY <1>7, <2>2 DEF Calm, Answers
    <3>2. sock.found \subseteq Calls  BY DEF Known, TypeOK
    <3>3. truth[k] # 0  BY <3>1, <3>2 DEF Calls
    <3>4. calls[truth[k]].key = k  BY <3>3 DEF Calm, Serial
    <3> QED BY <2>2, <3>1, <3>4
  <2> QED BY <1>1, <2>1, <2>2
<1>8. Answers'
  <2> HIDE DEF ks
  <2> QED BY <1>1, <1>2, <1>7 DEF Calm, Answers
<1> QED BY <1>1, <1>2, <1>3, <1>5, <1>6, <1>8 DEF Calm, Idle, Stream

\* The answer closes the gap: the client and the state sync together have
\* the content of the database, and the subscription starts behind it.
LEMMA QuietSendStateSync ==
  ASSUME Known, Calm, Quiet, SendStateSync
  PROVE  Calm'
<1>1. /\ sock.phase = "reply" /\ sock' = [sock EXCEPT !.phase = "live"]
      /\ sub' = "starting" /\ wire' = Append(wire, StateSync)
      /\ UNCHANGED <<calls, made, truth, inbox, client, reached, ignored>>
  BY DEF SendStateSync, dbVars, clientVars
<1>2. sock'.phase = "live" /\ sock'.found = sock.found /\ sock'.news = sock.news
  BY <1>1 DEF Known, TypeOK
<1>3. ~Active  BY <1>1, <1>2 DEF Quiet, Blind
<1>4. Steady /\ Last' = Last  BY <1>1, NoCallSteady
<1>5. Serial' /\ (Active' => Active)  BY <1>4, SerialStays DEF Calm, Known
<1>6. Behind'  BY <1>1, <1>4, BehindStays DEF Calm, Known
<1>7. Answers'  BY <1>1, <1>2, <1>4, AnswersStay DEF Calm, Known
<1>8. /\ made \in Nat /\ client.asOf \in Nat /\ reached \in Nat
      /\ Calls = 1..MaxCalls /\ MaxCalls \in Nat
      /\ \A k \in Keys : truth[k] \in Nat /\ client.view[k] \in Nat
      /\ \A w \in Calls : calls[w].key \in Keys
  BY QuietFacts DEF Known
<1>9. wire = << >> /\ inbox = << >> /\ sock.asOf = client.asOf
  BY <1>1 DEF Known, Handshake, Asked
<1>10. StateSync \in Message  BY StateSyncType DEF Known
<1>11. Len(wire') = 1 /\ wire'[1] = StateSync /\ Len(inbox') = 0 /\ wire' # << >>
  BY <1>1, <1>9, <1>10, AppendProperties, EmptySeq DEF Known, TypeOK
<1>12. StateSync.type # "updates" /\ StateSync.news = sock.news
  BY DEF StateSync
<1>13. StateSync.asOf <= made
  <2>1. client.asOf <= made  BY <1>8 DEF Calm, Behind
  <2>2. CASE sock.full  BY <1>9, <2>1, <2>2 DEF StateSync
  <2>3. CASE ~sock.full
    <3>1. sock.found \subseteq Calls  BY DEF Known, TypeOK
    <3>2. \A x \in sock.found : calls[x].time <= made
      BY <3>1 DEF Calm, Answers, Serial
    <3>3. StateSync.asOf = MostRecent(sock.found, sock.asOf)
      BY <2>3 DEF StateSync
    <3>4. CASE sock.found = {}  BY <1>9, <2>1, <3>3, <3>4 DEF MostRecent
    <3>5. CASE sock.found # {}
      <4>1. TypeOK /\ sock.asOf \in Times  BY DEF Known, TypeOK
      <4>2. StateSync.asOf \in {calls[x].time : x \in sock.found}
        BY <3>1, <3>3, <3>5, <4>1, MostRecentIsOne
      <4> QED BY <3>2, <4>2
    <3> QED BY <3>4, <3>5
  <2> QED BY <2>2, <2>3
<1>14. ~Synced' /\ Covered' = made
  <2>1. Last = made  BY <1>3, LastBounds DEF Known, Calm
  <2>2. ~Synced'  BY <1>11, <1>12 DEF Synced
  <2> QED BY <1>4, <1>8, <1>11, <2>1, <2>2 DEF Covered, Sent
<1>15. ASSUME NEW k \in Keys PROVE After(k)' = truth[k]
  BY <1>1, <1>11, <1>12, <1>14 DEF After, Calm, Answers
<1>16. NoGap'
  <2>1. \A k \in DOMAIN sock.news : sock.news[k] = truth[k] /\ truth[k] \in Nat
    <3>1. sock.news \in News  BY DEF Known, TypeOK
    <3>2. DOMAIN sock.news \subseteq Keys  BY <3>1 DEF News
    <3> QED BY <1>1, <1>8, <3>2 DEF Calm, Answers
  <2>2. \A w \in Calls : w <= made => w <= After(calls[w].key)'
    <3>1. \A w \in Calls : w <= made => w <= truth[calls[w].key]
      BY DEF Calm, Serial
    <3> QED BY <1>1, <1>8, <1>15, <3>1
  <2>3. 0 <= made /\ client.asOf <= made  BY <1>8 DEF Calm, Behind
  <2> QED BY <1>1, <1>8, <1>11, <1>12, <1>13, <1>14, <2>1, <2>2, <2>3 DEF NoGap
<1>17. InboxInOrder' /\ WireInOrder'
  BY <1>11, <1>12 DEF InboxInOrder, WireInOrder
<1>18. Stream'  BY <1>1, <1>16, <1>17 DEF Stream
<1> QED BY <1>3, <1>5, <1>6, <1>7, <1>18 DEF Calm, Idle

\* The updates of the inbox are hydrated in any order, and sent in theirs.
LEMMA QuietHydratePublished ==
  ASSUME Known, Calm, Quiet, NEW i \in DOMAIN inbox, HydratePublished(i)
  PROVE  Calm'
<1> DEFINE e == inbox[i]
           S == [call : Calls, val : Versions]
<1>1. /\ e.val = 0 /\ inbox' = [inbox EXCEPT ![i].val = truth[calls[e.call].key]]
      /\ UNCHANGED <<calls, made, truth, sock, sub, wire, client, reached, ignored>>
  BY DEF HydratePublished, dbVars, clientVars
<1>2. sock.phase = "live"
  <2>1. inbox # << >>  OBVIOUS
  <2> QED BY <2>1 DEF Known, Handshake
<1>3. Steady /\ Last' = Last  BY <1>1, NoCallSteady
<1>4. Serial' /\ (Active' => Active)  BY <1>3, SerialStays DEF Calm, Known
<1>5. Behind'  BY <1>1, <1>3, BehindStays DEF Calm, Known
<1>6. Answers'  BY <1>1, <1>3, AnswersStay DEF Calm, Known
<1>7. Idle'  BY <1>1, <1>4 DEF Calm, Idle, Blind
<1>8. /\ made \in Nat /\ Calls = 1..MaxCalls /\ MaxCalls \in Nat
      /\ Len(inbox) \in Nat
      /\ \A k \in Keys : truth[k] \in Nat
      /\ \A w \in Calls : calls[w].key \in Keys
      /\ Last \in Nat /\ Last <= made
  BY QuietFacts, LastBounds DEF Known, Calm
<1>9. Stream /\ InboxInOrder /\ WireInOrder /\ NoGap
  BY <1>2 DEF Calm, Stream
<1>10. inbox \in Seq(S) /\ DOMAIN inbox = 1..Len(inbox)
  <2>1. inbox \in Seq(S)  BY DEF Known, TypeOK
  <2> HIDE DEF S
  <2> QED BY <2>1, LenProperties
<1>11. e \in S /\ i \in 1..Len(inbox)
  <2> HIDE DEF S
  <2> QED BY <1>10, ElementOfSeq
<1> DEFINE v == truth[calls[e.call].key]
           n == [e EXCEPT !.val = v]
<1>12. n.call = e.call /\ n.val = v /\ n \in S
  <2>1. v \in Versions
    <3>1. e.call \in Calls  BY <1>11
    <3> HIDE DEF e
    <3> QED BY <1>8, <3>1 DEF Known, TypeOK
  <2> HIDE DEF v, e
  <2> QED BY <1>11, <2>1
<1>13. inbox' = [inbox EXCEPT ![i] = n]  BY <1>1
<1> HIDE DEF S, n, v
<1>14. /\ Len(inbox') = Len(inbox)
       /\ \A j \in 1..Len(inbox) : inbox'[j] = IF j = i THEN n ELSE inbox[j]
  BY <1>10, <1>11, <1>12, <1>13, ExceptSeq
<1>15. \A k \in Keys : truth[k] <= truth'[k] /\ truth'[k] \in Nat
  BY <1>1, <1>8
<1>16. \A x \in Calls : x <= made => calls'[x].key = calls[x].key  BY <1>1
<1>17. ASSUME NEW j \in 1..Len(inbox)
       PROVE  /\ inbox[j].call \in Calls /\ inbox[j].call \in 1..made
              /\ inbox[j].call = Sent + j
              /\ inbox[j].val # 0 =>
                   inbox[j].val \in inbox[j].call..truth'[calls'[inbox[j].call].key]
  BY <1>8, <1>9, <1>15, <1>16, InboxStays DEF Known
<1>18. Sent' = Sent /\ Sent \in Int /\ Sent <= made
  BY <1>3, <1>8, <1>14 DEF Sent
<1>19. InboxInOrder'
  <2>1. ASSUME NEW j \in 1..Len(inbox)
        PROVE  /\ inbox'[j].call = Sent + j
               /\ inbox'[j].val # 0 =>
                    inbox'[j].val \in inbox'[j].call..truth'[calls'[inbox'[j].call].key]
    <3>1. CASE j # i  BY <1>14, <1>17, <3>1
    <3>2. CASE j = i
      <4>1. e.call = Sent + i /\ e.call \in Calls /\ e.call \in 1..made
        BY <1>11, <1>17
      <4>2. e.call <= v /\ v \in Nat
        BY <1>8, <4>1 DEF Calm, Serial, v
      <4>3. inbox'[j].call = e.call /\ inbox'[j].val = v
        BY <1>12, <1>14, <3>2
      <4>4. truth'[calls'[e.call].key] = v  BY <1>1 DEF v
      <4> HIDE DEF e
      <4> QED BY <1>8, <3>2, <4>1, <4>2, <4>3, <4>4
    <3> QED BY <3>1, <3>2
  <2> QED BY <1>14, <1>18, <2>1 DEF InboxInOrder, Recent
<1>20. WireInOrder' /\ NoGap'
  BY <1>1, <1>8, <1>9, <1>15, <1>16, <1>18, WireStays DEF Known
<1>21. Stream'  BY <1>1, <1>2, <1>9, <1>19, <1>20 DEF Stream
<1> QED BY <1>4, <1>5, <1>6, <1>7, <1>21 DEF Calm

\* The oldest update of the inbox goes on the wire, behind the others.
LEMMA QuietSendUpdates ==
  ASSUME Known, Calm, Quiet, SendUpdates
  PROVE  Calm'
<1> DEFINE w == Head(inbox).call
           v == Head(inbox).val
           m == [type |-> "updates", asOf |-> UpdatesAsOf(w), ids |-> {w},
                 news |-> [x \in {calls[w].key} |-> v]]
<1>1. /\ inbox # << >> /\ v # 0 /\ wire' = Append(wire, m) /\ inbox' = Tail(inbox)
      /\ UNCHANGED <<calls, made, truth, sock, sub, client, reached, ignored>>
  BY DEF SendUpdates, dbVars, clientVars
<1>2. sock.phase = "live"  BY <1>1 DEF Known, Handshake
<1>3. Steady /\ Last' = Last  BY <1>1, NoCallSteady
<1>4. Serial' /\ (Active' => Active)  BY <1>3, SerialStays DEF Calm, Known
<1>5. Behind'  BY <1>1, <1>3, BehindStays DEF Calm, Known
<1>6. Answers'  BY <1>1, <1>3, AnswersStay DEF Calm, Known
<1>7. Idle'  BY <1>1, <1>4 DEF Calm, Idle, Blind
<1>8. /\ made \in Nat /\ Calls = 1..MaxCalls /\ MaxCalls \in Nat
      /\ Len(inbox) \in Nat /\ Len(wire) \in Nat
      /\ \A k \in Keys : truth[k] \in Nat
      /\ \A x \in Calls : calls[x].key \in Keys
      /\ Last \in Nat /\ Last <= made
  BY QuietFacts, LastBounds DEF Known, Calm
<1>9. Stream /\ InboxInOrder /\ WireInOrder /\ NoGap
  BY <1>2 DEF Calm, Stream
<1>10. /\ Len(inbox') = Len(inbox) - 1 /\ Len(inbox) # 0 /\ Head(inbox) = inbox[1]
       /\ \A i \in 1..Len(inbox') : inbox'[i] = inbox[i + 1]
  <2> DEFINE S == [call : Calls, val : Versions]
  <2>1. inbox \in Seq(S)  BY DEF Known, TypeOK
  <2> HIDE DEF S
  <2> QED BY <1>1, <2>1, EmptySeq, HeadTailProperties
<1>11. \A k \in Keys : truth[k] <= truth'[k] /\ truth'[k] \in Nat
  BY <1>1, <1>8
<1>12. \A x \in Calls : x <= made => calls'[x].key = calls[x].key  BY <1>1
<1>13. ASSUME NEW j \in 1..Len(inbox)
       PROVE  /\ inbox[j].call \in Calls /\ inbox[j].call \in 1..made
              /\ inbox[j].call = Sent + j
              /\ inbox[j].val # 0 =>
                   inbox[j].val \in inbox[j].call..truth'[calls'[inbox[j].call].key]
  BY <1>8, <1>9, <1>11, <1>12, InboxStays DEF Known
<1>14. Sent' = Sent + 1 /\ Sent \in Int
  BY <1>3, <1>8, <1>10 DEF Sent
<1>15. InboxInOrder'
  <2>1. ASSUME NEW j \in 1..Len(inbox')
        PROVE  /\ inbox'[j].call = Sent + 1 + j
               /\ inbox'[j].val # 0 =>
                    inbox'[j].val \in inbox'[j].call..truth'[calls'[inbox'[j].call].key]
    <3>1. j + 1 \in 1..Len(inbox)  BY <1>8, <1>10
    <3>2. inbox'[j] = inbox[j + 1]  BY <1>10
    <3>3. inbox[j + 1].call = Sent + 1 + j  BY <1>13, <1>14, <3>1
    <3> QED BY <1>13, <3>1, <3>2, <3>3
  <2> QED BY <1>14, <2>1 DEF InboxInOrder, Recent
<1>16. /\ w \in Calls /\ w \in 1..made /\ w = Sent + 1
       /\ v \in w..truth[calls[w].key]
  <2>1. 1 \in 1..Len(inbox)  BY <1>8, <1>10
  <2> QED BY <1>1, <1>10, <1>13, <2>1
<1>17. /\ m.type = "updates" /\ m.asOf = w /\ m.ids = {w}
       /\ DOMAIN m.news = {calls[w].key} /\ m.news[calls[w].key] = v
  <2>1. calls[w].time = w  BY <1>16 DEF Calm, Serial
  <2> QED BY <2>1 DEF UpdatesAsOf
<1> HIDE DEF m
<1>18. IsUpdate(m, w)
  <2> HIDE DEF w, v
  <2> QED BY <1>16, <1>17 DEF IsUpdate, Recent
<1>19. /\ Len(wire') = Len(wire) + 1
       /\ \A i \in 1..Len(wire) : wire'[i] = wire[i]
       /\ wire'[Len(wire) + 1] = m
  <2>1. wire \in Seq(Message)  BY DEF Known, TypeOK
  <2> QED BY <1>1, <1>8, <2>1
<1>20. WireInOrder'
  <2>1. ASSUME NEW i \in 1..Len(wire'), wire'[i].type = "updates"
        PROVE  IsUpdate(wire'[i], Sent - Len(wire) + i)
    <3>1. CASE i = Len(wire) + 1
      <4>1. wire'[i] = m  BY <1>19, <3>1
      <4>2. Sent - Len(wire) + i = w  BY <1>8, <1>14, <1>16, <3>1
      <4> QED BY <1>18, <4>1, <4>2
    <3>2. CASE i # Len(wire) + 1
      <4>1. i \in 1..Len(wire)  BY <1>8, <1>19, <3>2
      <4>2. wire'[i] = wire[i]  BY <1>19, <4>1
      <4> QED BY <1>9, <2>1, <4>1, <4>2 DEF WireInOrder
    <3> QED BY <3>1, <3>2
  <2>2. \A i \in 1..Len(wire') :
          Sent' - Len(wire') + i = Sent - Len(wire) + i
    <3>1. \A i \in Int : Sent' - Len(wire') + i = Sent - Len(wire) + i
      BY <1>8, <1>14, <1>19
    <3> QED BY <3>1
  <2> QED BY <1>1, <2>1, <2>2 DEF WireInOrder, IsUpdate, Recent
<1>21. /\ Synced' <=> Synced
       /\ ~Synced => wire'[1] = wire[1]
  <2>1. CASE wire = << >>
    <3>1. wire'[1] = m  BY <1>8, <1>19, <2>1, EmptySeq
    <3> QED BY <1>17, <2>1, <3>1 DEF Synced
  <2>2. CASE wire # << >>
    <3>1. 1 \in 1..Len(wire)  BY <1>8, <2>2, EmptySeq DEF Known, TypeOK
    <3>2. wire'[1] = wire[1]  BY <1>19, <3>1
    <3>3. wire' # << >>  BY <1>8, <1>19, EmptySeq
    <3> QED BY <2>2, <3>2, <3>3 DEF Synced
  <2> QED BY <2>1, <2>2
<1>22. Covered' = Covered
  BY <1>8, <1>14, <1>19, <1>21 DEF Covered
<1>23. \A k \in Keys : After(k)' = After(k)
  BY <1>1, <1>21 DEF After
<1>24. NoGap'
  <2>1. ASSUME NEW x \in Calls, x <= Covered PROVE x <= After(calls[x].key)'
    <3>1. x <= After(calls[x].key)  BY <1>9, <2>1 DEF NoGap
    <3> QED BY <1>1, <1>8, <1>23, <3>1
  <2> QED BY <1>1, <1>9, <1>21, <1>22, <2>1 DEF NoGap
<1>25. Stream'  BY <1>1, <1>9, <1>15, <1>20, <1>24 DEF Stream
<1> QED BY <1>4, <1>5, <1>6, <1>7, <1>25 DEF Calm

\* Every step of the keyserver keeps the calm.
LEMMA QuietHandler ==
  ASSUME Known, Calm, Quiet, HandlerStep
  PROVE  Calm'
<1>1. TypeOK /\ sock \in Sock  BY DEF Known, TypeOK, Sock, Phase
<1>2. ASSUME UNCHANGED <<calls, made, truth>> PROVE Steady /\ Last' = Last
  BY <1>2, NoCallSteady
<1>3. ASSUME InvalidateSession \/ ContinueSession \/ CommitInitial PROVE Calm'
  <2>1. /\ UNCHANGED <<calls, made, truth, sub, inbox, wire, client, reached, ignored>>
        /\ sock'.phase \in {sock.phase, "full", "fetch"}
        /\ sock.phase # "live" /\ sock'.phase # "live"
        /\ sock'.found = sock.found /\ sock'.news = sock.news
    BY <1>1, <1>3
    DEF InvalidateSession, ContinueSession, CommitInitial, dbVars, clientVars, Sock
  <2>2. Blind' => ~Active  BY DEF Quiet
  <2> QED BY <1>1, <1>2, <2>1, <2>2, QuietFrame
<1>4. CASE SubscriptionStarts
  <2>1. /\ UNCHANGED <<calls, made, truth, sock, inbox, wire, client, reached, ignored>>
        /\ sub = "starting" /\ sub' = "on"
    BY <1>4 DEF SubscriptionStarts, dbVars, clientVars
  <2>2. Steady /\ Last' = Last  BY <1>2, <2>1
  <2>3. Serial' /\ (Active' => Active)  BY <2>2, SerialStays DEF Calm, Known
  <2>4. Behind'  BY <2>1, <2>2, BehindStays DEF Calm, Known
  <2>5. Answers'  BY <2>1, <2>2, AnswersStay DEF Calm, Known
  <2>6. Idle'  BY <2>1, <2>3 DEF Quiet, Idle
  <2>7. sock.phase = "live"  BY <2>1 DEF Known, Handshake
  <2>8. Stream'
    <3>1. Last \in Nat /\ Last <= made  BY <1>1, LastBounds DEF Calm
    <3>2. \A k \in Keys : truth[k] <= truth'[k] /\ truth'[k] \in Nat
      BY <1>1, <2>1, QuietFacts
    <3>3. made <= made' /\ made' \in Nat  BY <1>1, <2>1, QuietFacts
    <3>4. \A x \in Calls : x <= made => calls'[x].key = calls[x].key
      BY <2>1
    <3>5. Stream /\ sub' # "off"  BY <2>1 DEF Calm
    <3> QED BY <1>1, <2>1, <2>2, <2>7, <3>1, <3>2, <3>3, <3>4, <3>5, StreamStays
  <2> QED BY <2>3, <2>4, <2>5, <2>6, <2>8 DEF Calm
<1> QED
  BY <1>3, <1>4, QuietFetch, QuietHydrate, QuietSendStateSync, QuietSendUpdates,
     QuietHydratePublished DEF HandlerStep

-----------------------------------------------------------------------------
(* The client.                                                             *)

\* Reading the first message of the wire: the client gets what After said
\* it would have, or one call more.
LEMMA QuietReceive ==
  ASSUME Known, Calm, Quiet, [Next]_vars, ReceiveStateSync \/ ReceiveUpdates
  PROVE  Calm'
<1> DEFINE m == wire[1]
<1>1. /\ wire # << >> /\ wire' = Tail(wire) /\ Head(wire) = m
      /\ reached' = Larger(reached, NextAsOf(m))
      /\ UNCHANGED <<calls, made, truth, sock, sub, inbox, ignored>>
  BY DEF ReceiveStateSync, ReceiveUpdates, dbVars
<1>2. client'.view = Merge(client.view, m.news) /\ client'.asOf = NextAsOf(m)
  <2>1. CASE ReceiveStateSync  BY <2>1, <1>1 DEF ReceiveStateSync
  <2>2. CASE ReceiveUpdates
    <3> DEFINE next == [client EXCEPT !.view = Merge(@, Head(wire).news),
                                      !.asOf = NextAsOf(Head(wire))]
    <3>1. client' = next  BY <2>2 DEF ReceiveUpdates
    <3>2. next.view = Merge(client.view, m.news) /\ next.asOf = NextAsOf(m)
      <4> HIDE DEF m
      <4> QED BY <1>1 DEF Known, TypeOK
    <3> QED BY <3>1, <3>2
  <2> QED BY <2>1, <2>2
<1>3. sock.phase = "live"  BY <1>1 DEF Known, Handshake
<1>4. Steady /\ Last' = Last  BY <1>1, NoCallSteady
<1>5. Serial' /\ (Active' => Active)  BY <1>4, SerialStays DEF Calm, Known
<1>6. Answers'  BY <1>1, <1>3 DEF Calm, Answers
<1>7. Idle'  BY <1>1, <1>5 DEF Calm, Idle, Blind
<1>8. /\ made \in Nat /\ Calls = 1..MaxCalls /\ MaxCalls \in Nat
      /\ Len(inbox) \in Nat /\ Len(wire) \in Nat
      /\ client.asOf \in Nat /\ reached \in Nat
      /\ \A k \in Keys : truth[k] \in Nat /\ client.view[k] \in Nat
      /\ \A x \in Calls : calls[x].key \in Keys
      /\ Last \in Nat /\ Last <= made
  BY QuietFacts, LastBounds DEF Known, Calm
<1>9. Stream /\ InboxInOrder /\ WireInOrder /\ NoGap
  BY <1>3 DEF Calm, Stream
<1>10. /\ Len(wire') = Len(wire) - 1 /\ Len(wire) # 0 /\ m \in Message
       /\ \A i \in 1..Len(wire') : wire'[i] = wire[i + 1]
  <2>1. wire \in Seq(Message)  BY DEF Known, TypeOK
  <2> QED BY <1>1, <2>1, EmptySeq, HeadTailProperties
<1>11. Sent' = Sent /\ Sent \in Int /\ Sent <= made
  BY <1>1, <1>4, <1>8 DEF Sent
<1>12. Synced'
  <2>1. \A i \in 1..Len(wire') : wire'[i].type = "updates"
    BY <1>1, HandshakeTail DEF Known
  <2>2. wire' # << >> => 1 \in 1..Len(wire')
    BY <1>8, <1>10, EmptySeq, TypeStep DEF Known, TypeOK
  <2> QED BY <2>1, <2>2 DEF Synced
<1>13. Covered' = Sent - Len(wire) + 1
  BY <1>8, <1>10, <1>11, <1>12 DEF Covered
<1>14. m.news \in News /\ m.asOf \in Nat
  BY <1>8, <1>10 DEF Message, Times
<1>15. DOMAIN m.news \subseteq Keys /\ \A k \in DOMAIN m.news : m.news[k] \in Nat
  BY <1>8, <1>14 DEF News, Versions
<1>16. \A k \in Keys :
         client'.view[k] = IF k \in DOMAIN m.news THEN m.news[k] ELSE client.view[k]
  BY <1>2 DEF Merge
<1>17. client.asOf = reached /\ \A k \in Keys : client.view[k] <= truth[k]
  BY DEF Calm, Behind
\* the checkpoint the message brings, and what the client then has
<1>18. /\ client'.asOf <= Covered' /\ client'.asOf >= client.asOf
       /\ client'.asOf \in Nat
       /\ \A k \in Keys : client'.view[k] <= truth[k] /\ client'.view[k] \in Nat
       /\ \A w \in Calls : w <= Covered' => w <= client'.view[calls[w].key]
       /\ 0 <= Covered'
  <2>1. CASE m.type # "updates"
    <3>1. ~Synced  BY <1>1, <2>1 DEF Synced
    <3>2. Covered' = Covered  BY <1>13, <3>1 DEF Covered
    <3>3. client'.asOf = m.asOf  BY <1>2, <2>1 DEF NextAsOf
    <3>4. 1 \in 1..Len(wire)  BY <1>8, <1>10
    <3>5. m.asOf >= client.asOf  BY <2>1, <3>4 DEF Known, Handshake
    <3>6. m.asOf <= Covered /\ \A k \in DOMAIN m.news : m.news[k] <= truth[k]
      BY <1>9, <3>1 DEF NoGap
    <3>7. \A k \in Keys : client'.view[k] = After(k)
      BY <1>16, <3>1 DEF After
    <3>8. \A w \in Calls : w <= Covered => w <= client'.view[calls[w].key]
      BY <1>8, <1>9, <3>7 DEF NoGap
    <3>9. \A k \in Keys : client'.view[k] <= truth[k] /\ client'.view[k] \in Nat
      BY <1>8, <1>15, <1>16, <1>17, <3>6
    <3> HIDE DEF m
    <3> QED BY <1>9, <1>14, <3>2, <3>3, <3>5, <3>6, <3>8, <3>9 DEF NoGap
  <2>2. CASE m.type = "updates"
    <3>1. Synced  BY <1>1, <2>2 DEF Synced
    <3> DEFINE c == Sent - Len(wire) + 1
               v == m.news[calls[c].key]
    <3>2. Covered = c - 1 /\ Covered' = c
      BY <1>8, <1>11, <1>13, <3>1 DEF Covered
    <3>3. IsUpdate(m, c)
      <4>1. 1 \in 1..Len(wire)  BY <1>8, <1>10
      <4> QED BY <1>9, <2>2, <4>1 DEF WireInOrder
    <3>4. /\ c \in Calls /\ c \in Nat /\ m.asOf = c /\ DOMAIN m.news = {calls[c].key}
          /\ v \in c..truth[calls[c].key] /\ calls[c].key \in Keys
      <4>1. c \in 1..made  BY <3>3 DEF IsUpdate
      <4>2. c \in Calls  BY <1>8, <4>1, QuietFacts DEF Known
      <4> QED BY <1>8, <3>3, <4>1, <4>2 DEF IsUpdate, Recent
    <3> HIDE DEF c
    <3>5. client'.asOf = c
      <4>1. client'.asOf = Larger(m.asOf, client.asOf)
        BY <1>2, <2>2 DEF NextAsOf
      <4>2. client.asOf <= c - 1  BY <1>9, <3>2 DEF NoGap
      <4> HIDE DEF m
      <4> QED BY <1>8, <3>4, <4>1, <4>2 DEF Larger
    <3>6. \A k \in Keys : client'.view[k] = IF k = calls[c].key THEN v ELSE client.view[k]
      BY <1>16, <3>4
    <3>7. \A k \in Keys : client'.view[k] <= truth[k] /\ client'.view[k] \in Nat
      <4> HIDE DEF v
      <4> QED BY <1>8, <1>17, <3>4, <3>6
    <3>8. \A w \in Calls : w <= c => w <= client'.view[calls[w].key]
      <4> SUFFICES ASSUME NEW w \in Calls, w <= c
                   PROVE  w <= client'.view[calls[w].key]
        OBVIOUS
      <4>1. calls[w].key \in Keys /\ w \in Nat  BY <1>8
      <4>2. CASE calls[w].key = calls[c].key
        <5>1. client'.view[calls[w].key] = v  BY <3>6, <4>1, <4>2
        <5> HIDE DEF v
        <5> QED BY <1>8, <3>4, <4>1, <5>1
      <4>3. CASE calls[w].key # calls[c].key
        <5>1. w <= c - 1  BY <3>4, <4>1, <4>3
        <5>2. w <= After(calls[w].key)  BY <1>9, <3>2, <5>1 DEF NoGap
        <5> QED BY <3>1, <3>6, <4>1, <4>3, <5>2 DEF After
      <4> QED BY <4>2, <4>3
    <3> QED BY <1>8, <1>9, <3>2, <3>4, <3>5, <3>7, <3>8 DEF NoGap
  <2> QED BY <2>1, <2>2
<1>19. Covered' \in Int /\ Covered' <= made
  BY <1>8, <1>10, <1>11, <1>13
<1>20. Behind'
  <2>1. reached' = client'.asOf
    <3>1. NextAsOf(m) = client'.asOf  BY <1>2
    <3> QED BY <1>1, <1>8, <1>17, <1>18, <3>1 DEF Larger
  <2>2. client'.asOf <= made  BY <1>8, <1>18, <1>19
  <2>3. \A w \in Calls : w <= client'.asOf => w <= client'.view[calls[w].key]
    BY <1>8, <1>18, <1>19
  <2> QED BY <1>1, <1>18, <2>1, <2>2, <2>3 DEF Calm, Behind
<1>21. InboxInOrder'
  BY <1>1, <1>9, <1>11 DEF InboxInOrder, Recent
<1>22. WireInOrder'
  <2>1. ASSUME NEW i \in 1..Len(wire'), wire'[i].type = "updates"
        PROVE  IsUpdate(wire'[i], Sent - Len(wire') + i)
    <3>1. i + 1 \in 1..Len(wire) /\ wire'[i] = wire[i + 1]
      BY <1>8, <1>10
    <3>2. IsUpdate(wire[i + 1], Sent - Len(wire) + (i + 1))
      BY <1>9, <2>1, <3>1 DEF WireInOrder
    <3>3. Sent - Len(wire) + (i + 1) = Sent - Len(wire') + i
      BY <1>8, <1>10, <1>11
    <3> QED BY <3>1, <3>2, <3>3
  <2> QED BY <1>1, <1>11, <2>1 DEF WireInOrder, IsUpdate, Recent
<1>23. NoGap'
  <2>1. \A k \in Keys : After(k)' = client'.view[k]
    BY <1>12 DEF After
  <2>2. ASSUME NEW w \in Calls, w <= Covered' PROVE w <= After(calls[w].key)'
    BY <1>1, <1>8, <1>18, <2>1, <2>2
  <2> QED BY <1>1, <1>12, <1>18, <2>2 DEF NoGap
<1>24. Stream'  BY <1>1, <1>9, <1>21, <1>22, <1>23 DEF Stream
<1> QED BY <1>5, <1>6, <1>7, <1>20, <1>24 DEF Calm

\* When the connection ends nothing is left of the stream; what was on the
\* wire is ignored, and the client keeps what it has.
LEMMA QuietEnd ==
  ASSUME Plain, Known, Calm, CloseSocket \/ Restart
  PROVE  Calm'
<1>1. /\ sock' = NoSock /\ wire' = << >>
      /\ UNCHANGED <<made, truth, reached>>
  BY DEF CloseSocket, Restart, EndConnection, dbVars
<1>2. client'.view = client.view /\ client'.asOf = client.asOf
  <2>1. CASE CloseSocket
    BY <2>1 DEF CloseSocket, Known, TypeOK
  <2>2. CASE Restart
    BY <2>2 DEF Restart, Plain
  <2> QED BY <2>1, <2>2
<1>3. Steady
  <2>1. CASE CloseSocket
    BY <2>1 DEF CloseSocket, Steady, dbVars
  <2>2. CASE Restart
    <3>1. \A w \in Calls : calls[w] \in Call  BY DEF Known, TypeOK
    <3>2. calls' = [w \in Calls |-> [calls[w] EXCEPT !.todo = @ \ {"reply"}]]
      BY <2>2 DEF Restart
    <3>3. \A w \in Calls : /\ calls'[w].key = calls[w].key
                           /\ calls'[w].time = calls[w].time
                           /\ calls'[w].kind = calls[w].kind
                           /\ calls'[w].took = calls[w].took
                           /\ calls'[w].todo \subseteq calls[w].todo
      BY <3>1, <3>2 DEF Call
    <3> QED BY <1>1, <3>3 DEF Steady
  <2> QED BY <2>1, <2>2
<1>4. Serial'  BY <1>3, SerialStays DEF Calm, Known
<1>5. \A w \in ignored' : w <= made
  <2>1. CASE Restart  BY <2>1 DEF Restart, Calm, Behind
  <2>2. CASE CloseSocket
    <3>1. ignored' = ignored \cup UpdatesOnWire  BY <2>2 DEF CloseSocket
    <3>2. ASSUME NEW i \in DOMAIN wire, wire[i].type = "updates", NEW w \in wire[i].ids
          PROVE  w <= made
      <4>1. DOMAIN wire = 1..Len(wire)  BY LenProperties DEF Known, TypeOK
      <4>2. wire # << >>  BY <3>2
      <4>3. sock.phase = "live"  BY <4>2 DEF Known, Handshake
      <4>4. IsUpdate(wire[i], Sent - Len(wire) + i)
        BY <3>2, <4>1, <4>3 DEF Calm, Stream, WireInOrder
      <4>5. made \in Nat  BY QuietFacts DEF Known
      <4> QED BY <3>2, <4>4, <4>5 DEF IsUpdate
    <3>3. \A w \in UpdatesOnWire : w <= made  BY <3>2 DEF UpdatesOnWire
    <3> QED BY <3>1, <3>3 DEF Calm, Behind
  <2> QED BY <2>1, <2>2
<1>6. Behind'  BY <1>1, <1>2, <1>3, <1>5 DEF Calm, Behind, Steady
<1>7. sock'.phase = "none" /\ sock'.found = {}  BY <1>1 DEF NoSock
<1>8. Idle' /\ Answers' /\ Stream'
  BY <1>7 DEF Idle, Blind, Answers, Stream
<1> QED BY <1>4, <1>6, <1>8 DEF Calm

\* Nothing has happened: all is calm.
LEMMA CalmInit == Init => Calm
<1> SUFFICES ASSUME Init PROVE Calm
  OBVIOUS
<1>1. /\ made = 0 /\ truth = [k \in Keys |-> 0] /\ sock = NoSock /\ ignored = {}
      /\ client = [view |-> [k \in Keys |-> 0], asOf |-> 0, status |-> "disconnected"]
      /\ reached = 0
      /\ \A w \in Calls : calls[w].todo = {} /\ calls[w].took = {}
  BY DEF Init
<1>2. \A w \in Calls : ~(w <= 0)  BY BoundsAssumption DEF Calls
<1>3. Serial  BY <1>1, <1>2 DEF Serial
<1>4. sock.phase = "none" /\ sock.found = {}  BY <1>1 DEF NoSock
<1>5. Idle /\ Answers /\ Stream
  BY <1>1, <1>4 DEF Idle, Active, Answers, Stream
<1>6. Behind  BY <1>1, <1>2 DEF Behind
<1> QED BY <1>3, <1>5, <1>6 DEF Calm

\* Every step of the quiet environment keeps the calm.
LEMMA CalmStep == Plain /\ Known /\ Calm /\ [Next /\ Quiet]_vars => Calm'
<1> SUFFICES ASSUME Plain, Known, Calm, [Next /\ Quiet]_vars PROVE Calm'
  OBVIOUS
<1>1. TypeOK /\ [Next]_vars  BY DEF Known
\* what only concerns the sessions table and the rows, and a stuttering step
<1>2. ASSUME UNCHANGED <<calls, made, truth, sock, sub, inbox, wire, reached, ignored>>,
             client'.view = client.view, client'.asOf = client.asOf
      PROVE  Calm'
  <2>1. Steady /\ Last' = Last  BY <1>2, NoCallSteady
  <2>2. Blind' => ~Active  BY <1>2 DEF Calm, Idle, Blind
  <2> QED BY <1>1, <1>2, <2>1, <2>2, QuietFrame
<1>3. CASE UNCHANGED vars
  BY <1>2, <1>3 DEF vars, dbVars, socketVars, clientVars
<1>4. ASSUME Quiet, NEW k \in Keys, NEW kind \in Kinds, NEW t \in Times,
             CreateUpdates(k, kind, t)
      PROVE  Calm'
  BY <1>1, <1>4, QuietCreate
<1>5. ASSUME Quiet, NEW w \in Calls, CallStep(w) \/ LoseReply(w) PROVE Calm'
  BY <1>1, <1>5, QuietCall
<1>6. ASSUME NEW t \in Times, CommitSessionUpdate(t) \/ DeleteExpiredUpdates(t)
      PROVE  Calm'
  BY <1>2, <1>6
  DEF CommitSessionUpdate, DeleteExpiredUpdates, socketVars, clientVars
<1>7. CASE Quiet /\ HandlerStep  BY <1>7, QuietHandler
<1>8. CASE Quiet /\ OpenSocket
  <2>1. /\ UNCHANGED <<calls, made, truth, sub, inbox, wire, reached, ignored>>
        /\ client'.view = client.view /\ client'.asOf = client.asOf
        /\ sock'.phase = "deciding" /\ sock'.found = {}
        /\ sock'.news = [k \in {} |-> 0]
    BY <1>1, <1>8 DEF OpenSocket, NoSock, dbVars, TypeOK
  <2>2. sock.phase = "none"  BY <1>8 DEF OpenSocket, Known, Handshake
  <2>3. Steady /\ Last' = Last  BY <2>1, NoCallSteady
  <2>4. Blind' => ~Active  BY <1>8 DEF Quiet
  <2> QED BY <1>1, <2>1, <2>2, <2>3, <2>4, QuietFrame
<1>9. CASE Quiet /\ (ReceiveStateSync \/ ReceiveUpdates)
  BY <1>1, <1>9, QuietReceive
<1>10. ~Persist  BY DEF Persist, Plain
<1>11. CASE CloseSocket \/ Restart  BY <1>11, QuietEnd
<1> QED
  BY <1>3, <1>4, <1>5, <1>6, <1>7, <1>8, <1>9, <1>10, <1>11 DEF Next, ClientStep

\* At rest the client has the content of the database, and what it ignored
\* is above its checkpoint or has reached it another way.
LEMMA CalmIsEnough ==
  ASSUME Known, Calm
  PROVE  NothingMissed /\ IgnoredStayAboveCheckpoint
<1>1. /\ made \in Nat /\ Calls = 1..MaxCalls /\ MaxCalls \in Nat /\ made <= MaxCalls
      /\ client.asOf \in Nat
      /\ \A k \in Keys : truth[k] \in Nat /\ client.view[k] \in Nat
      /\ \A x \in Calls : calls[x].key \in Keys
  BY QuietFacts DEF Known
<1>2. ASSUME AtRest PROVE client.view = truth
  <2>1. sock.phase = "live"  BY <1>2 DEF AtRest, Known, Handshake
  <2>2. Last = made  BY <1>2, LastBounds DEF AtRest, Known, Calm
  <2>3. Len(wire) = 0 /\ Len(inbox) = 0 /\ Synced
    BY <1>2, EmptySeq DEF AtRest, Synced
  <2>4. Covered = made  BY <1>1, <2>2, <2>3 DEF Covered, Sent
  <2>5. \A w \in Calls : w <= made => w <= client.view[calls[w].key]
    BY <1>1, <2>1, <2>3, <2>4 DEF Calm, Stream, NoGap, After
  <2>6. ASSUME NEW k \in Keys PROVE client.view[k] = truth[k]
    <3>1. truth[k] <= made /\ (truth[k] # 0 => calls[truth[k]].key = k)
      BY DEF Calm, Serial
    <3>2. truth[k] # 0 => truth[k] <= client.view[k]
      BY <1>1, <2>5, <3>1
    <3>3. client.view[k] <= truth[k]  BY DEF Calm, Behind
    <3> QED BY <1>1, <3>2, <3>3
  <2> QED BY <2>6 DEF Known, TypeOK
<1>3. ASSUME NEW w \in ignored
      PROVE  client.view[calls[w].key] >= w \/ calls[w].time > client.asOf
  <2>1. w \in Calls /\ w <= made
    <3>1. ignored \subseteq Calls  BY DEF Known, TypeOK
    <3> QED BY <3>1 DEF Calm, Behind
  <2>2. calls[w].time = w  BY <2>1 DEF Calm, Serial
  <2>3. w <= client.asOf => w <= client.view[calls[w].key]
    BY <2>1 DEF Calm, Behind
  <2> QED BY <1>1, <2>1, <2>2, <2>3
<1> QED BY <1>2, <1>3 DEF NothingMissed, IgnoredStayAboveCheckpoint

\* The inductive invariant of the quiet environment.
LEMMA QuietCalm == Plain => (QuietSpec => [](Known /\ Calm))
<1>1. ASSUME Plain PROVE QuietSpec => [](Known /\ Calm)
  <2>1. Init => Known /\ Calm
    BY TypeInit, BoundedInit, FoundInit, HandshakeInit, DownloadInit, CalmInit DEF Known
  <2>2. Known /\ Calm /\ [Next /\ Quiet]_vars => (Known /\ Calm)'
    <3>1. [Next /\ Quiet]_vars => [Next]_vars  OBVIOUS
    <3>2. Known /\ [Next]_vars => Known'
      BY TypeStep, BoundedStep, FoundStep, HandshakeStep, DownloadStep DEF Known
    <3> QED BY <1>1, <3>1, <3>2, CalmStep
  <2> QED BY <2>1, <2>2, PTL DEF QuietSpec
<1> QED BY <1>1

\* In a quiet environment, whatever sockets close and whatever the client
\* ignores: a client at rest has the content of the database, although the
\* subscription starts only after the state sync has been read.
THEOREM QuietMissesNothing ==
  ASSUME Kinds \cap {"own", "self"} = {}, StaleRestarts = FALSE
  PROVE  QuietSpec => []NothingMissed
<1>1. Plain  BY DEF Plain
<1>2. Known /\ Calm => NothingMissed  BY CalmIsEnough
<1> QED BY <1>1, <1>2, QuietCalm, PTL

\* And ignoring the updates that arrive at a closing socket is safe: until
\* the client has such an update it stays above the client's checkpoint.
THEOREM QuietIgnoresSafely ==
  ASSUME Kinds \cap {"own", "self"} = {}, StaleRestarts = FALSE
  PROVE  QuietSpec => []IgnoredStayAboveCheckpoint
<1>1. Plain  BY DEF Plain
<1>2. Known /\ Calm => IgnoredStayAboveCheckpoint  BY CalmIsEnough
<1> QED BY <1>1, <1>2, QuietCalm, PTL
=============================================================================
