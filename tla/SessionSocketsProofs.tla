------------------------ MODULE SessionSocketsProofs ------------------------
(***************************************************************************)
(* Proofs about SessionSockets: its types, which bound the subscribers a   *)
(* socket can ever create, and OpenIsSubscribed.  Both need what a socket  *)
(* may be at each point of its life, SocketLife.                           *)
(***************************************************************************)
EXTENDS SessionSockets, TLAPS

\* A socket not opened yet has done nothing.
Unused(s) ==
  /\ ws[s] = "unused" <=> s > opened
  /\ ws[s] = "unused" =>
       handler[s] = "none" /\ sub[s] = "none" /\ instance[s] = 0

\* Until onClose has quit its subscriber a socket has created none, or the
\* one it has.
Living(s) ==
  ws[s] = "open" \/ s \in ending => instance[s] = IF sub[s] = "none" THEN 0 ELSE 1

\* An open socket has a subscriber that has not quit, or is handling INITIAL,
\* or has failed to.
Open(s) ==
  ws[s] = "open" => /\ sub[s] # "quit"
                    /\ handler[s] \notin {"initial", "failed"} => sub[s] # "none"

\* A handler that outlives the socket creates one subscriber more, the last.
Ended(s) ==
  /\ s \in ending => ws[s] = "closed"
  /\ handler[s] # "none" => instance[s] \in 0..1

SocketLife == \A s \in Sockets : Unused(s) /\ Living(s) /\ Open(s) /\ Ended(s)

\* The inductive invariant.
Inv == TypeOK /\ client <= opened /\ SocketLife
-----------------------------------------------------------------------------
(* Each operation preserves the invariant.                                 *)

\* A socket that is opened was unused, so that it has no subscriber yet.
LEMMA ClientOpensLemma ==
  ASSUME Inv, ClientOpens
  PROVE  Inv'
<1> USE DEF Inv, Sockets, bounds, redisVars
<1>1. TypeOK'
  BY BoundsAssumption DEF TypeOK, ClientOpens, SocketLife, Ended
<1>2. (client <= opened)'
  BY BoundsAssumption DEF TypeOK, ClientOpens
<1>3. ASSUME NEW t \in Sockets
      PROVE  (Unused(t) /\ Living(t) /\ Open(t) /\ Ended(t))'
  <2>1. Unused(t) /\ Living(t) /\ Open(t) /\ Ended(t)
    BY DEF SocketLife
  <2>2. Unused(t)'
    BY <2>1, BoundsAssumption DEF TypeOK, ClientOpens, Unused
  <2>3. Living(t)'
    BY <2>1, BoundsAssumption DEF TypeOK, ClientOpens, Unused, Living, Ended
  <2>4. Open(t)'
    BY <2>1, BoundsAssumption DEF TypeOK, ClientOpens, Unused, Open
  <2>5. Ended(t)'
    BY <2>1, BoundsAssumption DEF TypeOK, ClientOpens, Unused, Living, Ended
  <2>. QED
    BY <2>2, <2>3, <2>4, <2>5
<1>. QED
  BY <1>1, <1>2, <1>3 DEF SocketLife

\* A request is made on an open socket, which has created one subscriber at
\* most.
LEMMA ClientRequestsLemma ==
  ASSUME Inv, ClientRequests
  PROVE  Inv'
<1> USE DEF Inv, Sockets, bounds, redisVars
<1>1. TypeOK'
  BY BoundsAssumption DEF TypeOK, ClientRequests, SocketLife, Ended
<1>2. (client <= opened)'
  BY BoundsAssumption DEF TypeOK, ClientRequests
<1>3. ASSUME NEW t \in Sockets
      PROVE  (Unused(t) /\ Living(t) /\ Open(t) /\ Ended(t))'
  <2>1. Unused(t) /\ Living(t) /\ Open(t) /\ Ended(t)
    BY DEF SocketLife
  <2>2. Unused(t)'
    BY <2>1, BoundsAssumption DEF TypeOK, ClientRequests, Unused
  <2>3. Living(t)'
    BY <2>1, BoundsAssumption DEF TypeOK, ClientRequests, Unused, Living, Ended
  <2>4. Open(t)'
    BY <2>1, BoundsAssumption DEF TypeOK, ClientRequests, Unused, Open
  <2>5. Ended(t)'
    BY <2>1, BoundsAssumption DEF TypeOK, ClientRequests, Unused, Living, Ended
  <2>. QED
    BY <2>2, <2>3, <2>4, <2>5
<1>. QED
  BY <1>1, <1>2, <1>3 DEF SocketLife

\* A lost connection changes nothing on the keyserver.
LEMMA ConnectionLostLemma ==
  ASSUME Inv, ConnectionLost
  PROVE  Inv'
<1> USE DEF Inv, Sockets, bounds, redisVars
<1>1. TypeOK'
  BY BoundsAssumption DEF TypeOK, ConnectionLost, SocketLife, Ended
<1>2. (client <= opened)'
  BY BoundsAssumption DEF TypeOK, ConnectionLost
<1>3. ASSUME NEW t \in Sockets
      PROVE  (Unused(t) /\ Living(t) /\ Open(t) /\ Ended(t))'
  <2>1. Unused(t) /\ Living(t) /\ Open(t) /\ Ended(t)
    BY DEF SocketLife
  <2>2. Unused(t)'
    BY <2>1, BoundsAssumption DEF TypeOK, ConnectionLost, Unused
  <2>3. Living(t)'
    BY <2>1, BoundsAssumption DEF TypeOK, ConnectionLost, Unused, Living, Ended
  <2>4. Open(t)'
    BY <2>1, BoundsAssumption DEF TypeOK, ConnectionLost, Unused, Open
  <2>5. Ended(t)'
    BY <2>1, BoundsAssumption DEF TypeOK, ConnectionLost, Unused, Living, Ended
  <2>. QED
    BY <2>2, <2>3, <2>4, <2>5
<1>. QED
  BY <1>1, <1>2, <1>3 DEF SocketLife

\* The client's leaving a closed socket changes nothing on the keyserver.
LEMMA ClientSeesCloseLemma ==
  ASSUME Inv, ClientSeesClose
  PROVE  Inv'
<1> USE DEF Inv, Sockets, bounds, redisVars
<1>1. TypeOK'
  BY BoundsAssumption DEF TypeOK, ClientSeesClose, SocketLife, Ended
<1>2. (client <= opened)'
  BY BoundsAssumption DEF TypeOK, ClientSeesClose
<1>3. ASSUME NEW t \in Sockets
      PROVE  (Unused(t) /\ Living(t) /\ Open(t) /\ Ended(t))'
  <2>1. Unused(t) /\ Living(t) /\ Open(t) /\ Ended(t)
    BY DEF SocketLife
  <2>2. Unused(t)'
    BY <2>1, BoundsAssumption DEF TypeOK, ClientSeesClose, Unused
  <2>3. Living(t)'
    BY <2>1, BoundsAssumption DEF TypeOK, ClientSeesClose, Unused, Living, Ended
  <2>4. Open(t)'
    BY <2>1, BoundsAssumption DEF TypeOK, ClientSeesClose, Unused, Open
  <2>5. Ended(t)'
    BY <2>1, BoundsAssumption DEF TypeOK, ClientSeesClose, Unused, Living, Ended
  <2>. QED
    BY <2>2, <2>3, <2>4, <2>5
<1>. QED
  BY <1>1, <1>2, <1>3 DEF SocketLife

\* Nor does its leaving a socket on which INITIAL has failed.
LEMMA ClientGivesUpLemma ==
  ASSUME Inv, ClientGivesUp
  PROVE  Inv'
<1> USE DEF Inv, Sockets, bounds, redisVars
<1>1. TypeOK'
  BY BoundsAssumption DEF TypeOK, ClientGivesUp, SocketLife, Ended
<1>2. (client <= opened)'
  BY BoundsAssumption DEF TypeOK, ClientGivesUp
<1>3. ASSUME NEW t \in Sockets
      PROVE  (Unused(t) /\ Living(t) /\ Open(t) /\ Ended(t))'
  <2>1. Unused(t) /\ Living(t) /\ Open(t) /\ Ended(t)
    BY DEF SocketLife
  <2>2. Unused(t)'
    BY <2>1, BoundsAssumption DEF TypeOK, ClientGivesUp, Unused
  <2>3. Living(t)'
    BY <2>1, BoundsAssumption DEF TypeOK, ClientGivesUp, Unused, Living, Ended
  <2>4. Open(t)'
    BY <2>1, BoundsAssumption DEF TypeOK, ClientGivesUp, Unused, Open
  <2>5. Ended(t)'
    BY <2>1, BoundsAssumption DEF TypeOK, ClientGivesUp, Unused, Living, Ended
  <2>. QED
    BY <2>2, <2>3, <2>4, <2>5
<1>. QED
  BY <1>1, <1>2, <1>3 DEF SocketLife

\* The end of a handler leaves its socket with a subscriber, and with no
\* handler that might create one more than the second.
LEMMA HandlerEndsLemma ==
  ASSUME Inv, NEW s \in Sockets, HandlerEnds(s)
  PROVE  Inv'
<1> USE DEF Inv, Sockets, bounds, redisVars, NeedsSubscriber
<1>1. TypeOK'
  <2>1. instance[s] + 1 \in 1..2
    <3>1. handler[s] # "none"
      BY DEF HandlerEnds
    <3>2. instance[s] \in 0..1
      BY <3>1 DEF SocketLife, Ended
    <3>. QED
      BY <3>2
  <2>2. Append(starts, <<s, instance[s] + 1>>) \in Seq(Sockets \X (1..2))
    BY <2>1 DEF TypeOK
  <2>3. starts' \in Seq(Sockets \X (1..2))
    BY <2>2 DEF TypeOK, HandlerEnds
  <2>4. instance' \in [Sockets -> 0..2] /\ sub' \in
          [Sockets -> {"none", "requested", "active", "quit"}]
    BY <2>1 DEF TypeOK, HandlerEnds
  <2>5. handler' \in [Sockets -> {"none", "initial", "request", "failed"}]
    BY DEF TypeOK, HandlerEnds
  <2>. QED
    BY <2>3, <2>4, <2>5 DEF TypeOK, HandlerEnds
<1>2. (client <= opened)'
  BY BoundsAssumption DEF TypeOK, HandlerEnds
<1>3. ASSUME NEW t \in Sockets
      PROVE  (Unused(t) /\ Living(t) /\ Open(t) /\ Ended(t))'
  <2>1. Unused(t) /\ Living(t) /\ Open(t) /\ Ended(t)
    BY DEF SocketLife
  <2>2. Unused(t)'
    BY <2>1, BoundsAssumption DEF TypeOK, HandlerEnds, Unused
  <2>3. Living(t)'
    BY <2>1, BoundsAssumption DEF TypeOK, HandlerEnds, Unused, Living, Ended
  <2>4. Open(t)'
    BY <2>1, BoundsAssumption DEF TypeOK, HandlerEnds, Unused, Open
  <2>5. Ended(t)'
    BY <2>1, BoundsAssumption DEF TypeOK, HandlerEnds, Unused, Living, Ended
  <2>. QED
    BY <2>2, <2>3, <2>4, <2>5
<1>. QED
  BY <1>1, <1>2, <1>3 DEF SocketLife

\* A handler that fails creates no subscriber, nor does it take one away.
LEMMA HandlerFailsLemma ==
  ASSUME Inv, NEW s \in Sockets, HandlerFails(s)
  PROVE  Inv'
<1> USE DEF Inv, Sockets, bounds, redisVars
<1>1. TypeOK'
  BY BoundsAssumption DEF TypeOK, HandlerFails, SocketLife, Ended
<1>2. (client <= opened)'
  BY BoundsAssumption DEF TypeOK, HandlerFails
<1>3. ASSUME NEW t \in Sockets
      PROVE  (Unused(t) /\ Living(t) /\ Open(t) /\ Ended(t))'
  <2>1. Unused(t) /\ Living(t) /\ Open(t) /\ Ended(t)
    BY DEF SocketLife
  <2>2. Unused(t)'
    BY <2>1, BoundsAssumption DEF TypeOK, HandlerFails, Unused
  <2>3. Living(t)'
    BY <2>1, BoundsAssumption DEF TypeOK, HandlerFails, Unused, Living, Ended
  <2>4. Open(t)'
    BY <2>1, BoundsAssumption DEF TypeOK, HandlerFails, Unused, Open
  <2>5. Ended(t)'
    BY <2>1, BoundsAssumption DEF TypeOK, HandlerFails, Unused, Living, Ended
  <2>. QED
    BY <2>2, <2>3, <2>4, <2>5
<1>. QED
  BY <1>1, <1>2, <1>3 DEF SocketLife

\* A subscription that takes effect is the one the socket has.
LEMMA SubscriptionTakesEffectLemma ==
  ASSUME Inv, NEW s \in Sockets, SubscriptionTakesEffect(s)
  PROVE  Inv'
<1> USE DEF Inv, Sockets, bounds, redisVars
<1>1. TypeOK'
  BY BoundsAssumption DEF TypeOK, SubscriptionTakesEffect, SocketLife, Ended
<1>2. (client <= opened)'
  BY BoundsAssumption DEF TypeOK, SubscriptionTakesEffect
<1>3. ASSUME NEW t \in Sockets
      PROVE  (Unused(t) /\ Living(t) /\ Open(t) /\ Ended(t))'
  <2>1. Unused(t) /\ Living(t) /\ Open(t) /\ Ended(t)
    BY DEF SocketLife
  <2>2. Unused(t)'
    BY <2>1, BoundsAssumption DEF TypeOK, SubscriptionTakesEffect, Unused
  <2>3. Living(t)'
    BY <2>1, BoundsAssumption DEF TypeOK, SubscriptionTakesEffect, Unused, Living, Ended
  <2>4. Open(t)'
    BY <2>1, BoundsAssumption DEF TypeOK, SubscriptionTakesEffect, Unused, Open
  <2>5. Ended(t)'
    BY <2>1, BoundsAssumption DEF TypeOK, SubscriptionTakesEffect, Unused, Living, Ended
  <2>. QED
    BY <2>2, <2>3, <2>4, <2>5
<1>. QED
  BY <1>1, <1>2, <1>3 DEF SocketLife

\* The arrival of an announcement touches the inboxes only.
LEMMA StartReachesLemma ==
  ASSUME Inv, StartReaches
  PROVE  Inv'
<1> USE DEF Inv, Sockets, bounds, redisVars
<1>1. TypeOK'
  BY BoundsAssumption DEF TypeOK, StartReaches, SocketLife, Ended
<1>2. (client <= opened)'
  BY BoundsAssumption DEF TypeOK, StartReaches
<1>3. ASSUME NEW t \in Sockets
      PROVE  (Unused(t) /\ Living(t) /\ Open(t) /\ Ended(t))'
  <2>1. Unused(t) /\ Living(t) /\ Open(t) /\ Ended(t)
    BY DEF SocketLife
  <2>2. Unused(t)'
    BY <2>1, BoundsAssumption DEF TypeOK, StartReaches, Unused
  <2>3. Living(t)'
    BY <2>1, BoundsAssumption DEF TypeOK, StartReaches, Unused, Living, Ended
  <2>4. Open(t)'
    BY <2>1, BoundsAssumption DEF TypeOK, StartReaches, Unused, Open
  <2>5. Ended(t)'
    BY <2>1, BoundsAssumption DEF TypeOK, StartReaches, Unused, Living, Ended
  <2>. QED
    BY <2>2, <2>3, <2>4, <2>5
<1>. QED
  BY <1>1, <1>2, <1>3 DEF SocketLife

\* A subscriber that quits takes its socket along.
LEMMA ReceiveStartLemma ==
  ASSUME Inv, NEW s \in Sockets, NEW i, ReceiveStart(s, i)
  PROVE  Inv'
<1> USE DEF Inv, Sockets, bounds, redisVars, Own, TerminatedBy
<1>1. TypeOK'
  BY BoundsAssumption, ZenonT(30) DEF TypeOK, ReceiveStart, SocketLife, Ended
<1>2. (client <= opened)'
  BY BoundsAssumption DEF TypeOK, ReceiveStart
<1>3. ASSUME NEW t \in Sockets
      PROVE  (Unused(t) /\ Living(t) /\ Open(t) /\ Ended(t))'
  <2>1. Unused(t) /\ Living(t) /\ Open(t) /\ Ended(t)
    BY DEF SocketLife
  <2>2. Unused(t)'
    BY <2>1, BoundsAssumption DEF TypeOK, ReceiveStart, Unused
  <2>3. Living(t)'
    BY <2>1, BoundsAssumption DEF TypeOK, ReceiveStart, Unused, Living, Ended
  <2>4. Open(t)'
    BY <2>1, BoundsAssumption DEF TypeOK, ReceiveStart, Unused, Open
  <2>5. Ended(t)'
    BY <2>1, BoundsAssumption DEF TypeOK, ReceiveStart, Unused, Living, Ended
  <2>. QED
    BY <2>2, <2>3, <2>4, <2>5
<1>. QED
  BY <1>1, <1>2, <1>3 DEF SocketLife

\* A socket found closed keeps the subscriber it has until onClose quits it.
LEMMA ServerNoticesCloseLemma ==
  ASSUME Inv, NEW s \in Sockets, ServerNoticesClose(s)
  PROVE  Inv'
<1> USE DEF Inv, Sockets, bounds, redisVars
<1>1. TypeOK'
  BY BoundsAssumption DEF TypeOK, ServerNoticesClose, SocketLife, Ended
<1>2. (client <= opened)'
  BY BoundsAssumption DEF TypeOK, ServerNoticesClose
<1>3. ASSUME NEW t \in Sockets
      PROVE  (Unused(t) /\ Living(t) /\ Open(t) /\ Ended(t))'
  <2>1. Unused(t) /\ Living(t) /\ Open(t) /\ Ended(t)
    BY DEF SocketLife
  <2>2. Unused(t)'
    BY <2>1, BoundsAssumption DEF TypeOK, ServerNoticesClose, Unused
  <2>3. Living(t)'
    BY <2>1, BoundsAssumption DEF TypeOK, ServerNoticesClose, Unused, Living, Ended
  <2>4. Open(t)'
    BY <2>1, BoundsAssumption DEF TypeOK, ServerNoticesClose, Unused, Open
  <2>5. Ended(t)'
    BY <2>1, BoundsAssumption DEF TypeOK, ServerNoticesClose, Unused, Living, Ended
  <2>. QED
    BY <2>2, <2>3, <2>4, <2>5
<1>. QED
  BY <1>1, <1>2, <1>3 DEF SocketLife

\* When onClose quits the subscriber the socket has created at most one.
LEMMA QuitRedisLemma ==
  ASSUME Inv, NEW s \in Sockets, QuitRedis(s)
  PROVE  Inv'
<1> USE DEF Inv, Sockets, bounds, redisVars
<1>1. TypeOK'
  BY BoundsAssumption DEF TypeOK, QuitRedis, SocketLife, Ended
<1>2. (client <= opened)'
  BY BoundsAssumption DEF TypeOK, QuitRedis
<1>3. ASSUME NEW t \in Sockets
      PROVE  (Unused(t) /\ Living(t) /\ Open(t) /\ Ended(t))'
  <2>1. Unused(t) /\ Living(t) /\ Open(t) /\ Ended(t)
    BY DEF SocketLife
  <2>2. Unused(t)'
    BY <2>1, BoundsAssumption DEF TypeOK, QuitRedis, Unused
  <2>3. Living(t)'
    BY <2>1, BoundsAssumption DEF TypeOK, QuitRedis, Unused, Living, Ended
  <2>4. Open(t)'
    BY <2>1, BoundsAssumption DEF TypeOK, QuitRedis, Open, Ended
  <2>5. Ended(t)'
    BY <2>1, BoundsAssumption DEF TypeOK, QuitRedis, Unused, Living, Ended
  <2>. QED
    BY <2>2, <2>3, <2>4, <2>5
<1>. QED
  BY <1>1, <1>2, <1>3 DEF SocketLife

\* Every step preserves it.
LEMMA NextLemma ==
  ASSUME Inv, [Next]_vars
  PROVE  Inv'
<1>1. CASE UNCHANGED vars
  BY <1>1 DEF vars, Inv, TypeOK, SocketLife, Unused, Living, Open, Ended
<1>2. CASE Next
  BY <1>2, ClientOpensLemma, ClientRequestsLemma, ConnectionLostLemma,
     ClientSeesCloseLemma, ClientGivesUpLemma, HandlerEndsLemma,
     HandlerFailsLemma, SubscriptionTakesEffectLemma, StartReachesLemma,
     ReceiveStartLemma, ServerNoticesCloseLemma,
     QuitRedisLemma
     DEF Next, SocketStep
<1>. QED
  BY <1>1, <1>2

-----------------------------------------------------------------------------
(* The theorems.                                                           *)

\* The invariant holds throughout.
LEMMA Invariance == Spec => []Inv
<1>1. Init => Inv
  BY BoundsAssumption
     DEF Init, Inv, TypeOK, SocketLife, Unused, Living, Open, Ended, Sockets
<1>. QED
  BY <1>1, NextLemma, PTL DEF Spec

\* The variables have their types; above all a socket creates at most two
\* subscribers, the second of them by a handler that has outlived it, so that
\* sockets terminating each other's subscriptions come to an end (socket.js).
THEOREM TypeCorrect == Spec => []TypeOK
<1>1. Inv => TypeOK
  BY DEF Inv
<1>. QED
  BY <1>1, Invariance, PTL

\* However many sockets a session has, in however many processes, and however
\* late their announcements and close events come, an open socket that has
\* done INITIAL without an error is subscribed or about to be, though later
\* handlers fail (socket.js, redis.js).
THEOREM SocketsStaySubscribed == Spec => []OpenIsSubscribed
<1>1. Inv => OpenIsSubscribed
  BY DEF Inv, TypeOK, SocketLife, Open, OpenIsSubscribed
<1>. QED
  BY <1>1, Invariance, PTL
=============================================================================
