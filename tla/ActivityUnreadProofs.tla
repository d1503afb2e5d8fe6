------------------------ MODULE ActivityUnreadProofs ------------------------
(***************************************************************************)
(* Proofs about ActivityUnread: types, that last_message catches up with   *)
(* the messages, and that nothing is left unread without a cause, for any  *)
(* number of sessions, messages and requests.                              *)
(***************************************************************************)
EXTENDS ActivityUnread, TLAPS

-----------------------------------------------------------------------------
(* Types.                                                                  *)

\* A fresh request record, with the fields a request starts with, is one.
LEMMA NoRequestType == NoRequest \in Request
  <1>1. (CHOOSE s \in Sessions : TRUE) \in Sessions
    BY SessionsAssumption
  <1> QED
    BY <1>1, BoundsAssumption DEF NoRequest, Request, Latest

\* The states the program starts in are type correct.
LEMMA TypeInit == Init => TypeOK
  BY NoRequestType, BoundsAssumption
  DEF Init, TypeOK, Send, Ids, Latest, Requests

\* Sending a message keeps the types.
LEMMA TypeSend ==
  ASSUME TypeOK, SendStep \/ \E mine \in BOOLEAN : CreateMessages(mine)
  PROVE  TypeOK'
  <1>1. CASE \E mine \in BOOLEAN : CreateMessages(mine)
    BY <1>1, BoundsAssumption
    DEF CreateMessages, TypeOK, Send, Ids, Latest, memberVars, clientVars, reqVars
  <1>2. ASSUME NEW m \in 1..made, InsertRow(m) PROVE TypeOK'
    <2>1. m \in Ids /\ sends[m] \in Send
      BY BoundsAssumption DEF TypeOK, Ids, Latest
    <2>2. sends' \in [Ids -> Send]
      BY <1>2, <2>1 DEF InsertRow, TypeOK, Send
    <2> QED
      BY <1>2, <2>2 DEF InsertRow, TypeOK, memberVars, clientVars, reqVars
  <1>3. ASSUME NEW m \in 1..made, Look(m) PROVE TypeOK'
    <2>1. m \in Ids /\ sends[m] \in Send
      BY BoundsAssumption DEF TypeOK, Ids, Latest
    <2>2. (sends[m].mine \/ SomeoneFocused) \in BOOLEAN
      BY <2>1 DEF Send, SomeoneFocused
    <2>3. sends' \in [Ids -> Send]
      BY <1>3, <2>1, <2>2 DEF Look, TypeOK, Send
    <2> QED
      BY <1>3, <2>3 DEF Look, TypeOK, memberVars, clientVars, reqVars
  <1>4. ASSUME NEW m \in 1..made, UpdateLatest(m) PROVE TypeOK'
    <2>1. m \in Ids /\ m \in Latest /\ sends[m] \in Send
      BY BoundsAssumption DEF TypeOK, Ids, Latest
    <2>2. sends' \in [Ids -> Send]
      BY <1>4, <2>1 DEF UpdateLatest, TypeOK, Send
    <2>3. last' \in Latest /\ lastRead' \in Latest
      BY <1>4, <2>1 DEF UpdateLatest, TypeOK, Larger
    <2> QED
      BY <1>4, <2>2, <2>3 DEF UpdateLatest, TypeOK, clientVars, reqVars
  <1> QED
    BY <1>1, <1>2, <1>3, <1>4 DEF SendStep

\* A session's request keeps the types.
LEMMA TypeAsk ==
  ASSUME TypeOK, NEW s \in Sessions, NEW k \in Latest,
         NEW kind \in {"focus", "unfocus", "read", "unread"},
         NEW todo \in SUBSET {"rows", "check", "newer", "fetch", "decide", "write"},
         Ask(s, k, kind, todo), active' \in [Sessions -> BOOLEAN]
  PROVE  TypeOK'
  <1> DEFINE r == [NoRequest EXCEPT !.session = s, !.kind = kind,
                                    !.latest = k, !.todo = todo]
  <1>1. r \in Request
    BY NoRequestType DEF Request
  <1>2. reqs' = [reqs EXCEPT ![asked + 1] = r] /\ asked + 1 \in 0..MaxRequests
    BY BoundsAssumption DEF Ask, TypeOK
  <1> HIDE DEF r
  <1>3. reqs' \in [Requests -> Request]
    BY <1>1, <1>2 DEF TypeOK
  <1> QED
    BY <1>2, <1>3 DEF Ask, TypeOK, sendVars, memberVars

\* A step of a session keeps the types.
LEMMA TypeClient ==
  ASSUME TypeOK, NEW s \in Sessions, ClientStep(s)
  PROVE  TypeOK'
  <1>1. ASSUME NEW k \in Latest, ChangeFocus(s, k) PROVE TypeOK'
    <2>1. active' \in [Sessions -> BOOLEAN]
      BY <1>1 DEF ChangeFocus, TypeOK
    <2> QED
      BY <1>1, <2>1, TypeAsk DEF ChangeFocus
  <1>2. ASSUME NEW k \in Latest, MarkRead(s, k) PROVE TypeOK'
    BY <1>2, TypeAsk DEF MarkRead, TypeOK
  <1>3. ASSUME NEW k \in Latest, MarkUnread(s, k) PROVE TypeOK'
    BY <1>3, TypeAsk DEF MarkUnread, TypeOK
  <1>4. CASE LoseFocusedRow(s)
    BY <1>4, BoundsAssumption
    DEF LoseFocusedRow, TypeOK, sendVars, memberVars, clientVars, reqVars
  <1> QED
    BY <1>1, <1>2, <1>3, <1>4 DEF ClientStep

\* What a request marks as read is a message id.
LEMMA NewLastReadType ==
  ASSUME NEW r \in Request
  PROVE  NewLastRead(r) \in Latest
  BY BoundsAssumption DEF NewLastRead, Larger, Request, Latest

\* A request whose handler is done is still a request.
LEMMA FinishedType ==
  ASSUME NEW r \in Request
  PROVE  [r EXCEPT !.todo = {}, !.value = 0] \in Request
  <1> DEFINE nothing == {}
  <1>1. nothing \in SUBSET {"rows", "check", "newer", "fetch", "decide", "write"}
    OBVIOUS
  <1>2. 0 \in Latest
    BY BoundsAssumption DEF Latest
  <1> HIDE DEF nothing
  <1>3. [r EXCEPT !.todo = nothing, !.value = 0] \in Request
    BY <1>1, <1>2 DEF Request
  <1> QED
    BY <1>3 DEF nothing

\* A step of a handler keeps the types.
LEMMA TypeRequest ==
  ASSUME TypeOK, RequestStep
  PROVE  TypeOK'
  <1> PICK n \in 1..asked :
         \/ UpdateFocusedRows(n) \/ CheckThreadsFocused(n)
         \/ CheckForNewerMessages(n) \/ FetchLastMessageInfo(n)
         \/ Decide(n) \/ UpdateLastRead(n)
    BY DEF RequestStep
  <1>0. n \in Requests /\ reqs[n] \in Request
    BY BoundsAssumption DEF TypeOK, Requests
  <1>1. CASE UpdateFocusedRows(n)
    <2>1. reqs' \in [Requests -> Request]
      BY <1>0, <1>1 DEF UpdateFocusedRows, TypeOK, Request
    <2>2. focused' \in [Sessions -> 0..MaxRequests]
      BY <1>0, <1>1, BoundsAssumption
      DEF UpdateFocusedRows, TypeOK, Request, Requests
    <2> QED
      BY <1>1, <2>1, <2>2
      DEF UpdateFocusedRows, TypeOK, sendVars, memberVars, clientVars
  <1>2. CASE CheckThreadsFocused(n)
    <2>1. reqs' \in [Requests -> Request]
      BY <1>0, <1>2 DEF CheckThreadsFocused, TypeOK, Request
    <2> QED
      BY <1>2, <2>1
      DEF CheckThreadsFocused, TypeOK, sendVars, memberVars, clientVars
  <1>3. CASE CheckForNewerMessages(n)
    <2> DEFINE newer == \E m \in 1..made : /\ m > reqs[n].latest
                                           /\ ~sends[m].mine
                                           /\ "row" \notin sends[m].todo
    <2>1. reqs' = [reqs EXCEPT ![n].todo = @ \ {"newer"}, ![n].newer = newer]
      BY <1>3 DEF CheckForNewerMessages
    <2>2. newer \in BOOLEAN
      OBVIOUS
    <2> HIDE DEF newer
    <2>3. reqs' \in [Requests -> Request]
      BY <1>0, <2>1, <2>2 DEF TypeOK, Request
    <2> QED
      BY <1>3, <2>3
      DEF CheckForNewerMessages, TypeOK, sendVars, memberVars, clientVars
  <1>4. CASE FetchLastMessageInfo(n)
    <2>1. reqs' \in [Requests -> Request]
      BY <1>0, <1>4 DEF FetchLastMessageInfo, TypeOK, Request
    <2> QED
      BY <1>4, <2>1
      DEF FetchLastMessageInfo, TypeOK, sendVars, memberVars, clientVars
  <1>5. CASE Decide(n)
    <2> DEFINE v == NewLastRead(reqs[n])
               t == IF Writes(reqs[n]) THEN {"write"} ELSE {}
    <2>1. reqs' = [reqs EXCEPT ![n].value = v, ![n].last = 0, ![n].cur = 0,
                               ![n].todo = t]
      BY <1>5 DEF Decide
    <2>2. v \in Latest
      BY <1>0, NewLastReadType
    <2>3. t \in SUBSET {"write"} /\ 0 \in Latest
      BY BoundsAssumption DEF Latest
    <2> HIDE DEF v, t
    <2>4. reqs' \in [Requests -> Request]
      BY <1>0, <2>1, <2>2, <2>3 DEF TypeOK, Request
    <2> QED
      BY <1>5, <2>4 DEF Decide, TypeOK, sendVars, memberVars, clientVars
  <1>6. CASE UpdateLastRead(n)
    <2>1. reqs' \in [Requests -> Request]
      <3>1. [reqs[n] EXCEPT !.todo = {}, !.value = 0] \in Request
        BY <1>0, FinishedType
      <3> QED
        BY <1>0, <1>6, <3>1 DEF UpdateLastRead, TypeOK
    <2>2. lastRead' \in Latest
      BY <1>0, <1>6, BoundsAssumption
      DEF UpdateLastRead, TypeOK, Request, Larger, Latest
    <2> QED
      BY <1>6, <2>1, <2>2 DEF UpdateLastRead, TypeOK, sendVars, clientVars
  <1> QED
    BY <1>1, <1>2, <1>3, <1>4, <1>5, <1>6

\* Every step keeps the types.
LEMMA TypeStep == TypeOK /\ [Next]_vars => TypeOK'
  <1> SUFFICES ASSUME TypeOK, [Next]_vars PROVE TypeOK'
    OBVIOUS
  <1>1. CASE UNCHANGED vars
    BY <1>1
    DEF TypeOK, vars, sendVars, memberVars, clientVars, reqVars
  <1> QED
    BY <1>1, TypeSend, TypeClient, TypeRequest DEF Next

\* The model of activity and read status is type correct, whatever the
\* sessions and however many messages and requests there are.
THEOREM ActivityTypeCorrect == Spec => []TypeOK
  BY TypeInit, TypeStep, PTL DEF Spec

-----------------------------------------------------------------------------
(* The strengthening.  CaughtUp: a message that last_message has not       *)
(* reached still has its update to come.  Cause: what has been reported is *)
(* read, or its handler still has something to do about it, and the same   *)
(* holds of the member's own messages.                                     *)

Pending(m) == "look" \in sends[m].todo \/ "latest" \in sends[m].todo

CaughtUp ==
  /\ last <= made
  /\ \A m \in 1..made : m <= last \/ Pending(m)

OwnRead ==
  \A m \in 1..made :
    sends[m].mine => /\ "look" \in sends[m].todo \/ sends[m].read
                     /\ Pending(m) \/ m <= lastRead

Activity(r) == r.kind \in {"focus", "unfocus"}
Reports(r)  == Activity(r) \/ (r.kind = "read" /\ ~r.newer)

\* what holds of the handler of r while lastRead is at least v
Handled(r, v) ==
  /\ r.todo = {} /\ Reports(r) => r.latest <= v
  /\ "write" \in r.todo /\ Reports(r) => r.latest <= r.value
  /\ Activity(r) /\ "decide" \in r.todo /\ "fetch" \notin r.todo /\ "rows" \notin r.todo
       => r.cur <= v
  /\ r.todo \cap {"check", "newer", "fetch"} # {} => "decide" \in r.todo
  /\ "decide" \in r.todo => "write" \notin r.todo

Cause == Marked \/ (OwnRead /\ \A n \in 1..asked : Handled(reqs[n], lastRead))

-----------------------------------------------------------------------------
(* last_message.                                                           *)

\* Nothing has been sent at the start.
LEMMA CaughtUpInit == Init => CaughtUp
  BY DEF Init, CaughtUp

\* A step of createMessages keeps CaughtUp, for a member with a device.
LEMMA CaughtUpSend ==
  ASSUME HasDevice, TypeOK, CaughtUp,
         SendStep \/ \E mine \in BOOLEAN : CreateMessages(mine)
  PROVE  CaughtUp'
  <1>0. made \in Nat /\ last \in Nat /\ 1..made \subseteq Ids
    BY BoundsAssumption DEF TypeOK, Latest, Ids
  <1>1. ASSUME NEW mine \in BOOLEAN, CreateMessages(mine) PROVE CaughtUp'
    <2>1. made + 1 \in Ids /\ 1..made' = (1..made) \cup {made + 1}
      BY <1>0, <1>1, BoundsAssumption DEF CreateMessages, Ids
    <2>2. \A m \in 1..made : sends'[m] = sends[m]
      BY <1>0, <1>1 DEF CreateMessages, TypeOK
    <2>3. "look" \in sends'[made + 1].todo
      BY <1>1, <2>1 DEF CreateMessages, TypeOK
    <2> QED
      BY <1>0, <1>1, <2>1, <2>2, <2>3
      DEF CreateMessages, CaughtUp, Pending, memberVars
  <1>2. ASSUME NEW m \in 1..made, InsertRow(m) PROVE CaughtUp'
    <2>1. \A i \in 1..made : Pending(i) => Pending(i)'
      BY <1>0, <1>2 DEF InsertRow, TypeOK, Send, Pending
    <2> QED
      BY <1>2, <2>1 DEF InsertRow, CaughtUp, memberVars
  <1>3. ASSUME NEW m \in 1..made, Look(m) PROVE CaughtUp'
    <2>1. \A i \in 1..made : Pending(i) => Pending(i)'
      BY <1>0, <1>3 DEF Look, TypeOK, Send, Pending
    <2> QED
      BY <1>3, <2>1 DEF Look, CaughtUp, memberVars
  <1>4. ASSUME NEW m \in 1..made, UpdateLatest(m) PROVE CaughtUp'
    <2>1. \A i \in 1..made : i # m /\ Pending(i) => Pending(i)'
      BY <1>0, <1>4 DEF UpdateLatest, TypeOK, Send, Pending
    <2>2. made' = made /\ last' = Larger(last, m)
      BY <1>4 DEF UpdateLatest
    <2> QED
      BY <1>0, <2>1, <2>2 DEF CaughtUp, Larger
  <1> QED
    BY <1>1, <1>2, <1>3, <1>4 DEF SendStep

\* A step of a session or of a handler changes nothing CaughtUp is about.
LEMMA OthersSendNothing ==
  ASSUME (\E s \in Sessions : ClientStep(s)) \/ RequestStep \/ UNCHANGED vars
  PROVE  UNCHANGED <<sends, made, last>>
  <1>1. ASSUME NEW s \in Sessions, ClientStep(s)
        PROVE  UNCHANGED <<sends, made, last>>
    BY <1>1
    DEF ClientStep, ChangeFocus, MarkRead, MarkUnread, Ask, LoseFocusedRow,
        sendVars, memberVars
  <1>2. ASSUME RequestStep PROVE UNCHANGED <<sends, made, last>>
    BY <1>2
    DEF RequestStep, UpdateFocusedRows, CheckThreadsFocused,
        CheckForNewerMessages, FetchLastMessageInfo, Decide, UpdateLastRead,
        sendVars, memberVars
  <1> QED
    BY <1>1, <1>2 DEF vars, sendVars, memberVars

\* Every step keeps CaughtUp, for a member with a device.
LEMMA CaughtUpStep ==
  ASSUME HasDevice, TypeOK, CaughtUp, [Next]_vars
  PROVE  CaughtUp'
  <1>1. CASE SendStep \/ \E mine \in BOOLEAN : CreateMessages(mine)
    BY <1>1, CaughtUpSend
  <1>2. CASE (\E s \in Sessions : ClientStep(s)) \/ RequestStep \/ UNCHANGED vars
    BY <1>2, OthersSendNothing DEF CaughtUp, Pending
  <1> QED
    BY <1>1, <1>2 DEF Next

\* For a member with a device token, last_message is the newest message once
\* all createMessages calls are done, in whatever order they ran.
THEOREM LastCatchesUp ==
  ASSUME HasDevice
  PROVE  Spec => []NewestIsLast
  <1>1. Init => TypeOK /\ CaughtUp
    BY TypeInit, CaughtUpInit
  <1>2. TypeOK /\ CaughtUp /\ [Next]_vars => (TypeOK /\ CaughtUp)'
    BY TypeStep, CaughtUpStep
  <1>3. TypeOK /\ CaughtUp => NewestIsLast
    BY BoundsAssumption DEF TypeOK, Latest, CaughtUp, Pending, NewestIsLast, Sent
  <1> QED
    BY <1>1, <1>2, <1>3, PTL DEF Spec

-----------------------------------------------------------------------------
(* last_read_message.                                                      *)

\* A handled request stays handled while last_read_message grows.
LEMMA HandledMono ==
  ASSUME NEW r \in Request, NEW v \in Latest, NEW w \in Latest,
         Handled(r, v), v <= w
  PROVE  Handled(r, w)
  BY BoundsAssumption DEF Handled, Request, Latest

\* While nothing was marked as unread, last_read_message never falls, and no
\* step makes Marked false again.
LEMMA LastReadGrows ==
  ASSUME TypeOK, [Next]_vars, ~Marked'
  PROVE  ~Marked /\ lastRead <= lastRead'
  <1>0. made \in Nat /\ lastRead \in Nat /\ asked \in Nat
    BY BoundsAssumption DEF TypeOK, Latest
  <1>1. \A n \in 1..asked : n \in Requests /\ reqs[n] \in Request
    BY BoundsAssumption DEF TypeOK, Requests
  <1>2. CASE UNCHANGED vars
    BY <1>0, <1>2
    DEF vars, memberVars, reqVars, Marked
  <1>3. CASE \E mine \in BOOLEAN : CreateMessages(mine)
    BY <1>0, <1>3 DEF CreateMessages, memberVars, reqVars, Marked
  <1>4. CASE SendStep
    BY <1>0, <1>4
    DEF SendStep, InsertRow, Look, UpdateLatest, memberVars, reqVars, Marked,
        Larger
  <1>5. ASSUME NEW s \in Sessions, ClientStep(s)
        PROVE  ~Marked /\ lastRead <= lastRead'
    <2>1. CASE LoseFocusedRow(s)
      BY <1>0, <2>1 DEF LoseFocusedRow, memberVars, reqVars, Marked
    <2>2. CASE ~LoseFocusedRow(s)
      <3>1. lastRead' = lastRead /\ asked' = asked + 1
        BY <1>5, <2>2
        DEF ClientStep, ChangeFocus, MarkRead, MarkUnread, Ask, memberVars
      <3>2. PICK k, kind, todo : Ask(s, k, kind, todo)
        BY <1>5, <2>2 DEF ClientStep, ChangeFocus, MarkRead, MarkUnread
      <3>3. PICK r : reqs' = [reqs EXCEPT ![asked + 1] = r]
        BY <3>2 DEF Ask
      <3>4. \A n \in 1..asked : reqs'[n] = reqs[n]
        BY <1>0, <1>1, <3>3 DEF TypeOK
      <3> QED
        BY <1>0, <3>1, <3>4 DEF Marked
    <2> QED
      BY <2>1, <2>2
  <1>6. CASE RequestStep
    <2>1. PICK n \in 1..asked :
            \/ UpdateFocusedRows(n) \/ CheckThreadsFocused(n)
            \/ CheckForNewerMessages(n) \/ FetchLastMessageInfo(n)
            \/ Decide(n) \/ UpdateLastRead(n)
      BY <1>6 DEF RequestStep
    <2>2. asked' = asked
      BY <2>1
      DEF UpdateFocusedRows, CheckThreadsFocused, CheckForNewerMessages,
          FetchLastMessageInfo, Decide, UpdateLastRead
    <2>3. \A i \in 1..asked : reqs'[i].kind = reqs[i].kind
      <3>1. CASE UpdateFocusedRows(n)
        BY <1>1, <3>1 DEF UpdateFocusedRows, TypeOK, Request
      <3>2. CASE CheckThreadsFocused(n)
        BY <1>1, <3>2 DEF CheckThreadsFocused, TypeOK, Request
      <3>3. CASE CheckForNewerMessages(n)
        BY <1>1, <3>3 DEF CheckForNewerMessages, TypeOK, Request
      <3>4. CASE FetchLastMessageInfo(n)
        BY <1>1, <3>4 DEF FetchLastMessageInfo, TypeOK, Request
      <3>5. CASE Decide(n)
        BY <1>1, <3>5 DEF Decide, TypeOK, Request
      <3>6. CASE UpdateLastRead(n)
        BY <1>1, <3>6 DEF UpdateLastRead, TypeOK, Request
      <3> QED
        BY <2>1, <3>1, <3>2, <3>3, <3>4, <3>5, <3>6
    <2>4. ~Marked
      BY <2>2, <2>3 DEF Marked
    <2>5. CASE UpdateLastRead(n)
      <3>1. reqs[n].kind # "unread" /\ reqs[n].value \in Nat
        BY <1>1, <2>4, BoundsAssumption DEF Marked, Request, Latest
      <3>2. lastRead' = Larger(lastRead, reqs[n].value)
        BY <2>5, <3>1 DEF UpdateLastRead
      <3> QED
        BY <1>0, <2>4, <3>1, <3>2 DEF Larger
    <2>6. CASE ~UpdateLastRead(n)
      <3>1. lastRead' = lastRead
        BY <2>1, <2>6
        DEF UpdateFocusedRows, CheckThreadsFocused, CheckForNewerMessages,
            FetchLastMessageInfo, Decide, memberVars
      <3> QED
        BY <1>0, <2>4, <3>1
    <2> QED
      BY <2>5, <2>6
  <1> QED
    BY <1>2, <1>3, <1>4, <1>5, <1>6 DEF Next

\* The member's own messages are read, or their update is to come.
LEMMA OwnReadSend ==
  ASSUME HasDevice, TypeOK, OwnRead, lastRead <= lastRead',
         SendStep \/ \E mine \in BOOLEAN : CreateMessages(mine)
  PROVE  OwnRead'
  <1>0. made \in Nat /\ lastRead \in Nat /\ 1..made \subseteq Ids
    BY BoundsAssumption DEF TypeOK, Latest, Ids
  <1>1. ASSUME NEW mine \in BOOLEAN, CreateMessages(mine) PROVE OwnRead'
    <2>1. made + 1 \in Ids /\ 1..made' = (1..made) \cup {made + 1}
      BY <1>0, <1>1, BoundsAssumption DEF CreateMessages, Ids
    <2>2. \A m \in 1..made : sends'[m] = sends[m]
      BY <1>0, <1>1 DEF CreateMessages, TypeOK
    <2>3. "look" \in sends'[made + 1].todo
      BY <1>1, <2>1 DEF CreateMessages, TypeOK
    <2>4. lastRead' = lastRead
      BY <1>1 DEF CreateMessages, memberVars
    <2> QED
      BY <2>1, <2>2, <2>3, <2>4 DEF OwnRead, Pending
  <1>2. ASSUME NEW m \in 1..made, InsertRow(m) PROVE OwnRead'
    <2>1. \A i \in 1..made : /\ sends'[i].mine = sends[i].mine
                             /\ sends'[i].read = sends[i].read
                             /\ \A x \in {"look", "latest"} :
                                  x \in sends'[i].todo <=> x \in sends[i].todo
      BY <1>0, <1>2 DEF InsertRow, TypeOK, Send
    <2>2. made' = made /\ lastRead' = lastRead
      BY <1>2 DEF InsertRow, memberVars
    <2> QED
      BY <2>1, <2>2 DEF OwnRead, Pending
  <1>3. ASSUME NEW m \in 1..made, Look(m) PROVE OwnRead'
    <2>1. \A i \in 1..made : i # m => sends'[i] = sends[i]
      BY <1>0, <1>3 DEF Look, TypeOK
    <2>2. /\ sends'[m].mine = sends[m].mine
          /\ sends[m].mine => sends'[m].read
          /\ "latest" \in sends'[m].todo
      BY <1>0, <1>3 DEF Look, TypeOK, Send
    <2>3. made' = made /\ lastRead' = lastRead
      BY <1>3 DEF Look, memberVars
    <2> QED
      BY <2>1, <2>2, <2>3 DEF OwnRead, Pending
  <1>4. ASSUME NEW m \in 1..made, UpdateLatest(m) PROVE OwnRead'
    <2>1. \A i \in 1..made : i # m => sends'[i] = sends[i]
      BY <1>0, <1>4 DEF UpdateLatest, TypeOK
    <2>2. /\ sends'[m].mine = sends[m].mine
          /\ sends'[m].read = sends[m].read
          /\ "look" \in sends'[m].todo <=> "look" \in sends[m].todo
      BY <1>0, <1>4 DEF UpdateLatest, TypeOK, Send
    <2>3. /\ made' = made
          /\ sends[m].read => m <= lastRead'
      BY <1>0, <1>4 DEF UpdateLatest, Larger
    <2>4. "look" \in sends[m].todo => Pending(m)'
      BY <2>2 DEF Pending
    <2>5. lastRead' \in Nat
      BY <1>0, <1>4 DEF UpdateLatest, Larger
    <2>6. ASSUME NEW i \in 1..made, sends'[i].mine
          PROVE  /\ "look" \in sends'[i].todo \/ sends'[i].read
                 /\ Pending(i)' \/ i <= lastRead'
      <3>1. CASE i = m
        BY <2>2, <2>3, <2>4, <2>6, <3>1 DEF OwnRead
      <3>2. CASE i # m
        BY <1>0, <2>1, <2>5, <2>6, <3>2 DEF OwnRead, Pending
      <3> QED
        BY <3>1, <3>2
    <2> QED
      BY <2>3, <2>6 DEF OwnRead
  <1> QED
    BY <1>1, <1>2, <1>3, <1>4 DEF SendStep

\* A step of request n's own handler keeps its bookkeeping.
LEMMA HandledStep ==
  ASSUME TypeOK, NEW n \in 1..asked, Handled(reqs[n], lastRead),
         reqs[n].kind # "unread", lastRead <= lastRead',
         \/ UpdateFocusedRows(n) \/ CheckThreadsFocused(n)
         \/ CheckForNewerMessages(n) \/ FetchLastMessageInfo(n)
         \/ Decide(n) \/ UpdateLastRead(n)
  PROVE  Handled(reqs'[n], lastRead')
  <1> DEFINE r == reqs[n]
             q == reqs'[n]
  <1>0. n \in Requests /\ r \in Request /\ lastRead \in Nat
    BY BoundsAssumption DEF TypeOK, Requests, Latest
  <1>t. r.latest \in Nat /\ r.last \in Nat /\ r.cur \in Nat /\ r.value \in Nat
    BY <1>0, BoundsAssumption DEF Request, Latest
  <1>1. CASE UpdateFocusedRows(n)
    <2>1. /\ "decide" \in q.todo
          /\ "fetch" \in q.todo
          /\ "write" \notin q.todo
      BY <1>0, <1>1 DEF UpdateFocusedRows, TypeOK, Request
    <2> QED
      BY <2>1 DEF Handled
  <1>2. CASE CheckThreadsFocused(n)
    <2>1. /\ q.kind = r.kind /\ q.latest = r.latest /\ q.cur = r.cur
          /\ q.value = r.value /\ q.newer = r.newer
          /\ \A x \in {"decide", "fetch", "rows", "write"} :
               x \in q.todo <=> x \in r.todo
      BY <1>0, <1>2 DEF CheckThreadsFocused, TypeOK, Request
    <2>2. "decide" \in r.todo
      BY <1>2 DEF CheckThreadsFocused, Handled
    <2>3. lastRead' = lastRead
      BY <1>2 DEF CheckThreadsFocused, memberVars
    <2> QED
      BY <2>1, <2>2, <2>3 DEF Handled, Reports, Activity
  <1>3. CASE CheckForNewerMessages(n)
    <2>1. /\ q.kind = r.kind /\ q.latest = r.latest /\ q.cur = r.cur
          /\ q.value = r.value
          /\ q.todo = r.todo \ {"newer"}
      BY <1>0, <1>3 DEF CheckForNewerMessages, TypeOK, Request
    <2>2. "decide" \in r.todo
      BY <1>3 DEF CheckForNewerMessages, Handled
    <2>3. lastRead' = lastRead
      BY <1>3 DEF CheckForNewerMessages, memberVars
    <2> QED
      BY <2>1, <2>2, <2>3 DEF Handled, Reports, Activity
  <1>4. CASE FetchLastMessageInfo(n)
    <2>1. /\ q.kind = r.kind /\ q.latest = r.latest /\ q.cur = lastRead
          /\ q.value = r.value /\ q.newer = r.newer
          /\ q.todo = r.todo \ {"fetch"}
      BY <1>0, <1>4 DEF FetchLastMessageInfo, TypeOK, Request
    <2>2. "decide" \in r.todo
      BY <1>4 DEF FetchLastMessageInfo, Handled
    <2>3. lastRead' = lastRead
      BY <1>4 DEF FetchLastMessageInfo, memberVars
    <2> QED
      BY <1>0, <2>1, <2>2, <2>3 DEF Handled, Reports, Activity
  <1>5. CASE Decide(n)
    <2>1. /\ q.kind = r.kind /\ q.latest = r.latest /\ q.newer = r.newer
          /\ q.value = NewLastRead(r)
          /\ q.todo = IF Writes(r) THEN {"write"} ELSE {}
      BY <1>0, <1>5 DEF Decide, TypeOK, Request
    <2>2. r.todo = {"decide"} /\ lastRead' = lastRead
      BY <1>5 DEF Decide, memberVars
    <2>3. NewLastRead(r) \in Nat /\ r.latest <= NewLastRead(r)
      BY <1>0, <1>t DEF NewLastRead, Larger, Request
    <2>4. Activity(r) => r.cur <= lastRead
      BY <2>2 DEF Handled
    <2>5. ~Writes(r) /\ Reports(r) => r.latest <= lastRead
      BY <1>0, <1>t, <2>3, <2>4 DEF Writes, Reports, Activity
    <2> QED
      BY <2>1, <2>2, <2>3, <2>5 DEF Handled, Reports, Activity
  <1>6. CASE UpdateLastRead(n)
    <2>1. /\ q.kind = r.kind /\ q.latest = r.latest /\ q.newer = r.newer
          /\ q.todo = {}
      BY <1>0, <1>6 DEF UpdateLastRead, TypeOK, Request
    <2>2. lastRead' = Larger(lastRead, r.value)
      BY <1>6 DEF UpdateLastRead
    <2>3. Reports(r) => r.latest <= r.value
      BY <1>6 DEF UpdateLastRead, Handled
    <2> QED
      BY <1>0, <1>t, <2>1, <2>2, <2>3 DEF Handled, Reports, Activity, Larger
  <1> QED
    BY <1>1, <1>2, <1>3, <1>4, <1>5, <1>6

\* A new request has everything left to do.
LEMMA CauseClient ==
  ASSUME TypeOK, Cause, ~Marked, NEW s \in Sessions, ClientStep(s)
  PROVE  Cause'
  <1>0. made \in Nat /\ asked \in Nat
    BY BoundsAssumption DEF TypeOK, Latest
  <1>1. /\ sends' = sends /\ made' = made /\ lastRead' = lastRead
        /\ OwnRead
        /\ \A n \in 1..asked : Handled(reqs[n], lastRead)
    BY DEF Cause, ClientStep, ChangeFocus, MarkRead, MarkUnread, Ask,
           LoseFocusedRow, sendVars, memberVars
  <1>2. OwnRead'
    BY <1>1 DEF OwnRead, Pending
  <1>3. CASE LoseFocusedRow(s)
    BY <1>1, <1>2, <1>3 DEF LoseFocusedRow, reqVars, Cause
  <1>4. CASE ~LoseFocusedRow(s)
    <2>1. PICK k \in Latest, kind \in {"focus", "unfocus", "read", "unread"},
               todo \in {{"rows"}, {"check", "decide"}, {"decide"}} :
            /\ Ask(s, k, kind, todo)
            /\ Activity([kind |-> kind]) => todo = {"rows"}
      BY <1>4 DEF ClientStep, ChangeFocus, MarkRead, MarkUnread, Activity
    <2> DEFINE r == [NoRequest EXCEPT !.session = s, !.kind = kind,
                                      !.latest = k, !.todo = todo]
    <2>2. r.kind = kind /\ r.todo = todo
      BY DEF NoRequest
    <2>3. reqs' = [reqs EXCEPT ![asked + 1] = r] /\ asked' = asked + 1
          /\ asked + 1 \in Requests
      BY <1>0, <2>1, BoundsAssumption DEF Ask, Requests, TypeOK
    <2> HIDE DEF r
    <2>4. Handled(r, lastRead)
      BY <2>1, <2>2 DEF Handled, Activity
    <2>5. \A n \in 1..asked : reqs'[n] = reqs[n]
      BY <1>0, <2>3 DEF TypeOK, Requests
    <2>6. reqs'[asked + 1] = r
      BY <2>3 DEF TypeOK
    <2>7. 1..asked' = (1..asked) \cup {asked + 1}
      BY <1>0, <2>3
    <2> QED
      BY <1>1, <1>2, <2>4, <2>5, <2>6, <2>7 DEF Cause
  <1> QED
    BY <1>3, <1>4

\* A step of a handler leaves all requests handled.
LEMMA CauseRequest ==
  ASSUME TypeOK, TypeOK', Cause, ~Marked, lastRead <= lastRead', RequestStep
  PROVE  Cause'
  <1>0. /\ made \in Nat /\ lastRead \in Latest /\ lastRead' \in Latest
        /\ \A i \in 1..asked : i \in Requests /\ reqs[i] \in Request
    BY BoundsAssumption DEF TypeOK, Latest, Requests
  <1>1. PICK n \in 1..asked :
          \/ UpdateFocusedRows(n) \/ CheckThreadsFocused(n)
          \/ CheckForNewerMessages(n) \/ FetchLastMessageInfo(n)
          \/ Decide(n) \/ UpdateLastRead(n)
    BY DEF RequestStep
  <1>2. sends' = sends /\ made' = made /\ asked' = asked
    BY <1>1
    DEF UpdateFocusedRows, CheckThreadsFocused, CheckForNewerMessages,
        FetchLastMessageInfo, Decide, UpdateLastRead, sendVars
  <1>3. OwnRead'
    <2>1. \A m \in 1..made : m <= lastRead => m <= lastRead'
      BY <1>0, BoundsAssumption DEF Latest
    <2> QED
      BY <1>2, <2>1 DEF OwnRead, Pending, Cause
  <1>4. reqs[n].kind # "unread"
    BY DEF Marked
  <1>5. Handled(reqs'[n], lastRead')
    BY <1>1, <1>4, HandledStep DEF Cause
  <1>6. \A i \in 1..asked : i # n => reqs'[i] = reqs[i]
    <2>1. PICK r : reqs' = [reqs EXCEPT ![n] = r]
      BY <1>1
      DEF UpdateFocusedRows, CheckThreadsFocused, CheckForNewerMessages,
          FetchLastMessageInfo, Decide, UpdateLastRead
    <2> QED
      BY <1>0, <2>1 DEF TypeOK
  <1>7. ASSUME NEW i \in 1..asked, i # n PROVE Handled(reqs'[i], lastRead')
    <2>1. Handled(reqs[i], lastRead')
      BY <1>0, <1>7, HandledMono DEF Cause
    <2> QED
      BY <1>6, <1>7, <2>1
  <1> QED
    BY <1>2, <1>3, <1>5, <1>7 DEF Cause

\* Every step keeps Cause, for a member with a device.
LEMMA CauseStep ==
  ASSUME HasDevice, TypeOK, TypeOK', Cause, [Next]_vars
  PROVE  Cause'
  <1> SUFFICES ASSUME ~Marked' PROVE Cause'
    BY DEF Cause
  <1>1. ~Marked /\ lastRead <= lastRead'
    BY LastReadGrows
  <1>2. lastRead \in Latest /\ lastRead' \in Latest
        /\ \A n \in 1..asked : reqs[n] \in Request
    BY BoundsAssumption DEF TypeOK, Requests
  <1>3. CASE SendStep \/ \E mine \in BOOLEAN : CreateMessages(mine)
    <2>1. reqs' = reqs /\ asked' = asked
      BY <1>3
      DEF SendStep, InsertRow, Look, UpdateLatest, CreateMessages, reqVars
    <2>2. OwnRead'
      BY <1>1, <1>3, OwnReadSend DEF Cause
    <2>3. \A n \in 1..asked : Handled(reqs[n], lastRead')
      BY <1>1, <1>2, HandledMono DEF Cause
    <2> QED
      BY <2>1, <2>2, <2>3 DEF Cause
  <1>4. CASE UNCHANGED vars
    BY <1>1, <1>4
    DEF vars, sendVars, memberVars, reqVars, Cause, OwnRead, Pending
  <1> QED
    BY <1>1, <1>3, <1>4, CauseClient, CauseRequest DEF Next

\* However the calls of createMessages, the activity updates and the changes
\* of the read status of a member with a device token interleave, a thread is
\* left unread only if its newest message is another member's and newer than
\* everything reported as shown, or if the user marked it as unread.
THEOREM NoUnreadWithoutCause ==
  ASSUME HasDevice
  PROVE  Spec => []UnreadHasCause
  <1> DEFINE IInv == TypeOK /\ CaughtUp /\ Cause
  <1>1. Init => IInv
    BY TypeInit, CaughtUpInit
    DEF Init, Cause, OwnRead
  <1>2. IInv /\ [Next]_vars => IInv'
    BY TypeStep, CaughtUpStep, CauseStep
  <1>3. IInv => UnreadHasCause
    <2> SUFFICES ASSUME IInv, Quiet, lastRead < last, ~Marked
                 PROVE  ~sends[last].mine /\ \A k \in Reported : k < last
      BY DEF UnreadHasCause
    <2>0. lastRead \in Nat /\ last \in Nat /\ made \in Nat /\ last \in 1..made
      BY BoundsAssumption DEF TypeOK, CaughtUp, Latest
    <2>1. ~sends[last].mine
      BY <2>0 DEF Quiet, Sent, Cause, OwnRead, Pending
    <2>2. ASSUME NEW k \in Reported PROVE k < last
      <3>1. PICK n \in 1..asked : k = reqs[n].latest /\ Reports(reqs[n])
        BY DEF Reported, Reports, Activity
      <3>2. reqs[n].latest <= lastRead
        BY <3>1 DEF Quiet, Cause, Handled
      <3>3. reqs[n].latest \in Nat
        BY BoundsAssumption DEF TypeOK, Requests, Request, Latest
      <3> QED
        BY <2>0, <3>1, <3>2, <3>3
    <2> QED
      BY <2>1, <2>2
  <1> QED
    BY <1>1, <1>2, <1>3, PTL DEF Spec
=============================================================================
