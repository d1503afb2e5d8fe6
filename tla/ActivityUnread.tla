--------------------------- MODULE ActivityUnread ---------------------------
(***************************************************************************)
(* Whether a thread is unread for one of its members.                      *)
(*                                                                         *)
(* A membership row holds last_message and last_read_message, both ids of  *)
(* messages; the thread is unread while last_read_message < last_message.  *)
(* createMessages raises them after it has looked whether any session of   *)
(* the member has the thread focused; activityUpdater, called when a       *)
(* session opens or leaves the thread, maintains the focused table and     *)
(* marks as read what the session has shown; setThreadUnreadStatus does    *)
(* what the user says.  Each is a chain of queries, and the chains         *)
(* interleave.                                                             *)
(*                                                                         *)
(* The UPDATE_THREAD_READ_STATUS updates these handlers create for the     *)
(* member's other sessions are calls of createUpdates (UpdateSync).        *)
(***************************************************************************)
EXTENDS Integers, FiniteSetsExt

CONSTANTS
  Sessions,      \* sessions of the member
  HasDevice,     \* has the member a cookie with a device token?
  MaxMessages,   \* bound: messages in the thread
  MaxRequests    \* bound: activity updates and changes of the read status

ASSUME SessionsAssumption == Sessions # {}
ASSUME DeviceAssumption   == HasDevice \in BOOLEAN
ASSUME BoundsAssumption   == MaxMessages \in Nat /\ MaxRequests \in Nat

VARIABLES
  sends,      \* createMessages per message: its author, what it has left
  made,       \* how many messages have an id
  last,       \* memberships.last_message
  lastRead,   \* memberships.last_read_message
  focused,    \* the focused table: time of the session's row, 0 for no row
  active,     \* is the thread open in the session?
  known,      \* newest message in the session's store, when it last asked
  reqs,       \* handlers of requests, and what each has left
  asked       \* how many requests there have been

sendVars   == <<sends, made>>
memberVars == <<last, lastRead>>
clientVars == <<active, known>>
reqVars    == <<reqs, asked>>
vars       == <<sendVars, memberVars, focused, clientVars, reqVars>>

-----------------------------------------------------------------------------
Ids      == 1..MaxMessages       \* createIDs: ascending
Latest   == 0..MaxMessages       \* 0: none
Requests == 1..MaxRequests

Send == [mine : BOOLEAN, todo : SUBSET {"row", "look", "latest"},
         read : BOOLEAN]

\* latest: newest message of the client; value: what to mark as read
Request ==
  [session : Sessions, kind : {"focus", "unfocus", "read", "unread"},
   latest : Latest, newer : BOOLEAN, last : Latest, cur : Latest,
   value : Latest,
   todo : SUBSET {"rows", "check", "newer", "fetch", "decide", "write"}]

Larger(a, b) == IF a >= b THEN a ELSE b

SomeoneFocused == \E s \in Sessions : focused[s] # 0

NoRequest == [session |-> CHOOSE s \in Sessions : TRUE, kind |-> "focus",
              latest |-> 0, newer |-> FALSE, last |-> 0, cur |-> 0,
              value |-> 0, todo |-> {}]

Init ==
  /\ sends = [m \in Ids |-> [mine |-> FALSE, todo |-> {}, read |-> FALSE]]
  /\ made = 0
  /\ last = 0
  /\ lastRead = 0
  /\ focused = [s \in Sessions |-> 0]
  /\ active = [s \in Sessions |-> FALSE]
  /\ known = [s \in Sessions |-> 0]
  /\ reqs = [n \in Requests |-> NoRequest]
  /\ asked = 0

-----------------------------------------------------------------------------
(* createMessages.  The insert is issued while postMessageSend, which      *)
(* nobody awaits, looks for members and focus and then updates them.       *)

CreateMessages(mine) ==
  /\ made < MaxMessages
  /\ made' = made + 1
  /\ sends' = [sends EXCEPT ![made + 1] =
                 [mine |-> mine, todo |-> {"row", "look"}, read |-> FALSE]]
  /\ UNCHANGED <<memberVars, focused, clientVars, reqVars>>

InsertRow(m) ==
  /\ "row" \in sends[m].todo
  /\ sends' = [sends EXCEPT ![m].todo = @ \ {"row"}]
  /\ UNCHANGED <<made, memberVars, focused, clientVars, reqVars>>

\* the query of postMessageSend, and what it decides for this member: a
\* member without a device is skipped altogether
Look(m) ==
  /\ "look" \in sends[m].todo
  /\ LET later == IF HasDevice THEN {"latest"} ELSE {}
     IN sends' = [sends EXCEPT ![m] =
                    [mine |-> @.mine, read |-> @.mine \/ SomeoneFocused,
                     todo |-> (@.todo \ {"look"}) \cup later]]
  /\ UNCHANGED <<made, memberVars, focused, clientVars, reqVars>>

\* mutant: no GREATEST
UpdateLatest_Plain(m) ==
  /\ "latest" \in sends[m].todo
  /\ sends' = [sends EXCEPT ![m].todo = @ \ {"latest"}]
  /\ last' = m
  /\ lastRead' = IF sends[m].read THEN Larger(lastRead, m) ELSE lastRead
  /\ UNCHANGED <<made, focused, clientVars, reqVars>>

\* updateLatestMessages
UpdateLatest(m) ==
  /\ "latest" \in sends[m].todo
  /\ sends' = [sends EXCEPT ![m].todo = @ \ {"latest"}]
  /\ last' = Larger(last, m)
  /\ lastRead' = IF sends[m].read THEN Larger(lastRead, m) ELSE lastRead
  /\ UNCHANGED <<made, focused, clientVars, reqVars>>

-----------------------------------------------------------------------------
(* The client.                                                             *)

\* NEW_MESSAGES, the reply to the author or a fetch of the thread can bring m
Available(m) ==
  /\ m <= made
  /\ "row" \notin sends[m].todo \/ ("look" \notin sends[m].todo /\ HasDevice)

\* a request of the session, whose store has received messages up to k
Ask(s, k, kind, todo) ==
  /\ asked < MaxRequests
  /\ k = known[s] \/ (k > known[s] /\ Available(k))
  /\ known' = [known EXCEPT ![s] = k]
  /\ asked' = asked + 1
  /\ reqs' = [reqs EXCEPT ![asked + 1] =
                [NoRequest EXCEPT !.session = s, !.kind = kind,
                                  !.latest = k, !.todo = todo]]
  /\ UNCHANGED <<sendVars, memberVars, focused>>

\* ActivityHandler: the active thread of the session has changed
ChangeFocus(s, k) ==
  /\ active' = [active EXCEPT ![s] = ~@]
  /\ Ask(s, k, IF active[s] THEN "unfocus" ELSE "focus", {"rows"})

\* toggleUnreadStatus
MarkRead(s, k) ==
  /\ Ask(s, k, "read", {"check", "decide"})
  /\ UNCHANGED active

MarkUnread(s, k) ==
  /\ Ask(s, k, "unread", {"decide"})
  /\ UNCHANGED active

-----------------------------------------------------------------------------
(* The handlers of request n: activityUpdater for focus and unfocus,       *)
(* setThreadUnreadStatus for the user's own choice.                        *)

\* updateFocusedRows: n stands for Date.now() when it is called
UpdateFocusedRows(n) ==
  /\ "rows" \in reqs[n].todo
  /\ LET s == reqs[n].session
         focus == reqs[n].kind = "focus"
     IN /\ focused' = [focused EXCEPT ![s] =
                         IF focus THEN n ELSE IF @ < n THEN 0 ELSE @]
        /\ reqs' = [reqs EXCEPT ![n].todo =
              {"fetch", "decide"} \cup (IF focus THEN {} ELSE {"check"})]
  /\ UNCHANGED <<sendVars, memberVars, clientVars, asked>>

\* checkThreadsFocused: not reset to unread while focused elsewhere
CheckThreadsFocused(n) ==
  /\ "check" \in reqs[n].todo
  /\ reqs' = [reqs EXCEPT ![n].todo =
       (@ \ {"check"}) \cup (IF SomeoneFocused THEN {} ELSE {"newer"})]
  /\ UNCHANGED <<sendVars, memberVars, focused, clientVars, asked>>

\* the query of checkForNewerMessages
CheckForNewerMessages(n) ==
  /\ "newer" \in reqs[n].todo
  /\ reqs' = [reqs EXCEPT
       ![n].todo = @ \ {"newer"},
       ![n].newer = \E m \in 1..made : /\ m > reqs[n].latest
                                       /\ ~sends[m].mine
                                       /\ "row" \notin sends[m].todo]
  /\ UNCHANGED <<sendVars, memberVars, focused, clientVars, asked>>

FetchLastMessageInfo(n) ==
  /\ "fetch" \in reqs[n].todo
  /\ reqs' = [reqs EXCEPT ![n].todo = @ \ {"fetch"},
                          ![n].last = last, ![n].cur = lastRead]
  /\ UNCHANGED <<sendVars, memberVars, focused, clientVars, asked>>

\* mutant: what the client has is not looked at when it focuses
NewLastRead_NoClient(r) == CASE r.kind = "focus"  -> r.last
                             [] r.kind = "unread" -> 0
                             [] OTHER             -> r.latest

NewLastRead(r) == CASE r.kind = "focus"  -> Larger(r.last, r.latest)
                    [] r.kind = "unread" -> 0
                    [] OTHER             -> r.latest

\* is last_read_message written at all?
Writes(r) == CASE r.kind = "unread" -> TRUE
               [] r.kind = "read"   -> ~r.newer
               [] OTHER             -> NewLastRead(r) > r.cur

Decide(n) ==
  /\ reqs[n].todo = {"decide"}
  /\ reqs' = [reqs EXCEPT
       ![n].value = NewLastRead(reqs[n]), ![n].last = 0, ![n].cur = 0,
       ![n].todo = IF Writes(reqs[n]) THEN {"write"} ELSE {}]
  /\ UNCHANGED <<sendVars, memberVars, focused, clientVars, asked>>

\* mutant: marked as unread by a value that is no id
UpdateLastRead_Negative(n) ==
  /\ "write" \in reqs[n].todo
  /\ reqs' = [reqs EXCEPT ![n] = [@ EXCEPT !.todo = {}, !.value = 0]]
  /\ lastRead' = IF reqs[n].kind = "unread" THEN 0 - 1
                 ELSE Larger(lastRead, reqs[n].value)
  /\ UNCHANGED <<sendVars, last, focused, clientVars, asked>>

\* updateLastReadMessage, and the UPDATE of setThreadUnreadStatus
UpdateLastRead(n) ==
  /\ "write" \in reqs[n].todo
  /\ reqs' = [reqs EXCEPT ![n] = [@ EXCEPT !.todo = {}, !.value = 0]]
  /\ lastRead' = IF reqs[n].kind = "unread" THEN 0
                 ELSE Larger(lastRead, reqs[n].value)
  /\ UNCHANGED <<sendVars, last, focused, clientVars, asked>>

\* The row expires after four hours, or goes when the socket closes.
LoseFocusedRow(s) ==
  /\ focused[s] # 0
  /\ focused' = [focused EXCEPT ![s] = 0]
  /\ UNCHANGED <<sendVars, memberVars, clientVars, reqVars>>

-----------------------------------------------------------------------------
SendStep == \E m \in 1..made : InsertRow(m) \/ Look(m) \/ UpdateLatest(m)

ClientStep(s) ==
  \/ \E k \in Latest : \/ ChangeFocus(s, k)
                       \/ MarkRead(s, k) \/ MarkUnread(s, k)
  \/ LoseFocusedRow(s)

RequestStep ==
  \E n \in 1..asked :
    \/ UpdateFocusedRows(n) \/ CheckThreadsFocused(n)
    \/ CheckForNewerMessages(n) \/ FetchLastMessageInfo(n)
    \/ Decide(n) \/ UpdateLastRead(n)

Next ==
  \/ \E mine \in BOOLEAN : CreateMessages(mine)
  \/ SendStep
  \/ \E s \in Sessions : ClientStep(s)
  \/ RequestStep

Spec == Init /\ [][Next]_vars
-----------------------------------------------------------------------------
(* Properties.                                                             *)

\* Every variable has the type the rest of the module reads it with.
TypeOK ==
  /\ sends \in [Ids -> Send]
  /\ made \in Latest
  /\ last \in Latest
  /\ lastRead \in Latest
  /\ focused \in [Sessions -> 0..MaxRequests]
  /\ active \in [Sessions -> BOOLEAN]
  /\ known \in [Sessions -> Latest]
  /\ reqs \in [Requests -> Request]
  /\ asked \in 0..MaxRequests

Sent  == \A m \in 1..made : sends[m].todo = {}
Quiet == Sent /\ \A n \in 1..asked : reqs[n].todo = {}

\* In whatever order concurrent createMessages calls write, last_message is
\* the newest message once they are done.
NewestIsLast == Sent => last = made

\* what handled requests have said the user has seen
Reported == {reqs[n].latest : n \in {i \in 1..asked :
               \/ reqs[i].kind \in {"focus", "unfocus"}
               \/ reqs[i].kind = "read" /\ ~reqs[i].newer}}

Marked == \E n \in 1..asked : reqs[n].kind = "unread"

\* A thread is not left unread without a cause, however handlers and sends
\* interleave: unless the user marked it as unread, its newest message is
\* somebody else's and newer than all that the member's sessions have
\* reported as shown.
UnreadHasCause ==
  Quiet /\ lastRead < last =>
    Marked \/ (~sends[last].mine /\ \A k \in Reported : k < last)

\* What activity-updaters.js:284-286 says of checkForNewerMessages: a session
\* that leaves the thread while somebody's newer message is there resets it
\* to unread.
ResetIsUnread ==
  /\ Quiet
  /\ asked > 0
  /\ reqs[asked].kind = "unfocus" /\ reqs[asked].newer
  /\ \A m \in 1..made : ~sends[m].mine
  => lastRead < last
=============================================================================
