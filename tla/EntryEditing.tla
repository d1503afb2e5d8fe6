---------------------------- MODULE EntryEditing ----------------------------
(***************************************************************************)
(* A calendar entry as one session edits it and the keyserver keeps it:    *)
(* the native component InternalEntry with its saves in flight, the store, *)
(* and the entry's row with its revisions.  The keyserver's handlers read  *)
(* first and write later, with no lock in between, so the handlers of this *)
(* session and of others overlap.                                          *)
(*                                                                         *)
(* Abstractions: the queries a handler sends side by side are one step,    *)
(* and the content of its answer is read after them; entries are not       *)
(* restored from their history; no live update reaches an entry that is    *)
(* filed under its localID; an instance of the component that another has  *)
(* replaced sends no more saves; of several alerts the last is kept.       *)
(* Clocks of different sessions need not agree.                            *)
(***************************************************************************)
EXTENDS Naturals

CONSTANTS
  Texts, Empty,     \* what the user types
  OtherTexts,       \* what other sessions write
  None,
  MaxEdits,         \* bound: changes of the text
  MaxFailures,      \* bound: requests that time out
  MaxReconnects,    \* bound: times a failed save is tried again
  MaxOthers,        \* bound: changes by other sessions
  MaxTime           \* bound: timestamps

\* the errors of the keyserver, and the client's own
Errors == {"entry_deleted", "database_corruption", "concurrent_modification",
           "old_timestamp", "unknown_error", "timeout"}

ASSUME EntryAssumption ==
  /\ Empty \notin Texts \cup OtherTexts
  /\ None \notin Texts \cup OtherTexts \cup {Empty} \cup Errors
  /\ MaxEdits \in Nat /\ MaxFailures \in Nat /\ MaxReconnects \in Nat
  /\ MaxOthers \in Nat /\ MaxTime \in Nat \ {0}

VARIABLES
  comp,       \* the component on the screen, or the last one there was
  alert,      \* the text the keyserver has instead, and whom it was told to
  store,      \* the entry in Redux: the key it is filed under, has it an ID
              \* yet?, and its content
  requests,   \* those under way
  entry,      \* the keyserver's row, and how many were ever inserted
  revisions,  \* the entry's rows in the revisions table
  rivals,     \* the handlers of other sessions that have read but not written
  version,    \* history: how often the entry was written
  overlapped, \* history: has a handler written what it had not read?
  clock,      \* the session's Date.now()
  seen,       \* the texts this session has shown or typed
  edits, failures, reconnects, others

client == <<comp, alert, store, clock>>
tables == <<entry, revisions, version, overlapped>>
server == <<tables, rivals>>
bounds == <<edits, failures, reconnects, others>>
vars   == <<client, requests, server, seen, bounds>>

Words == Texts \cup OtherTexts \cup {Empty}

\* an answer that holds no UPDATE_ENTRY
NoContent == [text |-> None, deleted |-> FALSE]

\* what a handler has read before it has read anything
NoRevision == [id |-> 0, mine |-> FALSE, text |-> Empty, deleted |-> FALSE,
               time |-> 0]

Mounted(text, n) ==
  [instance |-> n, shown |-> TRUE, editing |-> FALSE, text |-> text,
   status |-> "inactive", saving |-> None, creating |-> FALSE,
   needsUpdate |-> FALSE, needsDelete |-> FALSE, deleted |-> FALSE,
   attempts |-> 0]

\* A local entry just created, or one that is known already.
Init ==
  /\ \/ /\ comp = [Mounted(Empty, 1) EXCEPT !.editing = TRUE]
        /\ store = [key |-> "local", id |-> FALSE, text |-> Empty,
                    deleted |-> FALSE]
        /\ entry = [rows |-> 0, text |-> Empty, deleted |-> FALSE]
        /\ revisions = {}
     \/ \E t \in Texts, mine \in BOOLEAN :
          /\ comp = Mounted(t, 1)
          /\ store = [key |-> "server", id |-> TRUE, text |-> t,
                      deleted |-> FALSE]
          /\ entry = [rows |-> 1, text |-> t, deleted |-> FALSE]
          /\ revisions = {[id |-> 1, mine |-> mine, text |-> t,
                           deleted |-> FALSE, time |-> 1]}
  /\ alert = [text |-> None, instance |-> 1]
  /\ requests = {} /\ rivals = {}
  /\ version = 1 /\ overlapped = FALSE
  /\ clock = 1
  /\ seen = {store.text}
  /\ edits = 0 /\ failures = 0 /\ reconnects = 0 /\ others = 0
-----------------------------------------------------------------------------
(* The component.                                                          *)

IsActive(c, info) == c.editing \/ ~info.id \/ c.status # "inactive"

Visible(info) == info.key # "none" /\ ~info.deleted

\* What a change of the entry in the store does to what is on the screen:
\* deleted entries are not rendered, an idle one shows the new text.
Rendered(c, old, new) ==
  CASE ~c.shown /\ Visible(new) -> Mounted(new.text, c.instance + 1)
    [] c.shown /\ ~Visible(new) -> [c EXCEPT !.shown = FALSE]
    [] /\ c.shown /\ Visible(new) /\ ~IsActive(c, new)
       /\ new.text # old.text /\ new.text # c.text ->
         [c EXCEPT !.text = new.text, !.saving = None]
    [] OTHER -> c

Request(kind, text, time, c) ==
  [kind |-> kind, text |-> text, prev |-> store.text, time |-> time,
   attempt |-> c.attempts, instance |-> c.instance, step |-> "sent",
   checked |-> FALSE, rev |-> NoRevision, version |-> 0,
   error |-> None, content |-> NoContent]

\* guardedSetState
SetStatus(c, status) == IF c.shown THEN [c EXCEPT !.status = status] ELSE c

\* dispatchSave: [component, requests sent].  creationTime is 1.
DispatchSave(c, id, time) ==
  LET tried == [c EXCEPT !.saving = c.text] IN
  CASE c.saving = c.text -> <<c, {}>>
    [] c.saving # c.text /\ c.text = Empty -> <<tried, {}>>
    [] c.saving # c.text /\ c.text # Empty /\ ~id /\ c.creating ->
         <<[tried EXCEPT !.needsUpdate = TRUE], {}>>
    [] OTHER ->
         <<SetStatus([tried EXCEPT !.creating = @ \/ ~id, !.attempts = @ + 1],
                     "loading"),
           {IF id THEN Request("save", c.text, time, c)
            ELSE Request("create", c.text, 1, c)}>>

\* dispatchDelete
DispatchDelete(c, id, time) ==
  IF c.deleted THEN <<c, {}>>
  ELSE <<[c EXCEPT !.deleted = TRUE, !.needsDelete = ~id /\ c.creating],
         IF id THEN {Request("delete", None, time, c)} ELSE {}>>

Send(outcome) ==
  /\ comp' = outcome[1]
  /\ requests' = requests \cup outcome[2]

\* Date.now(): no two actions of the user fall in the same millisecond.
Tick ==
  /\ clock < MaxTime
  /\ clock' = clock + 1

Type(t) ==
  /\ comp.shown /\ alert.text = None /\ t # comp.text
  /\ edits < MaxEdits
  /\ comp' = [comp EXCEPT !.editing = TRUE, !.text = t]
  /\ edits' = edits + 1
  /\ UNCHANGED <<alert, store, requests, server, clock, failures, reconnects,
                 others>>

\* DELETE_ENTRY_STARTED hides the entry at once, if it is filed under the ID
\* that the component knows.
Delete(c) ==
  LET outcome == DispatchDelete(c, store.id, clock')
      found   == store.id \/ store.key = "local"
  IN
  /\ Send(<<[outcome[1] EXCEPT !.shown = @ /\ ~found], outcome[2]>>)
  /\ store' = [store EXCEPT !.deleted = @ \/ found]

\* completeEdit, onBlur
CompleteEdit ==
  LET done == [comp EXCEPT !.editing = FALSE] IN
  /\ comp.shown /\ comp.editing /\ alert.text = None
  /\ Tick
  /\ IF comp.text = Empty THEN Delete(done)
     ELSE /\ IF store.text # comp.text
             THEN Send(DispatchSave(done, store.id, clock'))
             ELSE Send(<<done, {}>>)
          /\ UNCHANGED store
  /\ UNCHANGED <<alert, server, bounds>>

PressDelete ==
  /\ comp.shown /\ alert.text = None
  /\ Tick
  /\ Delete(comp)
  /\ UNCHANGED <<alert, server, bounds>>

\* A failed save is tried again when the client is back online.
Reconnect ==
  /\ comp.shown /\ comp.status = "error"
  /\ reconnects < MaxReconnects
  /\ reconnects' = reconnects + 1
  /\ Tick
  /\ Send(DispatchSave(comp, store.id, clock'))
  /\ UNCHANGED <<alert, store, server, edits, failures, others>>

\* The user acknowledges the alert, of whichever instance it is:
\* CONCURRENT_MODIFICATION_RESET.
Refresh ==
  LET c == IF comp.shown /\ alert.instance = comp.instance
           THEN [comp EXCEPT !.text = alert.text, !.status = "inactive"]
           ELSE comp
  IN
  /\ alert.text # None
  /\ alert' = [alert EXCEPT !.text = None]
  /\ store' = IF store.key = "none" THEN store
              ELSE [store EXCEPT !.text = alert.text]
  /\ comp' = Rendered(c, store, store')
  /\ UNCHANGED <<requests, server, clock, bounds>>
-----------------------------------------------------------------------------
(* The keyserver.                                                          *)

\* The answer, unless the client has given up waiting for it.
Answer(r, error, content) ==
  requests' = (requests \ {r}) \cup
    (IF r.step = "sent"
     THEN {[r EXCEPT !.step = "answered", !.error = error,
                     !.content = content]}
     ELSE {})

Row == [text |-> entry.text, deleted |-> entry.deleted]

\* A handler that is yet to read, or has read and is yet to write.
Reading(r, kind) == r.kind = kind /\ r.step \in {"sent", "late"} /\ ~r.checked
Writing(r, kind) == r.kind = kind /\ r.step \in {"sent", "late"} /\ r.checked

\* ORDER BY last_update DESC LIMIT 1, in no order among equals.
Newest == {n \in revisions : \A o \in revisions : o.time <= n.time}

\* The checks are passed on the revision `last`; the writes come later.
Proceed(r, last) ==
  requests' = (requests \ {r}) \cup
    {[r EXCEPT !.checked = TRUE, !.rev = last, !.version = version]}

Refuse(r, error, last) ==
  Answer(r, error, IF error = "concurrent_modification"
                   THEN [text |-> last.text, deleted |-> last.deleted]
                   ELSE NoContent)

\* The row is written, and its revision: one more, or one rewritten.
Write(text, deleted, row, read) ==
  /\ entry' = [entry EXCEPT !.text = text, !.deleted = deleted]
  /\ revisions' = {o \in revisions : o.id # row.id} \cup {row}
  /\ version' = version + 1
  /\ overlapped' = (overlapped \/ read # version)

\* createEntry looks for the entry of the same localID and finds it, if this
\* is a retry.  Its answer holds the entry only if there is a row about it in
\* the updates of another session of the user.
CheckCreate(r) ==
  /\ Reading(r, "create")
  /\ IF entry.rows = 0 THEN Proceed(r, NoRevision)
     ELSE \E content \in {Row, NoContent} : Answer(r, None, content)
  /\ UNCHANGED <<client, server, bounds>>

Insert(r) ==
  /\ entry' = [rows |-> entry.rows + 1, text |-> r.text, deleted |-> FALSE]
  /\ revisions' = revisions \cup
       {[id |-> version + 1, mine |-> TRUE, text |-> r.text, deleted |-> FALSE,
         time |-> r.time]}
  /\ version' = version + 1
  /\ UNCHANGED overlapped
  /\ \E content \in {Row', NoContent} : Answer(r, None, content)

\* mutant: no key on creator and creation
WriteCreate_NoKey(r) ==
  /\ Writing(r, "create")
  /\ Insert(r)
  /\ UNCHANGED <<client, rivals, bounds>>

\* The key on creator and creation refuses a second row.  The entry may be
\* read for the answer before it is inserted.
WriteCreate(r) ==
  /\ Writing(r, "create")
  /\ IF entry.rows = 0 THEN Insert(r)
     ELSE Answer(r, "unknown_error", NoContent) /\ UNCHANGED tables
  /\ UNCHANGED <<client, rivals, bounds>>

\* mutant: the comparison of the sessions is reversed
Conflict_Reversed(r, last) == last.mine /\ r.prev # last.text

\* Somebody else has changed what the session thinks it is changing.
Conflict(r, last) == ~last.mine /\ r.prev # last.text

Corrupt(last) == last.deleted \/ last.text # entry.text

\* mutant: the timestamp is compared with the session's own revision only
CheckSave_OwnTimestamp(r) ==
  /\ Reading(r, "save")
  /\ \E last \in Newest :
       CASE entry.deleted -> Refuse(r, "entry_deleted", last)
         [] ~entry.deleted /\ Corrupt(last) ->
              Refuse(r, "database_corruption", last)
         [] ~entry.deleted /\ ~Corrupt(last) /\ Conflict(r, last) ->
              Refuse(r, "concurrent_modification", last)
         [] /\ ~entry.deleted /\ ~Corrupt(last) /\ last.mine
            /\ last.time >= r.time -> Refuse(r, None, last)
         [] OTHER -> Proceed(r, last)
  /\ UNCHANGED <<client, server, bounds>>

\* updateEntry, as far as it reads.
CheckSave(r) ==
  /\ Reading(r, "save")
  /\ \E last \in Newest :
       CASE entry.deleted -> Refuse(r, "entry_deleted", last)
         [] ~entry.deleted /\ Corrupt(last) ->
              Refuse(r, "database_corruption", last)
         [] ~entry.deleted /\ ~Corrupt(last) /\ Conflict(r, last) ->
              Refuse(r, "concurrent_modification", last)
         [] /\ ~entry.deleted /\ ~Corrupt(last) /\ ~Conflict(r, last)
            /\ last.time >= r.time ->
              Refuse(r, IF last.mine THEN None ELSE "old_timestamp", last)
         [] OTHER -> Proceed(r, last)
  /\ UNCHANGED <<client, server, bounds>>

\* updateEntry writes: the session's own revision is rewritten unless it is
\* two minutes old.
WriteSave(r) ==
  /\ Writing(r, "save")
  /\ \E id \in {version + 1} \cup (IF r.rev.mine THEN {r.rev.id} ELSE {}) :
       Write(r.text, entry.deleted,
             [id |-> id, mine |-> TRUE, text |-> r.text, deleted |-> FALSE,
              time |-> r.time],
             r.version)
  /\ Answer(r, None, Row')
  /\ UNCHANGED <<client, rivals, bounds>>

\* deleteEntry, as far as it reads.
CheckDelete(r) ==
  /\ Reading(r, "delete")
  /\ \E last \in Newest :
       CASE last.deleted ->
              \E content \in {Row, NoContent} : Answer(r, None, content)
         [] ~last.deleted /\ Conflict(r, last) ->
              Refuse(r, "concurrent_modification", last)
         [] ~last.deleted /\ ~Conflict(r, last) /\ last.time >= r.time ->
              Refuse(r, "old_timestamp", last)
         [] OTHER -> Proceed(r, last)
  /\ UNCHANGED <<client, server, bounds>>

WriteDelete(r) ==
  /\ Writing(r, "delete")
  /\ Write(entry.text, TRUE,
           [id |-> version + 1, mine |-> TRUE, text |-> r.rev.text,
            deleted |-> TRUE, time |-> r.time],
           r.version)
  /\ Answer(r, None, Row')
  /\ UNCHANGED <<client, rivals, bounds>>

\* A save or a deletion by another session passes the checks, its clock ahead
\* of the newest revision's.
OtherChecks(deleted) ==
  /\ others < MaxOthers
  /\ others' = others + 1
  /\ entry.rows # 0 /\ ~entry.deleted
  /\ \E last \in Newest :
       /\ ~Corrupt(last)
       /\ \E text \in IF deleted THEN {last.text} ELSE OtherTexts \ {last.text},
             time \in (last.time + 1)..MaxTime :
            rivals' = rivals \cup
              {[text |-> text, deleted |-> deleted, time |-> time,
                rev |-> last, version |-> version]}
  /\ UNCHANGED <<client, requests, tables, edits, failures, reconnects>>

\* It writes; a save may rewrite the revision, if that is its own.
OtherWrites(o) ==
  /\ \E id \in {version + 1}
               \cup (IF o.deleted \/ o.rev.mine THEN {} ELSE {o.rev.id}) :
       Write(IF o.deleted THEN entry.text ELSE o.text,
             entry.deleted \/ o.deleted,
             [id |-> id, mine |-> FALSE, text |-> o.text,
              deleted |-> o.deleted, time |-> o.time],
             o.version)
  /\ rivals' = rivals \ {o}
  /\ UNCHANGED <<client, requests, bounds>>
-----------------------------------------------------------------------------
(* What comes back.                                                        *)

\* The entry is filed under its ID with the content; the component, c by now,
\* is rendered anew.
Take(c, content) ==
  /\ store' = [key |-> "server", id |-> TRUE, text |-> content.text,
               deleted |-> content.deleted]
  /\ comp' = Rendered(c, store, store')

LiveUpdate ==
  /\ store.key # "local"
  /\ store # [key |-> "server", id |-> TRUE, text |-> entry.text,
              deleted |-> entry.deleted]
  /\ Take(comp, Row)
  /\ UNCHANGED <<alert, requests, server, clock, bounds>>

\* Is this answer for the component on the screen, to its latest attempt?
Mine(r)   == r.instance = comp.instance

\* mutant: off by one
Latest_Next(r) == r.attempt = comp.attempts

Latest(r) == r.attempt + 1 = comp.attempts

Settled(r, status) ==
  IF Mine(r) /\ Latest(r) THEN SetStatus(comp, status) ELSE comp

\* CREATE_ENTRY_SUCCESS without the entry: what is filed under the localID is
\* re-keyed and stays without an ID; what is under the ID and has none goes.
Rekeyed ==
  CASE store.key = "local" -> [store EXCEPT !.key = "server"]
    [] store.key = "server" /\ ~store.id -> [store EXCEPT !.key = "none"]
    [] OTHER -> store

\* CREATE_ENTRY_SUCCESS.  An entry that replaces one without an ID has no
\* localID, by which React knows the component, and so gets another.
File(c, content) ==
  IF store.key = "none" \/ content = NoContent
  THEN store' = Rekeyed /\ comp' = Rendered(c, store, store')
  ELSE Take(IF store.key = "server" /\ ~store.id
            THEN [c EXCEPT !.shown = FALSE] ELSE c,
            content)

\* createAction: what had to wait for the ID is done now.
Continued(r) ==
  LET c    == [Settled(r, "inactive") EXCEPT !.creating = FALSE,
                 !.needsUpdate = FALSE, !.needsDelete = FALSE]
      save == IF comp.needsUpdate THEN DispatchSave(c, TRUE, clock)
              ELSE <<c, {}>>
      delete == IF comp.needsDelete THEN DispatchDelete(save[1], TRUE, clock)
                ELSE <<save[1], {}>>
  IN
  IF Mine(r) THEN <<delete[1], save[2] \cup delete[2]>> ELSE <<comp, {}>>

Created(r) ==
  /\ r.kind = "create"
  /\ requests' = (requests \ {r}) \cup Continued(r)[2]
  /\ File(Continued(r)[1], r.content)

Saved(r) ==
  /\ r.kind = "save"
  /\ requests' = requests \ {r}
  /\ IF r.content = NoContent \/ store.key = "none"
     THEN comp' = Settled(r, "inactive") /\ UNCHANGED store
     ELSE Take(Settled(r, "inactive"), r.content)

Deleted(r) ==
  /\ r.kind = "delete"
  /\ requests' = requests \ {r}
  /\ IF r.content = NoContent THEN UNCHANGED <<comp, store>>
     ELSE Take(comp, r.content)

Succeed(r) ==
  /\ r.step = "answered" /\ r.error = None
  /\ Created(r) \/ Saved(r) \/ Deleted(r)
  /\ UNCHANGED <<alert, server, clock, bounds>>

\* mutant: `creating` stays set
Failed_Creating(r) ==
  IF r.kind = "delete" \/ ~Mine(r) THEN comp
  ELSE [Settled(r, "error") EXCEPT !.saving = None]

\* The catch of createAction and saveAction; deleteAction has none.
Failed(r) ==
  IF r.kind = "delete" \/ ~Mine(r) THEN comp
  ELSE [Settled(r, "error") EXCEPT !.saving = None,
                                   !.creating = @ /\ r.kind # "create"]

\* The alert is shown even if the instance is gone from the screen.
Alerted(r) ==
  IF r.kind = "save" /\ r.error = "concurrent_modification"
  THEN [text |-> r.content.text, instance |-> r.instance]
  ELSE alert

Fail(r) ==
  /\ r.step = "answered" /\ r.error # None
  /\ comp' = Failed(r)
  /\ alert' = Alerted(r)
  /\ requests' = requests \ {r}
  /\ UNCHANGED <<store, server, clock, bounds>>

\* The call times out; the keyserver may be yet to serve it.
TimeOut(r) ==
  /\ r.step \in {"sent", "answered"}
  /\ failures < MaxFailures
  /\ failures' = failures + 1
  /\ comp' = Failed(r)
  /\ requests' = (requests \ {r}) \cup
       (IF r.step = "sent" THEN {[r EXCEPT !.step = "late"]} ELSE {})
  /\ UNCHANGED <<alert, store, server, clock, edits, reconnects, others>>
-----------------------------------------------------------------------------
Serve(r) ==
  \/ CheckCreate(r) \/ CheckSave(r) \/ CheckDelete(r)
  \/ WriteCreate(r) \/ WriteSave(r) \/ WriteDelete(r)

Step ==
  \/ \E t \in Texts \cup {Empty} : Type(t)
  \/ CompleteEdit \/ PressDelete \/ Reconnect \/ Refresh
  \/ \E r \in requests : Serve(r) \/ Succeed(r) \/ Fail(r) \/ TimeOut(r)
  \/ \E d \in BOOLEAN : OtherChecks(d)
  \/ \E o \in rivals : OtherWrites(o)
  \/ LiveUpdate

\* What is on the screen and in the store has been seen.
See == seen' = seen \cup {store'.text, comp'.text}

Next == Step /\ See

\* The keyserver serves and the client takes its answers.
Fairness ==
  /\ WF_vars((\E r \in requests : Serve(r)) /\ See)
  /\ WF_vars((\E r \in requests : Succeed(r) \/ Fail(r)) /\ See)

Spec == Init /\ [][Next]_vars /\ Fairness
-----------------------------------------------------------------------------
(* Properties.                                                             *)

\* The variables have their types, and a component that is waiting for an
\* ID has its creation under way.
TypeOK ==
  /\ comp \in [instance : Nat, shown : BOOLEAN, editing : BOOLEAN,
               text : Words, status : {"inactive", "loading", "error"},
               saving : Words \cup {None}, creating : BOOLEAN,
               needsUpdate : BOOLEAN, needsDelete : BOOLEAN,
               deleted : BOOLEAN, attempts : Nat]
  /\ alert \in [text : Words \cup {None}, instance : Nat]
  /\ store \in [key : {"local", "server", "none"}, id : BOOLEAN, text : Words,
                deleted : BOOLEAN]
  /\ \A r \in requests : r.kind \in {"create", "save", "delete"}
                        /\ r.step \in {"sent", "answered", "late"}
  /\ comp.creating <=> \E r \in requests : r.kind = "create" /\ r.step # "late"
                                           /\ r.instance = comp.instance
  /\ entry \in [rows : Nat, text : Words, deleted : BOOLEAN]
  /\ revisions \subseteq [id : Nat, mine : BOOLEAN, text : Words,
                          deleted : BOOLEAN, time : 0..MaxTime]
  /\ version \in Nat /\ overlapped \in BOOLEAN
  /\ clock \in 1..MaxTime /\ seen \subseteq Words

\* As long as no two handlers that write have overlapped, the entry's row and
\* the newest of its revisions say the same, so that no save is refused as
\* database_corruption.
Consistent ==
  entry.rows # 0 /\ ~overlapped =>
    \A n \in Newest : entry.text = n.text /\ entry.deleted = n.deleted

\* However often the creation is tried, there is one entry.
CreatedOnce == entry.rows <= 1

\* Has the entry been written since this handler read it?
Overtaken(r) == r.version # version

\* A session replaces no text of another session that it has not seen, unless
\* the other's handler has written between this one's checks and its writes.
NothingUnseenReplaced ==
  [][\A r \in requests :
       ~Overtaken(r) => /\ WriteSave(r) => entry.text \in seen
                        /\ WriteDelete(r) => \E n \in Newest : n.text \in seen]_vars

\* Every save ends: the entry does not stay loading.
SpinnerStops == comp.status = "loading" /\ comp.shown
                  ~> ~(comp.status = "loading" /\ comp.shown)

\* "We need the first save call to return so we know the ID of the entry
\* we're updating, so we'll need to handle this save later"
\* (native/calendar/entry.react.js): when the ID is known, a text that had
\* to wait for it is sent.
DeferredSaveIsSent ==
  [][~store.id /\ store'.id /\ comp.needsUpdate
     /\ comp.text \notin {Empty, store'.text}
       => \E r \in requests' : r.kind = "save" /\ r.text = comp.text]_vars
=============================================================================
