------------------------- MODULE EntryEditingProofs -------------------------
(***************************************************************************)
(* Proofs about EntryEditing: its types, CreatedOnce, Consistent, and that *)
(* a session replaces nothing it has not seen (NothingUnseenReplaced).     *)
(* A handler reads first and writes later; what carries the proofs over    *)
(* the gap is that, as long as nobody else has written, what it has read   *)
(* is still so (Held).  The types say that a component waits for an ID     *)
(* exactly while its creation is under way; that takes knowing that it has *)
(* one creation at a time, and that no request is of a component that is   *)
(* yet to come (Creations, Asked).                                         *)
(***************************************************************************)
EXTENDS EntryEditing, TLAPS

CompType ==
  [instance : Nat, shown : BOOLEAN, editing : BOOLEAN, text : Words,
   status : {"inactive", "loading", "error"}, saving : Words \cup {None},
   creating : BOOLEAN, needsUpdate : BOOLEAN, needsDelete : BOOLEAN,
   deleted : BOOLEAN, attempts : Nat]

Contents == [text : Words, deleted : BOOLEAN]

RevisionType == [id : Nat, mine : BOOLEAN, text : Words, deleted : BOOLEAN,
                 time : 0..MaxTime]

RequestType ==
  [kind : {"create", "save", "delete"}, text : Words \cup {None}, prev : Words,
   time : 0..MaxTime, attempt : Nat, instance : Nat,
   step : {"sent", "answered", "late"}, checked : BOOLEAN, rev : RevisionType,
   version : Nat, error : Errors \cup {None}, content : Contents \cup {NoContent}]

RivalType ==
  [text : Words, deleted : BOOLEAN, time : 0..MaxTime, rev : RevisionType,
   version : Nat]

AlertType == [text : Words \cup {None}, instance : Nat]
StoreType == [key : {"local", "server", "none"}, id : BOOLEAN, text : Words,
              deleted : BOOLEAN]
EntryType == [rows : Nat, text : Words, deleted : BOOLEAN]

\* The types of the client's variables and of the keyserver's.
ClientTypes == /\ comp \in CompType /\ alert \in AlertType /\ store \in StoreType
               /\ clock \in 1..MaxTime
ServerTypes == /\ entry \in EntryType /\ revisions \subseteq RevisionType
               /\ version \in Nat /\ overlapped \in BOOLEAN

\* A creation the client is waiting for.
Pending(r) == r.kind = "create" /\ r.step # "late"

\* Among these requests, a component has one creation at a time, and waits
\* for the ID as long as it has one.
CreationsOf(c, reqs) ==
  /\ c.creating <=> \E r \in reqs : Pending(r) /\ r.instance = c.instance
  /\ \A r, q \in reqs : Pending(r) /\ Pending(q) /\ r.instance = c.instance
                        /\ q.instance = c.instance => r = q

Creations == CreationsOf(comp, requests)

\* A request is based on what the session has seen, and has been sent by a
\* component that is or was on the screen.
Asked(r) ==
  /\ r \in RequestType
  /\ r.prev \in seen /\ (r.kind # "delete" => r.text \in seen)
  /\ r.instance <= comp.instance

\* The revision that a handler has read is the newest still.
Current(h) ==
  /\ h.rev \in revisions /\ \A o \in revisions : o.time <= h.rev.time
  /\ h.rev.time < h.time /\ ~h.rev.deleted

\* What a handler has read is still so unless somebody has written since;
\* in any case the session has seen the text it has read.
Held(r) ==
  r.checked /\ r.kind # "create" =>
    /\ entry.rows # 0 /\ r.version <= version /\ r.rev.text \in seen
    /\ r.version = version =>
         /\ Current(r)
         /\ r.kind = "save" => ~entry.deleted /\ entry.text = r.rev.text

HeldByOther(o) ==
  /\ o \in RivalType
  /\ entry.rows # 0 /\ o.version <= version
  /\ o.version = version =>
       /\ Current(o) /\ ~entry.deleted /\ entry.text = o.rev.text
       /\ o.deleted => o.text = o.rev.text

\* The session has seen what it shows and what it has written.
Seen ==
  /\ seen \subseteq Words /\ store.text \in seen /\ comp.text \in seen
  /\ \A row \in revisions : row.mine => row.text \in seen

\* The inductive invariant, in what the client and the keyserver have to keep.
ClientInv == ClientTypes /\ Creations /\ \A r \in requests : Asked(r)
ServerInv ==
  /\ ServerTypes /\ Consistent /\ CreatedOnce
  /\ entry.rows = 0 => revisions = {}
  /\ \A r \in requests : Held(r)
  /\ \A o \in rivals : HeldByOther(o)
Inv == ClientInv /\ ServerInv /\ Seen

-----------------------------------------------------------------------------
(* Lemmas about the functions of the component.                            *)

\* A component just mounted.
LEMMA MountedLemma ==
  ASSUME NEW text \in Words, NEW n \in Nat
  PROVE  /\ Mounted(text, n) \in CompType /\ Mounted(text, n).instance = n
         /\ ~Mounted(text, n).creating /\ Mounted(text, n).text = text
  BY EntryAssumption DEF Mounted, CompType, Words

\* The component itself with its flags, or a new one that has asked nothing.
Follows(d, c) ==
  /\ d \in CompType
  /\ \/ d.instance = c.instance /\ d.creating = c.creating
     \/ d.instance = c.instance + 1 /\ ~d.creating

\* Rendering sets no flags.
LEMMA RenderedLemma ==
  ASSUME NEW c \in CompType, NEW old \in StoreType, NEW new \in StoreType
  PROVE  Follows(Rendered(c, old, new), c)
<1>1. CASE ~c.shown /\ Visible(new)
  <2>1. Rendered(c, old, new) = Mounted(new.text, c.instance + 1)
    BY <1>1 DEF Rendered
  <2>2. new.text \in Words /\ c.instance + 1 \in Nat
    BY DEF StoreType, CompType
  <2>. QED
    BY <2>1, <2>2, MountedLemma DEF Follows
<1>2. CASE c.shown /\ ~Visible(new)
  <2>1. Rendered(c, old, new) = [c EXCEPT !.shown = FALSE]
    BY <1>2 DEF Rendered
  <2>. QED
    BY <2>1 DEF Follows, CompType
<1>3. CASE /\ c.shown /\ Visible(new) /\ ~IsActive(c, new)
           /\ new.text # old.text /\ new.text # c.text
  <2>1. Rendered(c, old, new) = [c EXCEPT !.text = new.text, !.saving = None]
    BY <1>3 DEF Rendered
  <2>. QED
    BY <2>1 DEF Follows, CompType, StoreType
<1>4. CASE Rendered(c, old, new) = c
  BY <1>4 DEF Follows
<1>. QED
  BY <1>1, <1>2, <1>3, <1>4 DEF Rendered

\* The status is all that guardedSetState sets.
LEMMA SetStatusLemma ==
  ASSUME NEW c \in CompType, NEW status \in {"inactive", "loading", "error"}
  PROVE  /\ SetStatus(c, status) \in CompType
         /\ SetStatus(c, status).creating = c.creating
         /\ SetStatus(c, status).text = c.text
         /\ SetStatus(c, status).instance = c.instance
  BY DEF SetStatus, CompType

\* A request just sent.
LEMMA RequestLemma ==
  ASSUME NEW kind \in {"create", "save", "delete"}, NEW text \in Words \cup {None},
         NEW time \in 0..MaxTime, NEW c \in CompType, store \in StoreType
  PROVE  LET r == Request(kind, text, time, c) IN
         /\ r \in RequestType
         /\ r.kind = kind /\ r.text = text /\ r.prev = store.text
         /\ r.step = "sent" /\ r.instance = c.instance /\ ~r.checked
<1>2. store.text \in Words /\ c.attempts \in Nat /\ c.instance \in Nat
  BY DEF StoreType, CompType
<1> DEFINE nothing == NoContent
           none    == NoRevision
           no      == FALSE
<1>3. Request(kind, text, time, c) =
        [kind |-> kind, text |-> text, prev |-> store.text, time |-> time,
         attempt |-> c.attempts, instance |-> c.instance, step |-> "sent",
         checked |-> no, rev |-> none, version |-> 0,
         error |-> None, content |-> nothing]
  BY DEF Request
<1>4. /\ nothing \in Contents \cup {NoContent} /\ none \in RevisionType
      /\ no \in BOOLEAN /\ ~no
  BY EntryAssumption DEF NoRevision, RevisionType, Words
<1> HIDE DEF nothing, none, no
<1>. QED
  BY <1>2, <1>3, <1>4 DEF RequestType

\* what dispatchSave leaves the component with, and the request it sends
Dispatched(o, c, id) ==
  /\ o[1] \in CompType /\ o[2] \subseteq RequestType
  /\ o[1].text = c.text /\ o[1].instance = c.instance
  /\ \A r \in o[2] : /\ r.kind = IF id THEN "save" ELSE "create"
                     /\ r.step = "sent" /\ r.instance = c.instance
                     /\ ~r.checked
                     /\ r.prev = store.text /\ r.text = c.text
  /\ \A r, q \in o[2] : r = q
  /\ id \/ o[2] = {} => o[1].creating = c.creating
  /\ ~id /\ o[2] # {} => ~c.creating /\ o[1].creating

\* Saving: without an ID, a creation unless one is under way; with one, a
\* save.  It takes the ID for known or unknown as id says.
LEMMA DispatchSaveLemma ==
  ASSUME NEW c \in CompType, NEW id \in BOOLEAN, NEW time \in 0..MaxTime,
         store \in StoreType
  PROVE  Dispatched(DispatchSave(c, id, time), c, id)
<1> USE DEF Dispatched
<1> DEFINE tried == [c EXCEPT !.saving = c.text]
<1>1. /\ tried \in CompType /\ tried.creating = c.creating
      /\ tried.text = c.text /\ tried.instance = c.instance
      /\ tried.attempts = c.attempts
  BY DEF CompType
<1>2. CASE c.saving = c.text
  BY <1>2 DEF DispatchSave
<1>3. CASE c.saving # c.text /\ c.text = Empty
  <2>1. DispatchSave(c, id, time) = <<tried, {}>>
    BY <1>3 DEF DispatchSave
  <2> HIDE DEF tried
  <2>2. DispatchSave(c, id, time)[1] = tried /\ DispatchSave(c, id, time)[2] = {}
    BY <2>1
  <2>. QED
    BY <1>1, <2>2
<1>4. CASE c.saving # c.text /\ c.text # Empty /\ ~id /\ c.creating
  <2> DEFINE noted == [tried EXCEPT !.needsUpdate = TRUE]
  <2>1. DispatchSave(c, id, time) = <<noted, {}>>
    BY <1>4 DEF DispatchSave
  <2> HIDE DEF tried
  <2>2. /\ noted \in CompType /\ noted.creating = tried.creating
        /\ noted.text = tried.text /\ noted.instance = tried.instance
    BY <1>1 DEF CompType
  <2> HIDE DEF noted
  <2>3. DispatchSave(c, id, time)[1] = noted /\ DispatchSave(c, id, time)[2] = {}
    BY <2>1
  <2>. QED
    BY <1>1, <1>4, <2>2, <2>3
<1>5. CASE c.saving # c.text /\ c.text # Empty /\ ~(~id /\ c.creating)
  <2> DEFINE counted == [tried EXCEPT !.creating = @ \/ ~id, !.attempts = @ + 1]
             r == IF id THEN Request("save", c.text, time, c)
                  ELSE Request("create", c.text, 1, c)
  <2>1. DispatchSave(c, id, time) = <<SetStatus(counted, "loading"), {r}>>
    BY <1>5 DEF DispatchSave
  <2> HIDE DEF tried
  <2> DEFINE creating == tried.creating \/ ~id
             number   == tried.attempts + 1
  <2>9. creating \in BOOLEAN /\ number \in Nat
    BY <1>1 DEF CompType
  <2>10. counted = [tried EXCEPT !.creating = creating, !.attempts = number]
    OBVIOUS
  <2>11. creating <=> tried.creating \/ ~id
    OBVIOUS
  <2> HIDE DEF creating, number
  <2>2. /\ counted \in CompType /\ counted.text = c.text
        /\ counted.instance = c.instance
        /\ counted.creating <=> tried.creating \/ ~id
    <3> HIDE DEF counted
    <3>1. counted \in CompType
      BY <1>1, <2>9, <2>10 DEF CompType
    <3>2. counted.creating = creating
      BY <1>1, <2>10 DEF CompType
    <3>3. counted.text = tried.text /\ counted.instance = tried.instance
      BY <1>1, <2>10 DEF CompType
    <3>. QED
      BY <1>1, <2>11, <3>1, <3>2, <3>3
  <2>3. 1 \in 0..MaxTime /\ c.text \in Words \cup {None}
    BY EntryAssumption DEF CompType
  <2>4. /\ r \in RequestType /\ r.kind = IF id THEN "save" ELSE "create"
        /\ r.step = "sent" /\ r.instance = c.instance /\ ~r.checked
        /\ r.prev = store.text /\ r.text = c.text
    BY <2>3, RequestLemma
  <2> HIDE DEF counted, r
  <2>5. /\ SetStatus(counted, "loading") \in CompType
        /\ SetStatus(counted, "loading").creating = counted.creating
        /\ SetStatus(counted, "loading").text = counted.text
        /\ SetStatus(counted, "loading").instance = counted.instance
    BY <2>2, SetStatusLemma
  <2>6. /\ DispatchSave(c, id, time)[1] = SetStatus(counted, "loading")
        /\ DispatchSave(c, id, time)[2] = {r}
    BY <2>1
  <2>7. id => counted.creating = c.creating
    <3>1. counted.creating \in BOOLEAN /\ c.creating \in BOOLEAN
      BY <2>2 DEF CompType
    <3>. QED
      BY <1>1, <2>2, <3>1
  <2>8. ~id => ~c.creating /\ counted.creating
    BY <1>1, <1>5, <2>2
  <2>. QED
    BY <2>2, <2>4, <2>5, <2>6, <2>7, <2>8
<1>. QED
  BY <1>2, <1>3, <1>4, <1>5

\* With an ID, all that is sent is a save.
LEMMA SaveWithID ==
  ASSUME NEW c \in CompType, NEW time \in 0..MaxTime, store \in StoreType
  PROVE  LET o == DispatchSave(c, TRUE, time) IN
         /\ o[1] \in CompType /\ o[2] \subseteq RequestType
         /\ o[1].instance = c.instance
         /\ \A q \in o[2] : /\ q.kind = "save" /\ q.step = "sent"
                            /\ q.instance = c.instance /\ ~q.checked
                            /\ q.prev = store.text /\ q.text = c.text
         /\ o[1].creating = c.creating
<1> DEFINE id == TRUE
<1>1. id \in BOOLEAN /\ id
  OBVIOUS
<1> HIDE DEF id
<1>2. Dispatched(DispatchSave(c, id, time), c, id)
  BY <1>1, DispatchSaveLemma
<1>3. LET o == DispatchSave(c, id, time) IN
      /\ \A q \in o[2] : q.kind = "save"
      /\ o[1].creating = c.creating
  BY <1>1, <1>2 DEF Dispatched
<1>. QED
  BY <1>2, <1>3 DEF id, Dispatched

\* Deleting: a request if the ID is known, and no change of `creating'.
LEMMA DispatchDeleteLemma ==
  ASSUME NEW c \in CompType, NEW id \in BOOLEAN, NEW time \in 0..MaxTime,
         store \in StoreType
  PROVE  LET o == DispatchDelete(c, id, time) IN
         /\ o[1] \in CompType /\ o[2] \subseteq RequestType
         /\ o[1].text = c.text /\ o[1].instance = c.instance
         /\ o[1].creating = c.creating
         /\ \A r \in o[2] : /\ id /\ r.kind = "delete"
                            /\ r.step = "sent" /\ r.prev = store.text
                            /\ r.instance = c.instance /\ ~r.checked
<1>1. CASE c.deleted
  BY <1>1 DEF DispatchDelete
<1>2. CASE ~c.deleted
  <2> DEFINE marked == [c EXCEPT !.deleted = TRUE, !.needsDelete = ~id /\ c.creating]
  <2>1. DispatchDelete(c, id, time) =
          <<marked, IF id THEN {Request("delete", None, time, c)} ELSE {}>>
    BY <1>2 DEF DispatchDelete
  <2>2. /\ marked \in CompType /\ marked.text = c.text
        /\ marked.instance = c.instance /\ marked.creating = c.creating
    BY DEF CompType
  <2> DEFINE r == Request("delete", None, time, c)
  <2>3. /\ r \in RequestType /\ r.kind = "delete"
        /\ r.step = "sent" /\ r.prev = store.text
        /\ r.instance = c.instance /\ ~r.checked
    BY RequestLemma
  <2> HIDE DEF marked, r
  <2>4. /\ DispatchDelete(c, id, time)[1] = marked
        /\ DispatchDelete(c, id, time)[2] = IF id THEN {r} ELSE {}
    BY <2>1 DEF r
  <2>. QED
    BY <2>2, <2>3, <2>4
<1>. QED
  BY <1>1, <1>2

\* A settled request changes the status at most.
LEMMA SettledLemma ==
  ASSUME NEW r \in RequestType, NEW status \in {"inactive", "loading", "error"},
         comp \in CompType
  PROVE  /\ Settled(r, status) \in CompType
         /\ Settled(r, status).creating = comp.creating
         /\ Settled(r, status).text = comp.text
         /\ Settled(r, status).instance = comp.instance
  BY SetStatusLemma DEF Settled

\* A failed creation is none any more, if it is of the component on the
\* screen; nothing else starts or ends one.
LEMMA FailedLemma ==
  ASSUME NEW r \in RequestType, comp \in CompType
  PROVE  /\ Failed(r) \in CompType
         /\ Failed(r).text = comp.text /\ Failed(r).instance = comp.instance
         /\ Failed(r).creating <=> comp.creating /\ ~(r.kind = "create" /\ Mine(r))
<1>1. CASE r.kind = "delete" \/ ~Mine(r)
  <2>1. Failed(r) = comp
    BY <1>1 DEF Failed
  <2>. QED
    BY <1>1, <2>1
<1>2. CASE ~(r.kind = "delete" \/ ~Mine(r))
  <2> DEFINE s        == Settled(r, "error")
             creating == s.creating /\ r.kind # "create"
  <2>1. /\ s \in CompType /\ s.creating = comp.creating
        /\ s.text = comp.text /\ s.instance = comp.instance
    BY SettledLemma
  <2>2. creating \in BOOLEAN
    BY <2>1 DEF CompType
  <2>3. Failed(r) = [s EXCEPT !.saving = None, !.creating = creating]
    BY <1>2 DEF Failed
  <2>4. creating <=> s.creating /\ r.kind # "create"
    OBVIOUS
  <2> HIDE DEF s, creating
  <2>5. /\ Failed(r) \in CompType /\ Failed(r).creating = creating
        /\ Failed(r).text = s.text /\ Failed(r).instance = s.instance
    BY <2>1, <2>2, <2>3 DEF CompType
  <2>. QED
    BY <1>2, <2>1, <2>4, <2>5
<1>. QED
  BY <1>1, <1>2
-----------------------------------------------------------------------------
(* What the keyserver's handlers do to the requests.                       *)

\* The session goes on seeing what it has seen.
LEMMA SeenGrows ==
  ASSUME seen \subseteq Words, See, comp' \in CompType, store' \in StoreType
  PROVE  /\ seen \subseteq seen' /\ seen' \subseteq Words
         /\ store'.text \in seen' /\ comp'.text \in seen'
  BY DEF See, CompType, StoreType

\* One request takes the place of another: the same question, at most given
\* up by the client, of the same component.
Replaces(q, r) ==
  /\ q \in RequestType /\ q.kind = r.kind /\ q.instance = r.instance
  /\ q.prev = r.prev /\ q.text = r.text /\ q.time = r.time

\* What a request's handler has read.
SameHandler(q, r) ==
  /\ q.kind = r.kind /\ q.time = r.time /\ q.checked = r.checked
  /\ q.rev = r.rev /\ q.version = r.version

\* A request is replaced by one that is as much under way, or ends when the
\* client has given it up.
LEMMA ReplacedLemma ==
  ASSUME Inv, See, UNCHANGED client, NEW r \in requests, NEW q,
         Replaces(q, r), Pending(q) <=> Pending(r),
         \/ requests' = (requests \ {r}) \cup {q}
         \/ requests' = requests \ {r} /\ ~Pending(r)
  PROVE  /\ ClientInv' /\ seen \subseteq seen' /\ seen' \subseteq Words
         /\ store'.text \in seen' /\ comp'.text \in seen'
<1>1. ClientTypes' /\ comp' = comp /\ store' = store
  BY DEF Inv, ClientInv, ClientTypes, client
<1>2. /\ seen \subseteq seen' /\ seen' \subseteq Words
      /\ store'.text \in seen' /\ comp'.text \in seen'
  BY <1>1, SeenGrows DEF Inv, Seen, ClientTypes
<1>3. \A p \in requests : Asked(p)
  BY DEF Inv, ClientInv
<1>4. ASSUME NEW p \in requests' PROVE Asked(p)'
  <2>1. CASE p \in requests
    BY <1>1, <1>2, <1>3, <2>1 DEF Asked
  <2>2. CASE p = q
    BY <1>1, <1>2, <1>3, <2>2 DEF Asked, Replaces
  <2>. QED
    BY <2>1, <2>2
<1>5. Creations'
  <2>1. CreationsOf(comp, requests)
    BY DEF Inv, ClientInv, Creations
  <2>2. CreationsOf(comp, requests')
    <3>1. CASE requests' = (requests \ {r}) \cup {q}
      BY <2>1, <3>1 DEF CreationsOf, Replaces
    <3>2. CASE requests' = requests \ {r} /\ ~Pending(r)
      BY <2>1, <3>2 DEF CreationsOf
    <3>. QED
      BY <3>1, <3>2
  <2>. QED
    BY <1>1, <2>2 DEF Creations
<1>. QED
  BY <1>1, <1>2, <1>4, <1>5 DEF ClientInv

\* An answer: the request is answered, or gone if the client has given it up.
LEMMA AnswerLemma ==
  ASSUME Inv, See, UNCHANGED client, NEW r \in requests,
         NEW error \in Errors \cup {None}, NEW content \in Contents \cup {NoContent},
         r.step \in {"sent", "late"}, Answer(r, error, content)
  PROVE  /\ ClientInv' /\ seen \subseteq seen' /\ seen' \subseteq Words
         /\ store'.text \in seen' /\ comp'.text \in seen'
         /\ \A q \in requests' : \E p \in requests : SameHandler(q, p)
<1> DEFINE answered == [r EXCEPT !.step = "answered", !.error = error,
                                 !.content = content]
<1>1. r \in RequestType
  BY DEF Inv, ClientInv, Asked
<1>2. /\ Replaces(answered, r) /\ SameHandler(answered, r)
      /\ answered.step = "answered"
  <2> DEFINE what == content
  <2>1. what \in Contents \cup {NoContent} /\ what = content
    OBVIOUS
  <2>2. answered = [r EXCEPT !.step = "answered", !.error = error, !.content = what]
    OBVIOUS
  <2> HIDE DEF what, answered
  <2>3. answered \in RequestType
    BY <1>1, <2>1, <2>2 DEF RequestType
  <2>. QED
    BY <1>1, <2>2, <2>3 DEF Replaces, SameHandler, RequestType
<1> HIDE DEF answered
<1>3. requests' = (requests \ {r}) \cup IF r.step = "sent" THEN {answered} ELSE {}
  BY DEF Answer, answered
<1>4. r.step = "sent" => (Pending(answered) <=> Pending(r))
  BY <1>2 DEF Pending, Replaces
<1>5. r.step = "late" => ~Pending(r)
  BY DEF Pending
<1>6. \A q \in requests' : \E p \in requests : SameHandler(q, p)
  BY <1>2, <1>3 DEF SameHandler
<1>7. CASE r.step = "sent"
  <2>1. requests' = (requests \ {r}) \cup {answered}
    BY <1>3, <1>7
  <2>. QED
    BY <1>2, <1>4, <1>6, <1>7, <2>1, ReplacedLemma
<1>8. CASE r.step = "late"
  <2>1. requests' = requests \ {r} /\ Replaces(r, r)
    BY <1>1, <1>3, <1>8 DEF Replaces
  <2>. QED
    BY <1>5, <1>6, <1>8, <2>1, ReplacedLemma
<1>. QED
  BY <1>7, <1>8

\* The checks are passed: nothing changes but what the handler has read.
LEMMA ProceedLemma ==
  ASSUME Inv, See, UNCHANGED client, NEW r \in requests,
         NEW last \in RevisionType, Proceed(r, last)
  PROVE  /\ ClientInv' /\ seen \subseteq seen' /\ seen' \subseteq Words
         /\ store'.text \in seen' /\ comp'.text \in seen'
         /\ \A q \in requests' : \/ q \in requests
                                 \/ /\ q.kind = r.kind /\ q.time = r.time
                                    /\ q.rev = last /\ q.version = version
<1> DEFINE yes     == TRUE
           checked == [r EXCEPT !.checked = yes, !.rev = last, !.version = version]
<1>1. r \in RequestType /\ version \in Nat /\ yes \in BOOLEAN
  BY DEF Inv, ClientInv, ServerInv, ServerTypes, Asked
<1>2. requests' = (requests \ {r}) \cup {checked}
  BY DEF Proceed
<1> HIDE DEF yes
<1>3. /\ checked \in RequestType /\ checked.kind = r.kind
      /\ checked.instance = r.instance /\ checked.prev = r.prev
      /\ checked.text = r.text /\ checked.time = r.time /\ checked.step = r.step
      /\ checked.rev = last /\ checked.version = version
  BY <1>1 DEF RequestType
<1> HIDE DEF checked
<1>4. Replaces(checked, r) /\ (Pending(checked) <=> Pending(r))
  BY <1>3 DEF Replaces, Pending
<1>. QED
  BY <1>2, <1>3, <1>4, ReplacedLemma

-----------------------------------------------------------------------------
(* What they read and write.                                               *)

\* Handlers that have read keep what they have while nobody writes.
LEMMA HeldStays ==
  ASSUME Inv, UNCHANGED tables, seen \subseteq seen'
  PROVE  /\ \A p \in requests : \A q : SameHandler(q, p) => Held(q)'
         /\ \A o \in rivals : HeldByOther(o)'
<1>1. UNCHANGED <<entry, revisions, version>>
  BY DEF tables
<1>2. ASSUME NEW p \in requests, NEW q, SameHandler(q, p)
      PROVE  Held(q)'
  <2>1. Held(p)
    BY DEF Inv, ServerInv
  <2>. QED
    BY <1>1, <1>2, <2>1 DEF SameHandler, Held, Current
<1>3. ASSUME NEW o \in rivals
      PROVE  HeldByOther(o)'
  <2>1. HeldByOther(o)
    BY DEF Inv, ServerInv
  <2>. QED
    BY <1>1, <2>1 DEF HeldByOther, Current
<1>. QED
  BY <1>2, <1>3

\* What is left to show of a step that reads only.
LEMMA ReadingLemma ==
  ASSUME Inv, UNCHANGED tables, ClientInv',
         seen \subseteq seen', seen' \subseteq Words,
         store'.text \in seen', comp'.text \in seen',
         \A q \in requests' : Held(q)', \A o \in rivals' : HeldByOther(o)'
  PROVE  Inv'
<1>1. ServerTypes' /\ Consistent' /\ CreatedOnce' /\ (entry'.rows = 0 => revisions' = {})
  BY DEF Inv, ServerInv, ServerTypes, Consistent, CreatedOnce, Newest, tables
<1>2. Seen'
  BY DEF Inv, Seen, tables
<1>. QED
  BY <1>1, <1>2 DEF Inv, ServerInv

\* A refusal, or an answer without a change.
LEMMA AnsweredLemma ==
  ASSUME Inv, See, UNCHANGED <<client, server>>, NEW r \in requests,
         r.step \in {"sent", "late"}, NEW error \in Errors \cup {None},
         NEW content \in Contents \cup {NoContent}, Answer(r, error, content)
  PROVE  Inv'
<1>1. /\ ClientInv' /\ seen \subseteq seen' /\ seen' \subseteq Words
      /\ store'.text \in seen' /\ comp'.text \in seen'
      /\ \A q \in requests' : \E p \in requests : SameHandler(q, p)
  BY AnswerLemma
<1>2. UNCHANGED tables /\ rivals' = rivals
  BY DEF server
<1>3. \A q \in requests' : Held(q)'
  BY <1>1, <1>2, HeldStays
<1>. QED
  BY <1>1, <1>2, <1>3, HeldStays, ReadingLemma

\* The newest revisions exist only with the entry.
LEMMA NewestLemma ==
  ASSUME Inv, NEW last \in Newest
  PROVE  /\ last \in RevisionType /\ last \in revisions /\ entry.rows # 0
         /\ \A o \in revisions : o.time <= last.time
         /\ last.mine => last.text \in seen
  BY DEF Inv, ServerInv, ServerTypes, Newest, Seen

\* A refusal that tells the newest revision.
LEMMA RefuseLemma ==
  ASSUME Inv, See, UNCHANGED <<client, server>>, NEW r \in requests,
         r.step \in {"sent", "late"}, NEW error \in Errors \cup {None},
         NEW last \in Newest, Refuse(r, error, last)
  PROVE  Inv'
<1> DEFINE content == IF error = "concurrent_modification"
                      THEN [text |-> last.text, deleted |-> last.deleted]
                      ELSE NoContent
<1>1. content \in Contents \cup {NoContent}
  BY NewestLemma DEF RevisionType, Contents
<1>2. Answer(r, error, content)
  BY DEF Refuse
<1> HIDE DEF content
<1>. QED
  BY <1>1, <1>2, AnsweredLemma

\* The row, as an answer has it.
LEMMA RowLemma ==
  ASSUME ServerTypes
  PROVE  Row \in Contents
  BY DEF Row, ServerTypes, EntryType, Contents

\* A change goes ahead only if the session has seen what it replaces.
LEMMA NoConflict ==
  ASSUME Inv, NEW r \in requests, NEW last \in Newest, ~Conflict(r, last)
  PROVE  last.text \in seen
  BY NewestLemma DEF Inv, ClientInv, Asked, Conflict

\* A check that is passed: the handler has read the newest revision.
LEMMA PassedLemma ==
  ASSUME Inv, See, UNCHANGED <<client, server>>, NEW r \in requests,
         NEW last \in Newest, Proceed(r, last), ~Conflict(r, last),
         ~(last.time >= r.time), ~last.deleted, r.kind \in {"save", "delete"},
         r.kind = "save" => ~entry.deleted /\ entry.text = last.text
  PROVE  Inv'
<1>1. /\ last \in RevisionType /\ last \in revisions /\ entry.rows # 0
      /\ \A o \in revisions : o.time <= last.time
  BY NewestLemma
<1>2. /\ ClientInv' /\ seen \subseteq seen' /\ seen' \subseteq Words
      /\ store'.text \in seen' /\ comp'.text \in seen'
      /\ \A q \in requests' : \/ q \in requests
                              \/ /\ q.kind = r.kind /\ q.time = r.time
                                 /\ q.rev = last /\ q.version = version
  BY <1>1, ProceedLemma
<1>3. UNCHANGED tables /\ rivals' = rivals
  BY DEF server
<1>4. last.text \in seen /\ last.time < r.time
  <2>1. last.time \in Nat /\ r.time \in Nat
    BY <1>1, EntryAssumption DEF RevisionType, Inv, ClientInv, Asked, RequestType
  <2>. QED
    BY <2>1, NoConflict
<1>5. ASSUME NEW q \in requests' PROVE Held(q)'
  <2>1. CASE q \in requests
    BY <1>2, <1>3, <2>1, HeldStays DEF SameHandler
  <2>2. CASE /\ q.kind = r.kind /\ q.time = r.time
             /\ q.rev = last /\ q.version = version
    <3>1. /\ entry' = entry /\ revisions' = revisions /\ version' = version
          /\ version \in Nat
      BY <1>3 DEF tables, Inv, ServerInv, ServerTypes
    <3>2. Current(q)'
      BY <1>1, <1>4, <2>2, <3>1 DEF Current
    <3>. QED
      BY <1>1, <1>2, <1>4, <2>2, <3>1, <3>2 DEF Held
  <2>. QED
    BY <1>2, <2>1, <2>2
<1>. QED
  BY <1>2, <1>3, <1>5, HeldStays, ReadingLemma

\* updateEntry reads.
LEMMA CheckSaveLemma ==
  ASSUME Inv, See, NEW r \in requests, CheckSave(r)
  PROVE  Inv'
<1>1. /\ r.kind = "save" /\ r.step \in {"sent", "late"}
      /\ UNCHANGED <<client, server>>
  BY DEF CheckSave, Reading
<1>2. PICK last \in Newest :
        \/ \E error \in Errors \cup {None} : Refuse(r, error, last)
        \/ /\ ~entry.deleted /\ ~Corrupt(last) /\ ~Conflict(r, last)
           /\ ~(last.time >= r.time) /\ Proceed(r, last)
  BY DEF CheckSave, Errors
<1>3. CASE \E error \in Errors \cup {None} : Refuse(r, error, last)
  BY <1>1, <1>3, RefuseLemma
<1>4. CASE /\ ~entry.deleted /\ ~Corrupt(last) /\ ~Conflict(r, last)
           /\ ~(last.time >= r.time) /\ Proceed(r, last)
  <2>1. ~last.deleted /\ entry.text = last.text
    BY <1>4 DEF Corrupt
  <2>. QED
    BY <1>1, <1>4, <2>1, PassedLemma
<1>. QED
  BY <1>2, <1>3, <1>4

\* deleteEntry reads.
LEMMA CheckDeleteLemma ==
  ASSUME Inv, See, NEW r \in requests, CheckDelete(r)
  PROVE  Inv'
<1>1. /\ r.kind = "delete" /\ r.step \in {"sent", "late"}
      /\ UNCHANGED <<client, server>>
  BY DEF CheckDelete, Reading
<1>2. PICK last \in Newest :
        \/ \E content \in {Row, NoContent} : Answer(r, None, content)
        \/ \E error \in Errors \cup {None} : Refuse(r, error, last)
        \/ /\ ~last.deleted /\ ~Conflict(r, last)
           /\ ~(last.time >= r.time) /\ Proceed(r, last)
  BY DEF CheckDelete, Errors
<1>3. CASE \E content \in {Row, NoContent} : Answer(r, None, content)
  <2>1. Row \in Contents
    BY RowLemma DEF Inv, ServerInv
  <2>. QED
    BY <1>1, <1>3, <2>1, AnsweredLemma
<1>4. CASE \E error \in Errors \cup {None} : Refuse(r, error, last)
  BY <1>1, <1>4, RefuseLemma
<1>5. CASE /\ ~last.deleted /\ ~Conflict(r, last)
           /\ ~(last.time >= r.time) /\ Proceed(r, last)
  BY <1>1, <1>5, PassedLemma
<1>. QED
  BY <1>2, <1>3, <1>4, <1>5

\* createEntry reads.
LEMMA CheckCreateLemma ==
  ASSUME Inv, See, NEW r \in requests, CheckCreate(r)
  PROVE  Inv'
<1>1. /\ r.kind = "create" /\ r.step \in {"sent", "late"}
      /\ UNCHANGED <<client, server>>
  BY DEF CheckCreate, Reading
<1>2. CASE Proceed(r, NoRevision)
  <2>1. NoRevision \in RevisionType
    BY EntryAssumption DEF NoRevision, RevisionType, Words
  <2>2. /\ ClientInv' /\ seen \subseteq seen' /\ seen' \subseteq Words
        /\ store'.text \in seen' /\ comp'.text \in seen'
        /\ \A q \in requests' : q \in requests \/ q.kind = r.kind
    BY <1>1, <1>2, <2>1, ProceedLemma
  <2>3. UNCHANGED tables /\ rivals' = rivals
    BY <1>1 DEF server
  <2>4. \A q \in requests' : Held(q)'
    <3>1. ASSUME NEW q \in requests' PROVE Held(q)'
      <4>1. CASE q \in requests
        BY <2>2, <2>3, <4>1, HeldStays DEF SameHandler
      <4>2. CASE q.kind = r.kind
        BY <1>1, <4>2 DEF Held
      <4>. QED
        BY <2>2, <4>1, <4>2
    <3>. QED
      BY <3>1
  <2>. QED
    BY <2>2, <2>3, <2>4, HeldStays, ReadingLemma
<1>3. CASE \E content \in {Row, NoContent} : Answer(r, None, content)
  <2>1. Row \in Contents
    BY RowLemma DEF Inv, ServerInv
  <2>. QED
    BY <1>1, <1>3, <2>1, AnsweredLemma
<1>. QED
  BY <1>2, <1>3 DEF CheckCreate

\* What a write leaves.  As long as the handler's reading is up to date, its
\* revision has to be later than all others and agree with the row.
LEMMA WriteLemma ==
  ASSUME Inv, NEW text \in Words, NEW deleted \in BOOLEAN,
         NEW row \in RevisionType, NEW read \in Nat,
         Write(text, deleted, row, read), entry.rows # 0,
         seen \subseteq seen', row.mine => row.text \in seen,
         read = version => \A o \in revisions : o.time < row.time,
         read = version /\ ~overlapped => row.text = text /\ row.deleted = deleted
  PROVE  /\ ServerTypes' /\ Consistent' /\ CreatedOnce' /\ entry'.rows # 0
         /\ \A o \in revisions' : o.mine => o.text \in seen'
         /\ \A p \in requests : \A q : SameHandler(q, p) => Held(q)'
         /\ \A o \in rivals : HeldByOther(o)'
<1> DEFINE new == [entry EXCEPT !.text = text, !.deleted = deleted]
<1>1. /\ entry \in EntryType /\ revisions \subseteq RevisionType /\ version \in Nat
      /\ overlapped \in BOOLEAN
  BY DEF Inv, ServerInv, ServerTypes
<1>2. /\ new \in EntryType /\ new.rows = entry.rows /\ new.text = text
      /\ new.deleted = deleted
  BY <1>1 DEF EntryType
<1>3. /\ entry' = new /\ version' = version + 1
      /\ revisions' = {o \in revisions : o.id # row.id} \cup {row}
      /\ overlapped' = (overlapped \/ read # version)
  BY DEF Write
<1> HIDE DEF new
<1>4. ServerTypes'
  <2>1. revisions' \subseteq RevisionType /\ version' \in Nat
    BY <1>1, <1>3
  <2>2. overlapped' \in BOOLEAN
    BY <1>1, <1>3
  <2>. QED
    BY <1>2, <1>3, <2>1, <2>2 DEF ServerTypes
<1>5. Consistent'
  <2>1. CASE overlapped'
    BY <2>1 DEF Consistent
  <2>2. CASE ~overlapped'
    <3>1. ~overlapped /\ read = version
      BY <1>3, <2>2
    <3>2. row.text = text /\ row.deleted = deleted
      BY <3>1
    <3>3. ASSUME NEW n \in Newest' PROVE n = row
      <4>1. n \in revisions' /\ row \in revisions'
        BY <1>3, <3>3 DEF Newest
      <4>2. row.time <= n.time
        BY <3>3, <4>1 DEF Newest
      <4>3. n # row => n \in revisions
        BY <1>3, <4>1
      <4>4. n # row => n.time < row.time
        BY <3>1, <4>3
      <4>5. n # row => n.time \in Nat /\ row.time \in Nat
        BY <1>1, <4>3, EntryAssumption DEF RevisionType
      <4>. QED
        BY <4>2, <4>4, <4>5
    <3>. QED
      BY <1>2, <1>3, <3>2, <3>3 DEF Consistent
  <2>. QED
    BY <2>1, <2>2
<1>6. CreatedOnce' /\ entry'.rows # 0
  BY <1>2, <1>3 DEF Inv, ServerInv, CreatedOnce
<1>7. \A o \in revisions' : o.mine => o.text \in seen'
  BY <1>3 DEF Inv, Seen
<1>8. ASSUME NEW p \in requests, NEW q, SameHandler(q, p)
      PROVE  Held(q)'
  <2>1. Held(p) /\ p.version \in Nat
    BY DEF Inv, ClientInv, ServerInv, Asked, RequestType
  <2>2. p.version <= version => p.version # version' /\ p.version <= version'
    BY <1>1, <1>3, <2>1
  <2>. QED
    BY <1>6, <1>8, <2>1, <2>2 DEF SameHandler, Held
<1>9. ASSUME NEW o \in rivals
      PROVE  HeldByOther(o)'
  <2>1. HeldByOther(o) /\ o.version \in Nat
    BY DEF Inv, ServerInv, HeldByOther, RivalType
  <2>2. o.version # version' /\ o.version <= version'
    BY <1>1, <1>3, <2>1 DEF HeldByOther
  <2>. QED
    BY <1>6, <2>1, <2>2 DEF HeldByOther
<1>. QED
  BY <1>4, <1>5, <1>6, <1>7, <1>8, <1>9

\* What is left of the invariant once a request that has written is answered.
LEMMA WrittenLemma ==
  ASSUME Inv, See, UNCHANGED <<client, rivals>>, NEW r \in requests,
         r.step \in {"sent", "late"}, NEW error \in Errors \cup {None},
         NEW content \in Contents \cup {NoContent}, Answer(r, error, content),
         ServerTypes', Consistent', CreatedOnce', entry'.rows # 0,
         \A o \in revisions' : o.mine => o.text \in seen',
         \A p \in requests : \A q : SameHandler(q, p) => Held(q)',
         \A o \in rivals : HeldByOther(o)'
  PROVE  Inv'
<1>1. /\ ClientInv' /\ seen' \subseteq Words
      /\ store'.text \in seen' /\ comp'.text \in seen'
      /\ \A q \in requests' : \E p \in requests : SameHandler(q, p)
  BY AnswerLemma
<1>2. \A q \in requests' : Held(q)'
  BY <1>1
<1>. QED
  BY <1>1, <1>2 DEF Inv, ServerInv, Seen

\* The session sees no less after a step of the keyserver.
LEMMA StillSeen ==
  ASSUME Inv, See
  PROVE  seen \subseteq seen'
  BY DEF See

\* updateEntry writes.  If nobody has written since it has read, the session
\* has seen the text it replaces.
LEMMA WriteSaveLemma ==
  ASSUME Inv, See, NEW r \in requests, WriteSave(r)
  PROVE  Inv' /\ (r.version = version => entry.text \in seen)
<1>1. /\ r.kind = "save" /\ r.step \in {"sent", "late"} /\ r.checked
      /\ UNCHANGED <<client, rivals>> /\ Answer(r, None, Row')
  BY DEF WriteSave, Writing
<1>2. /\ r \in RequestType /\ r.text \in Words /\ r.text \in seen
      /\ Held(r)
  BY <1>1 DEF Inv, ClientInv, ServerInv, Asked, Seen
<1>3. PICK id \in {version + 1} \cup (IF r.rev.mine THEN {r.rev.id} ELSE {}) :
        Write(r.text, entry.deleted,
              [id |-> id, mine |-> TRUE, text |-> r.text, deleted |-> FALSE,
               time |-> r.time],
              r.version)
  BY DEF WriteSave
<1> DEFINE row == [id |-> id, mine |-> TRUE, text |-> r.text, deleted |-> FALSE,
                   time |-> r.time]
<1>4. id \in Nat
  BY <1>2, <1>3 DEF Inv, ServerInv, ServerTypes, RequestType, RevisionType
<1>5. /\ row \in RevisionType /\ row.text = r.text /\ row.deleted = FALSE
      /\ row.time = r.time
  BY <1>2, <1>4 DEF RevisionType, RequestType
<1>6. Write(r.text, entry.deleted, row, r.version)
  BY <1>3
<1> HIDE DEF row
<1>7. /\ entry.rows # 0 /\ entry \in EntryType /\ entry.deleted \in BOOLEAN
      /\ revisions \subseteq RevisionType /\ r.version \in Nat
  BY <1>1, <1>2 DEF Held, Inv, ServerInv, ServerTypes, EntryType, RequestType
<1>8. ASSUME r.version = version
      PROVE  /\ \A o \in revisions : o.time < row.time
             /\ entry.deleted = FALSE /\ entry.text \in seen
  <2>1. /\ Current(r) /\ ~entry.deleted /\ entry.text = r.rev.text
        /\ r.rev.text \in seen
    BY <1>1, <1>2, <1>8 DEF Held
  <2>2. ASSUME NEW o \in revisions PROVE o.time < r.time
    <3>1. o.time <= r.rev.time /\ r.rev.time < r.time
      BY <2>1 DEF Current
    <3>2. o.time \in Nat /\ r.rev.time \in Nat /\ r.time \in Nat
      BY <1>2, <1>7, EntryAssumption DEF RevisionType, RequestType
    <3>. QED
      BY <3>1, <3>2
  <2>. QED
    BY <1>5, <1>7, <2>1, <2>2
<1>9. seen \subseteq seen'
  BY StillSeen
<1>10. /\ ServerTypes' /\ Consistent' /\ CreatedOnce' /\ entry'.rows # 0
       /\ \A o \in revisions' : o.mine => o.text \in seen'
       /\ \A p \in requests : \A q : SameHandler(q, p) => Held(q)'
       /\ \A o \in rivals : HeldByOther(o)'
  BY <1>2, <1>5, <1>6, <1>7, <1>8, <1>9, WriteLemma
<1>11. Row' \in Contents
  BY <1>10 DEF Row, ServerTypes, EntryType, Contents
<1>. QED
  BY <1>1, <1>8, <1>10, <1>11, WrittenLemma

\* So does deleteEntry; it keeps the text it has read.
LEMMA WriteDeleteLemma ==
  ASSUME Inv, See, NEW r \in requests, WriteDelete(r)
  PROVE  Inv' /\ (r.version = version => \E n \in Newest : n.text \in seen)
<1>1. /\ r.kind = "delete" /\ r.step \in {"sent", "late"} /\ r.checked
      /\ UNCHANGED <<client, rivals>> /\ Answer(r, None, Row')
  BY DEF WriteDelete, Writing
<1>2. r \in RequestType /\ Held(r)
  BY DEF Inv, ClientInv, ServerInv, Asked
<1> DEFINE yes == TRUE
           row == [id |-> version + 1, mine |-> TRUE, text |-> r.rev.text,
                   deleted |-> yes, time |-> r.time]
<1>3. /\ version + 1 \in Nat /\ r.rev.text \in Words /\ r.time \in 0..MaxTime
      /\ yes \in BOOLEAN
  BY <1>2 DEF Inv, ServerInv, ServerTypes, RequestType, RevisionType
<1>4. /\ row \in RevisionType /\ row.text = r.rev.text /\ row.deleted = yes
      /\ row.time = r.time
  BY <1>3 DEF RevisionType
<1>5. Write(entry.text, yes, row, r.version)
  BY DEF WriteDelete
<1> HIDE DEF row, yes
<1>6. /\ entry.rows # 0 /\ entry.text \in Words /\ r.rev.text \in seen
      /\ revisions \subseteq RevisionType /\ r.version \in Nat
  BY <1>1, <1>2 DEF Held, Inv, ServerInv, ServerTypes, EntryType, RequestType
<1>7. ASSUME r.version = version
      PROVE  /\ \A o \in revisions : o.time < row.time
             /\ r.rev \in Newest
  <2>1. Current(r)
    BY <1>1, <1>2, <1>7 DEF Held
  <2>2. ASSUME NEW o \in revisions PROVE o.time < r.time
    <3>1. o.time <= r.rev.time /\ r.rev.time < r.time
      BY <2>1 DEF Current
    <3>2. o.time \in Nat /\ r.rev.time \in Nat /\ r.time \in Nat
      BY <1>2, <1>6, EntryAssumption DEF RevisionType, RequestType
    <3>. QED
      BY <3>1, <3>2
  <2>. QED
    BY <1>4, <2>1, <2>2 DEF Current, Newest
<1>8. r.version = version /\ ~overlapped => row.text = entry.text
  BY <1>4, <1>6, <1>7 DEF Inv, ServerInv, Consistent
<1>9. seen \subseteq seen'
  BY StillSeen
<1>10. /\ ServerTypes' /\ Consistent' /\ CreatedOnce' /\ entry'.rows # 0
       /\ \A o \in revisions' : o.mine => o.text \in seen'
       /\ \A p \in requests : \A q : SameHandler(q, p) => Held(q)'
       /\ \A o \in rivals : HeldByOther(o)'
  BY <1>3, <1>4, <1>5, <1>6, <1>7, <1>8, <1>9, WriteLemma
<1>11. Row' \in Contents
  BY <1>10 DEF Row, ServerTypes, EntryType, Contents
<1>. QED
  BY <1>1, <1>6, <1>7, <1>10, <1>11, WrittenLemma

\* createEntry writes: the first row, or none.
LEMMA WriteCreateLemma ==
  ASSUME Inv, See, NEW r \in requests, WriteCreate(r)
  PROVE  Inv'
<1>1. /\ r.kind = "create" /\ r.step \in {"sent", "late"}
      /\ UNCHANGED <<client, rivals>>
  BY DEF WriteCreate, Writing
<1>2. CASE entry.rows # 0
  <2>1. Answer(r, "unknown_error", NoContent) /\ UNCHANGED tables
    BY <1>2 DEF WriteCreate
  <2>. QED
    BY <1>1, <2>1, AnsweredLemma DEF server, Errors
<1>3. CASE entry.rows = 0
  <2>0. Insert(r)
    BY <1>3 DEF WriteCreate
  <2>1. /\ r.text \in Words /\ r.text \in seen /\ r.time \in 0..MaxTime
        /\ version \in Nat /\ revisions = {}
    BY <1>1, <1>3 DEF Inv, ClientInv, ServerInv, ServerTypes, Asked, RequestType, Seen
  <2> DEFINE row == [rows |-> 1, text |-> r.text, deleted |-> FALSE]
             rev == [id |-> version + 1, mine |-> TRUE, text |-> r.text,
                     deleted |-> FALSE, time |-> r.time]
  <2>2. /\ row \in EntryType /\ row.rows = 1 /\ row.text = r.text
        /\ row.deleted = FALSE
    BY <2>1 DEF EntryType
  <2>3. rev \in RevisionType /\ rev.text = r.text /\ rev.deleted = FALSE
    BY <2>1 DEF RevisionType
  <2>4. /\ entry' = row /\ revisions' = {rev} /\ version' = version + 1
        /\ overlapped' = overlapped
    BY <1>3, <2>0, <2>1 DEF Insert
  <2> HIDE DEF row, rev
  <2>5. seen \subseteq seen'
    BY StillSeen
  <2>6. ServerTypes' /\ CreatedOnce' /\ entry'.rows # 0
    BY <2>1, <2>2, <2>3, <2>4 DEF ServerTypes, CreatedOnce, Inv, ServerInv
  <2>7. Consistent'
    <3>1. \A n \in Newest' : n = rev
      BY <2>4 DEF Newest
    <3>. QED
      BY <2>2, <2>3, <2>4, <3>1 DEF Consistent
  <2>8. \A o \in revisions' : o.mine => o.text \in seen'
    BY <2>1, <2>3, <2>4, <2>5
  <2>9. \A p \in requests : \A q : SameHandler(q, p) => Held(q)'
    <3>1. ASSUME NEW p \in requests PROVE ~p.checked \/ p.kind = "create"
      BY <1>3 DEF Inv, ServerInv, Held
    <3>. QED
      BY <3>1 DEF SameHandler, Held
  <2>10. \A o \in rivals : HeldByOther(o)'
    BY <1>3 DEF Inv, ServerInv, HeldByOther
  <2>11. Row' \in Contents
    BY <2>6 DEF Row, ServerTypes, EntryType, Contents
  <2>12. PICK content \in {Row', NoContent} : Answer(r, None, content)
    BY <2>0 DEF Insert
  <2>. QED
    BY <1>1, <2>6, <2>7, <2>8, <2>9, <2>10, <2>11, <2>12, WrittenLemma
<1>. QED
  BY <1>2, <1>3

\* Another session's handler reads.
LEMMA OtherChecksLemma ==
  ASSUME Inv, See, NEW d \in BOOLEAN, OtherChecks(d)
  PROVE  Inv'
<1>1. UNCHANGED <<client, requests, tables>> /\ entry.rows # 0 /\ ~entry.deleted
  BY DEF OtherChecks
<1>2. PICK last \in Newest :
        /\ ~Corrupt(last)
        /\ \E text \in IF d THEN {last.text} ELSE OtherTexts \ {last.text},
              time \in (last.time + 1)..MaxTime :
             rivals' = rivals \cup
               {[text |-> text, deleted |-> d, time |-> time,
                 rev |-> last, version |-> version]}
  BY DEF OtherChecks
<1>3. PICK text \in IF d THEN {last.text} ELSE OtherTexts \ {last.text},
           time \in (last.time + 1)..MaxTime :
        rivals' = rivals \cup
          {[text |-> text, deleted |-> d, time |-> time,
            rev |-> last, version |-> version]}
  BY <1>2
<1>0. PICK rival : rival = [text |-> text, deleted |-> d, time |-> time,
                            rev |-> last, version |-> version]
  OBVIOUS
<1>4. /\ last \in RevisionType /\ last \in revisions
      /\ \A o \in revisions : o.time <= last.time
  BY NewestLemma
<1>5. text \in Words /\ (d => text = last.text)
  BY <1>3, <1>4 DEF RevisionType, Words
<1>6. time \in 0..MaxTime /\ last.time < time /\ version \in Nat
  BY <1>4, EntryAssumption DEF RevisionType, Inv, ServerInv, ServerTypes
<1>7. /\ rival \in RivalType /\ rival.rev = last /\ rival.version = version
      /\ rival.time = time /\ rival.deleted = d /\ rival.text = text
  BY <1>0, <1>4, <1>5, <1>6 DEF RivalType
<1>8. rivals' = rivals \cup {rival}
  BY <1>0, <1>3
<1>9. ~last.deleted /\ entry.text = last.text
  BY <1>2 DEF Corrupt
<1>10. HeldByOther(rival)'
  <2>1. entry' = entry /\ revisions' = revisions /\ version' = version
    BY <1>1 DEF tables
  <2>2. Current(rival)'
    BY <1>4, <1>6, <1>7, <1>9, <2>1 DEF Current
  <2>. QED
    BY <1>1, <1>5, <1>6, <1>7, <1>9, <2>1, <2>2 DEF HeldByOther
<1>11. ClientInv' /\ comp' = comp /\ store' = store /\ requests' = requests
  BY <1>1, StillSeen DEF Inv, ClientInv, ClientTypes, Creations, Asked, client
<1>12. /\ seen \subseteq seen' /\ seen' \subseteq Words
       /\ store'.text \in seen' /\ comp'.text \in seen'
  BY <1>11, SeenGrows DEF Inv, Seen, ClientInv, ClientTypes
<1>13. \A q \in requests' : Held(q)'
  BY <1>1, <1>11, <1>12, HeldStays DEF SameHandler
<1>14. \A o \in rivals' : HeldByOther(o)'
  BY <1>1, <1>8, <1>10, <1>12, HeldStays
<1>. QED
  BY <1>1, <1>11, <1>12, <1>13, <1>14, ReadingLemma

\* It writes.
LEMMA OtherWritesLemma ==
  ASSUME Inv, See, NEW o \in rivals, OtherWrites(o)
  PROVE  Inv'
<1>1. UNCHANGED <<client, requests>> /\ rivals' = rivals \ {o}
  BY DEF OtherWrites
<1>2. HeldByOther(o) /\ o \in RivalType
  BY DEF Inv, ServerInv, HeldByOther
<1> DEFINE text    == IF o.deleted THEN entry.text ELSE o.text
           deleted == entry.deleted \/ o.deleted
<1>3. PICK id \in {version + 1}
                    \cup (IF o.deleted \/ o.rev.mine THEN {} ELSE {o.rev.id}) :
        Write(text, deleted,
              [id |-> id, mine |-> FALSE, text |-> o.text,
               deleted |-> o.deleted, time |-> o.time],
              o.version)
  BY DEF OtherWrites
<1> DEFINE row == [id |-> id, mine |-> FALSE, text |-> o.text,
                   deleted |-> o.deleted, time |-> o.time]
<1>4. id \in Nat
  BY <1>2, <1>3 DEF Inv, ServerInv, ServerTypes, RivalType, RevisionType
<1>5. /\ row \in RevisionType /\ row.text = o.text /\ row.deleted = o.deleted
      /\ row.time = o.time /\ ~row.mine
  BY <1>2, <1>4 DEF RevisionType, RivalType
<1>6. Write(text, deleted, row, o.version)
  BY <1>3
<1> HIDE DEF row
<1>7. /\ entry.rows # 0 /\ entry \in EntryType /\ revisions \subseteq RevisionType
      /\ o.version \in Nat
  BY <1>2 DEF HeldByOther, Inv, ServerInv, ServerTypes, RivalType
<1>8. text \in Words /\ deleted \in BOOLEAN
  BY <1>2, <1>7 DEF EntryType, RivalType
<1>9. ASSUME o.version = version
      PROVE  /\ \A x \in revisions : x.time < row.time
             /\ o.rev \in Newest
             /\ text = o.text /\ deleted = o.deleted
  <2>1. /\ Current(o) /\ ~entry.deleted /\ entry.text = o.rev.text
        /\ o.deleted => o.text = o.rev.text
    BY <1>2, <1>9 DEF HeldByOther
  <2>2. ASSUME NEW x \in revisions PROVE x.time < o.time
    <3>1. x.time <= o.rev.time /\ o.rev.time < o.time
      BY <2>1 DEF Current
    <3>2. x.time \in Nat /\ o.rev.time \in Nat /\ o.time \in Nat
      BY <1>2, <1>7, EntryAssumption DEF RevisionType, RivalType
    <3>. QED
      BY <3>1, <3>2
  <2>3. deleted = o.deleted
    BY <1>2, <2>1 DEF RivalType
  <2>. QED
    BY <1>5, <2>1, <2>2, <2>3 DEF Current, Newest
<1> HIDE DEF text, deleted
<1>10. /\ seen \subseteq seen' /\ seen' \subseteq Words
       /\ store'.text \in seen' /\ comp'.text \in seen'
  BY <1>1, SeenGrows DEF Inv, Seen, ClientInv, ClientTypes, client
<1>11. /\ ServerTypes' /\ Consistent' /\ CreatedOnce' /\ entry'.rows # 0
       /\ \A x \in revisions' : x.mine => x.text \in seen'
       /\ \A p \in requests : \A q : SameHandler(q, p) => Held(q)'
       /\ \A x \in rivals : HeldByOther(x)'
  <2>1. o.version = version /\ ~overlapped => row.text = text /\ row.deleted = deleted
    BY <1>5, <1>9
  <2>. QED
    BY <1>5, <1>6, <1>7, <1>8, <1>9, <1>10, <2>1, WriteLemma
<1>12. ClientInv'
  BY <1>1, <1>10 DEF Inv, ClientInv, ClientTypes, Creations, Asked, client
<1>13. \A q \in requests' : Held(q)'
  BY <1>1, <1>11 DEF SameHandler
<1>. QED
  BY <1>1, <1>10, <1>11, <1>12, <1>13 DEF Inv, ServerInv, Seen
-----------------------------------------------------------------------------
(* What the client's steps do to the creations.                            *)

\* Requests that are no creations change nothing about them.
LEMMA Unasked ==
  ASSUME NEW c, NEW d, NEW reqs, NEW added, CreationsOf(c, reqs),
         d.instance = c.instance, d.creating <=> c.creating,
         \A q \in added : ~Pending(q)
  PROVE  CreationsOf(d, reqs \cup added)
  BY DEF CreationsOf

\* A creation that ends is waited for no longer.
LEMMA EndedLemma ==
  ASSUME NEW c, NEW d, NEW reqs, NEW r \in reqs, CreationsOf(c, reqs),
         d.instance = c.instance,
         d.creating <=> c.creating /\ ~(Pending(r) /\ r.instance = c.instance)
  PROVE  CreationsOf(d, reqs \ {r})
  BY DEF CreationsOf

\* dispatchSave starts a creation only if there is none.
LEMMA AskedLemma ==
  ASSUME NEW c \in CompType, NEW id \in BOOLEAN, NEW o, NEW reqs,
         CreationsOf(c, reqs), Dispatched(o, c, id)
  PROVE  CreationsOf(o[1], reqs \cup o[2])
<1>1. CASE id \/ o[2] = {}
  <2>1. \A q \in o[2] : ~Pending(q)
    BY <1>1 DEF Dispatched, Pending
  <2>2. o[1].instance = c.instance /\ (o[1].creating <=> c.creating)
    BY <1>1 DEF Dispatched
  <2>. QED
    BY <2>1, <2>2, Unasked
<1>2. CASE ~id /\ o[2] # {}
  <2>1. /\ ~c.creating /\ o[1].creating /\ o[1].instance = c.instance
        /\ \A r, q \in o[2] : r = q
        /\ \A r \in o[2] : r.kind = "create" /\ r.step = "sent"
                           /\ r.instance = c.instance
    BY <1>2 DEF Dispatched
  <2>2. \A r \in reqs : ~(Pending(r) /\ r.instance = c.instance)
    BY <2>1 DEF CreationsOf
  <2>. QED
    BY <1>2, <2>1, <2>2 DEF CreationsOf, Pending
<1>. QED
  BY <1>1, <1>2

\* A request that the component has just sent.
Fresh(q, c) ==
  /\ q \in RequestType /\ q.instance = c.instance /\ ~q.checked
  /\ q.prev \in seen /\ (q.kind # "delete" => q.text \in seen)

\* A step of the client: the component becomes c, and is rendered anew.
LEMMA MovesLemma ==
  ASSUME Inv, See, UNCHANGED server,
         NEW c \in CompType, c.instance = comp.instance, Follows(comp', c),
         alert' \in AlertType, store' \in StoreType, clock' \in 1..MaxTime,
         CreationsOf(c, requests'),
         \A q \in requests' :
           \/ q \in requests
           \/ \E p \in requests : Replaces(q, p) /\ SameHandler(q, p)
           \/ Fresh(q, c)
  PROVE  Inv'
<1>1. comp' \in CompType /\ c.instance \in Nat
  BY DEF Follows, CompType
<1>2. /\ seen \subseteq seen' /\ seen' \subseteq Words
      /\ store'.text \in seen' /\ comp'.text \in seen'
  BY <1>1, SeenGrows DEF Inv, Seen
<1>3. comp'.instance = c.instance \/ comp'.instance = c.instance + 1
  BY DEF Follows
<1>4. ASSUME NEW q \in requests' PROVE Asked(q)' /\ q.instance <= c.instance
  <2>1. ASSUME NEW p \in requests, Replaces(q, p) \/ q = p
        PROVE  Asked(q)' /\ q.instance <= c.instance
    <3>1. Asked(p) /\ p.instance \in Nat
      BY DEF Inv, ClientInv, Asked, RequestType
    <3>2. /\ q \in RequestType /\ q.prev \in seen'
          /\ (q.kind # "delete" => q.text \in seen') /\ q.instance <= c.instance
      BY <1>2, <2>1, <3>1 DEF Replaces, Asked
    <3>3. q.instance <= comp'.instance
      BY <1>1, <1>3, <3>2 DEF RequestType
    <3>. QED
      BY <3>2, <3>3 DEF Asked
  <2>2. CASE Fresh(q, c)
    BY <1>1, <1>2, <1>3, <2>2 DEF Fresh, Asked
  <2>. QED
    BY <2>1, <2>2
<1>5. Creations'
  <2>1. CASE comp'.instance = c.instance /\ comp'.creating = c.creating
    BY <2>1 DEF Creations, CreationsOf
  <2>2. CASE comp'.instance = c.instance + 1 /\ ~comp'.creating
    <3>1. \A q \in requests' : q.instance # c.instance + 1
      BY <1>1, <1>4 DEF Asked, RequestType
    <3>. QED
      BY <2>2, <3>1 DEF Creations, CreationsOf
  <2>. QED
    BY <2>1, <2>2 DEF Follows
<1>6. UNCHANGED tables /\ rivals' = rivals
  BY DEF server
<1>7. ASSUME NEW q \in requests' PROVE Held(q)'
  <2>1. CASE q \in requests
    BY <1>2, <1>6, <2>1, HeldStays DEF SameHandler
  <2>2. CASE \E p \in requests : SameHandler(q, p)
    BY <1>2, <1>6, <2>2, HeldStays
  <2>3. CASE Fresh(q, c)
    BY <2>3 DEF Fresh, Held
  <2>. QED
    BY <2>1, <2>2, <2>3
<1>8. ClientInv'
  BY <1>1, <1>4, <1>5 DEF ClientInv, ClientTypes
<1>. QED
  BY <1>2, <1>6, <1>7, <1>8, HeldStays, ReadingLemma

\* The component follows itself.
LEMMA FollowsItself ==
  ASSUME NEW c \in CompType
  PROVE  Follows(c, c)
  BY DEF Follows

\* What the invariant says of the client.
LEMMA ClientFacts ==
  ASSUME Inv
  PROVE  /\ comp \in CompType /\ alert \in AlertType /\ store \in StoreType
         /\ clock \in 1..MaxTime /\ clock \in 0..MaxTime /\ store.id \in BOOLEAN
         /\ CreationsOf(comp, requests)
         /\ store.text \in seen /\ comp.text \in seen
  BY EntryAssumption DEF Inv, ClientInv, ClientTypes, Creations, Seen, StoreType
-----------------------------------------------------------------------------
(* The user's actions.                                                     *)

\* Nothing is asked.
LEMMA Waiting ==
  ASSUME Inv, See, UNCHANGED server, requests' = requests,
         NEW c \in CompType, c.instance = comp.instance,
         c.creating <=> comp.creating, Follows(comp', c),
         alert' \in AlertType, store' \in StoreType, clock' \in 1..MaxTime
  PROVE  Inv'
<1>1. CreationsOf(c, requests')
  BY ClientFacts DEF CreationsOf
<1>. QED
  BY <1>1, MovesLemma

\* The user types.
LEMMA TypeLemma ==
  ASSUME Inv, See, NEW t \in Words, Type(t)
  PROVE  Inv'
<1> DEFINE new == [comp EXCEPT !.editing = TRUE, !.text = t]
<1>1. /\ new \in CompType /\ new.instance = comp.instance
      /\ new.creating = comp.creating
  BY ClientFacts DEF CompType
<1>2. /\ comp' = new /\ UNCHANGED <<alert, store, server, clock>>
      /\ requests' = requests
  BY DEF Type
<1> HIDE DEF new
<1>3. /\ alert' \in AlertType /\ store' \in StoreType /\ clock' \in 1..MaxTime
      /\ UNCHANGED server
  BY <1>2, ClientFacts
<1>. QED
  BY <1>1, <1>2, <1>3, FollowsItself, Waiting

\* The user acknowledges the alert about a concurrent change.
LEMMA RefreshLemma ==
  ASSUME Inv, See, Refresh
  PROVE  Inv'
<1> DEFINE told == comp.shown /\ alert.instance = comp.instance
           one  == [comp EXCEPT !.text = alert.text, !.status = "inactive"]
           c    == IF told THEN one ELSE comp
           new  == [store EXCEPT !.text = alert.text]
           read == [alert EXCEPT !.text = None]
<1>1. comp \in CompType /\ store \in StoreType /\ alert.text \in Words
  BY ClientFacts DEF AlertType, Refresh
<1>2. new \in StoreType /\ read \in AlertType
  BY <1>1, ClientFacts DEF StoreType, AlertType
<1>3. one \in CompType /\ one.instance = comp.instance /\ one.creating = comp.creating
  BY <1>1 DEF CompType
<1>4. /\ comp' = Rendered(c, store, store') /\ (store' = new \/ store' = store)
      /\ alert' = read /\ requests' = requests /\ UNCHANGED <<server, clock>>
  BY DEF Refresh
<1> HIDE DEF one, new, read, told
<1>5. c \in CompType /\ c.instance = comp.instance /\ c.creating = comp.creating
  BY <1>1, <1>3
<1> HIDE DEF c
<1>6. store' \in StoreType /\ clock' \in 1..MaxTime /\ UNCHANGED server
  BY <1>1, <1>2, <1>4, ClientFacts
<1>7. Follows(comp', c)
  BY <1>1, <1>4, <1>5, <1>6, RenderedLemma
<1>. QED
  BY <1>2, <1>4, <1>5, <1>6, <1>7, Waiting

\* dispatchSave of the component as it is, or not being edited any more.
LEMMA SaysSave ==
  ASSUME Inv, See, NEW c \in CompType, NEW id \in BOOLEAN,
         c.text = comp.text, c.instance = comp.instance,
         c.creating = comp.creating, id = store.id,
         clock' \in 1..MaxTime, UNCHANGED <<alert, store, server>>,
         Send(DispatchSave(c, id, clock'))
  PROVE  Inv'
<1> DEFINE o == DispatchSave(c, id, clock')
<1>1. store \in StoreType /\ clock' \in 0..MaxTime
  BY ClientFacts
<1>2. Dispatched(o, c, id)
  BY <1>1, DispatchSaveLemma
<1>3. comp' = o[1] /\ requests' = requests \cup o[2]
  BY DEF Send
<1> HIDE DEF o
<1>4. CreationsOf(c, requests)
  BY ClientFacts DEF CreationsOf
<1>5. CreationsOf(comp', requests')
  BY <1>2, <1>3, <1>4, AskedLemma
<1>6. comp' \in CompType /\ comp'.instance = comp.instance
  BY <1>2, <1>3 DEF Dispatched
<1>7. \A q \in o[2] : Fresh(q, comp')
  BY <1>2, <1>3, <1>6, ClientFacts DEF Dispatched, Fresh
<1>8. alert' \in AlertType /\ store' \in StoreType /\ UNCHANGED server
  BY ClientFacts
<1>9. Follows(comp', comp')
  BY <1>6, FollowsItself
<1>10. PICK d \in CompType : d = comp'
  BY <1>6
<1>. QED
  BY <1>3, <1>5, <1>6, <1>7, <1>8, <1>9, <1>10, MovesLemma

\* Deleting: the component is hidden, and the entry deleted in the store, if
\* it is found there.
LEMMA SaysDelete ==
  ASSUME Inv, See, NEW c \in CompType,
         c.text = comp.text, c.instance = comp.instance,
         c.creating = comp.creating, clock' \in 1..MaxTime,
         UNCHANGED <<alert, server>>, Delete(c)
  PROVE  Inv'
<1> DEFINE o     == DispatchDelete(c, store.id, clock')
           found == store.id \/ store.key = "local"
           shown == o[1].shown /\ ~found
           gone  == store.deleted \/ found
           shut  == [o[1] EXCEPT !.shown = shown]
           new   == [store EXCEPT !.deleted = gone]
<1>1. store \in StoreType /\ clock' \in 0..MaxTime /\ store.id \in BOOLEAN
  BY ClientFacts
<1>2. /\ o[1] \in CompType /\ o[2] \subseteq RequestType
      /\ o[1].text = c.text /\ o[1].instance = c.instance
      /\ o[1].creating = c.creating
      /\ \A r \in o[2] : /\ store.id /\ r.kind = "delete"
                         /\ r.step = "sent" /\ r.prev = store.text
                         /\ r.instance = c.instance /\ ~r.checked
  BY <1>1, DispatchDeleteLemma
<1>3. comp' = shut /\ requests' = requests \cup o[2] /\ store' = new
  BY DEF Delete, Send
<1>4. shown \in BOOLEAN /\ gone \in BOOLEAN
  BY <1>1, <1>2 DEF CompType, StoreType
<1> HIDE DEF o, shown, gone
<1>5. /\ shut \in CompType /\ shut.instance = comp.instance
      /\ shut.creating = comp.creating
  BY <1>2, <1>4 DEF CompType
<1>6. new \in StoreType
  BY <1>1, <1>4 DEF StoreType
<1> HIDE DEF shut, new
<1>7. CreationsOf(comp', requests')
  <2>1. \A q \in o[2] : ~Pending(q)
    BY <1>2 DEF Pending
  <2>. QED
    BY <1>3, <1>5, <2>1, ClientFacts, Unasked
<1>8. \A q \in o[2] : Fresh(q, comp')
  BY <1>2, <1>3, <1>5, ClientFacts DEF Fresh
<1>9. PICK d \in CompType : d = comp'
  BY <1>3, <1>5
<1>10. alert' \in AlertType /\ UNCHANGED server
  BY ClientFacts
<1>. QED
  BY <1>3, <1>5, <1>6, <1>7, <1>8, <1>9, <1>10, FollowsItself, MovesLemma

\* The clock stays within its bound.
LEMMA TickLemma ==
  ASSUME Inv, Tick
  PROVE  clock' \in 1..MaxTime
  BY EntryAssumption, ClientFacts DEF Tick

\* The user has finished editing.
LEMMA CompleteEditLemma ==
  ASSUME Inv, See, CompleteEdit
  PROVE  Inv'
<1> DEFINE done == [comp EXCEPT !.editing = FALSE]
<1>1. /\ done \in CompType /\ done.text = comp.text
      /\ done.instance = comp.instance /\ done.creating = comp.creating
  BY ClientFacts DEF CompType
<1>2. /\ clock' \in 1..MaxTime /\ store.id \in BOOLEAN /\ store \in StoreType
      /\ UNCHANGED <<alert, server>>
  BY TickLemma, ClientFacts DEF CompleteEdit
<1>3. CASE comp.text = Empty
  <2>1. Delete(done)
    BY <1>3 DEF CompleteEdit
  <2> HIDE DEF done
  <2>. QED
    BY <1>1, <1>2, <2>1, SaysDelete
<1>4. CASE comp.text # Empty /\ store.text # comp.text
  <2>1. Send(DispatchSave(done, store.id, clock')) /\ UNCHANGED store
    BY <1>4 DEF CompleteEdit
  <2> HIDE DEF done
  <2>. QED
    BY <1>1, <1>2, <2>1, SaysSave
<1>5. CASE comp.text # Empty /\ ~(store.text # comp.text)
  <2>1. Send(<<done, {}>>) /\ UNCHANGED store
    BY <1>5 DEF CompleteEdit
  <2> HIDE DEF done
  <2>2. comp' = done /\ requests' = requests
    BY <2>1 DEF Send
  <2>3. alert' \in AlertType /\ store' \in StoreType /\ UNCHANGED server
    BY <1>2, <2>1, ClientFacts
  <2>. QED
    BY <1>1, <1>2, <2>1, <2>2, <2>3, FollowsItself, Waiting
<1>. QED
  BY <1>3, <1>4, <1>5

\* The user deletes the entry.
LEMMA PressDeleteLemma ==
  ASSUME Inv, See, PressDelete
  PROVE  Inv'
  BY TickLemma, SaysDelete, ClientFacts DEF PressDelete

\* The client is online again.
LEMMA ReconnectLemma ==
  ASSUME Inv, See, Reconnect
  PROVE  Inv'
  BY TickLemma, SaysSave, ClientFacts DEF Reconnect
-----------------------------------------------------------------------------
(* What comes back.                                                        *)

\* The store takes a content, and the component is rendered anew.
LEMMA TakeLemma ==
  ASSUME Inv, NEW c \in CompType, NEW content \in Contents, Take(c, content)
  PROVE  store' \in StoreType /\ Follows(comp', c)
<1> DEFINE new == [key |-> "server", id |-> TRUE, text |-> content.text,
                   deleted |-> content.deleted]
<1>1. new \in StoreType /\ store' = new
  BY DEF Take, StoreType, Contents
<1>2. store \in StoreType
  BY ClientFacts
<1> HIDE DEF new
<1>. QED
  BY <1>1, <1>2, RenderedLemma DEF Take

LEMMA LiveUpdateLemma ==
  ASSUME Inv, See, LiveUpdate
  PROVE  Inv'
<1>1. Row \in Contents
  BY RowLemma DEF Inv, ServerInv
<1>2. /\ store' \in StoreType /\ Follows(comp', comp) /\ UNCHANGED server
      /\ requests' = requests /\ alert' \in AlertType /\ clock' \in 1..MaxTime
  BY <1>1, TakeLemma, ClientFacts DEF LiveUpdate
<1>. QED
  BY <1>2, Waiting, ClientFacts

\* A request has come to its end, and the component is rendered anew.
LEMMA EndLemma ==
  ASSUME Inv, See, UNCHANGED <<server, clock>>, NEW r \in requests,
         requests' = requests \ {r}, NEW c \in CompType,
         c.instance = comp.instance,
         c.creating <=> comp.creating /\ ~(Pending(r) /\ Mine(r)),
         Follows(comp', c), alert' \in AlertType, store' \in StoreType
  PROVE  Inv'
<1>1. CreationsOf(c, requests')
  BY EndedLemma, ClientFacts DEF Mine
<1>2. clock' \in 1..MaxTime /\ UNCHANGED server
  BY ClientFacts
<1>. QED
  BY <1>1, <1>2, MovesLemma

\* An entry has been deleted: the answer to deleteEntry.
LEMMA DeletedLemma ==
  ASSUME Inv, See, NEW r \in requests, UNCHANGED <<alert, server, clock>>,
         Deleted(r)
  PROVE  Inv'
<1>1. /\ r \in RequestType /\ requests' = requests \ {r} /\ ~Pending(r)
      /\ comp \in CompType /\ store \in StoreType /\ alert' \in AlertType
  BY ClientFacts DEF Deleted, Pending, Inv, ClientInv, Asked
<1>2. store' \in StoreType /\ Follows(comp', comp)
  <2>1. CASE r.content = NoContent
    <3>1. UNCHANGED <<comp, store>>
      BY <2>1 DEF Deleted
    <3>. QED
      BY <1>1, <3>1, FollowsItself
  <2>2. CASE r.content # NoContent
    <3>1. r.content \in Contents /\ Take(comp, r.content)
      BY <1>1, <2>2 DEF RequestType, Deleted
    <3>. QED
      BY <1>1, <3>1, TakeLemma
  <2>. QED
    BY <2>1, <2>2
<1>. QED
  BY <1>1, <1>2, EndLemma

\* A text has been saved: the answer to updateEntry.
LEMMA SavedLemma ==
  ASSUME Inv, See, NEW r \in requests, UNCHANGED <<alert, server, clock>>,
         Saved(r)
  PROVE  Inv'
<1> DEFINE c == Settled(r, "inactive")
<1>1. /\ r \in RequestType /\ requests' = requests \ {r} /\ ~Pending(r)
      /\ comp \in CompType /\ store \in StoreType /\ alert' \in AlertType
  BY ClientFacts DEF Saved, Pending, Inv, ClientInv, Asked
<1>2. c \in CompType /\ c.creating = comp.creating /\ c.instance = comp.instance
  BY <1>1, SettledLemma
<1>3. \/ comp' = c /\ store' = store
      \/ r.content # NoContent /\ Take(c, r.content)
  BY DEF Saved
<1> HIDE DEF c
<1>4. store' \in StoreType /\ Follows(comp', c)
  <2>1. CASE comp' = c /\ store' = store
    BY <1>1, <1>2, <2>1, FollowsItself
  <2>2. CASE r.content # NoContent /\ Take(c, r.content)
    <3>1. r.content \in Contents
      BY <1>1, <2>2 DEF RequestType
    <3>. QED
      BY <1>2, <2>2, <3>1, TakeLemma
  <2>. QED
    BY <1>3, <2>1, <2>2
<1>. QED
  BY <1>1, <1>2, <1>4, EndLemma

\* The entry is filed under its ID, with the content or without.
LEMMA FileLemma ==
  ASSUME Inv, NEW c \in CompType, NEW content \in Contents \cup {NoContent},
         File(c, content)
  PROVE  store' \in StoreType /\ Follows(comp', c)
<1>1. store \in StoreType
  BY ClientFacts
<1>2. CASE store.key = "none" \/ content = NoContent
  <2>1. store' = Rekeyed /\ comp' = Rendered(c, store, store')
    BY <1>2 DEF File
  <2>2. Rekeyed \in StoreType
    BY <1>1 DEF Rekeyed, StoreType
  <2>. QED
    BY <1>1, <2>1, <2>2, RenderedLemma
<1>3. CASE ~(store.key = "none" \/ content = NoContent)
  <2> DEFINE d == IF store.key = "server" /\ ~store.id
                  THEN [c EXCEPT !.shown = FALSE] ELSE c
  <2>1. d \in CompType /\ d.instance = c.instance /\ d.creating = c.creating
    BY DEF CompType
  <2>2. Take(d, content)
    BY <1>3 DEF File
  <2> HIDE DEF d
  <2>3. store' \in StoreType /\ Follows(comp', d)
    BY <1>3, <2>1, <2>2, TakeLemma
  <2>. QED
    BY <2>1, <2>3 DEF Follows
<1>. QED
  BY <1>2, <1>3

\* What the component does when its creation is answered: the flags are
\* cleared first, so the save and the deletion that had to wait are sent with
\* the ID.
LEMMA ContinuedLemma ==
  ASSUME Inv, NEW r \in RequestType
  PROVE  LET o == Continued(r) IN
         /\ o[1] \in CompType /\ o[1].instance = comp.instance
         /\ o[1].creating <=> comp.creating /\ ~Mine(r)
         /\ \A q \in o[2] : Fresh(q, comp) /\ ~Pending(q)
<1> DEFINE s      == Settled(r, "inactive")
           c      == [s EXCEPT !.creating = FALSE, !.needsUpdate = FALSE,
                               !.needsDelete = FALSE]
           save   == IF comp.needsUpdate THEN DispatchSave(c, TRUE, clock)
                     ELSE <<c, {}>>
           delete == IF comp.needsDelete
                     THEN DispatchDelete(save[1], TRUE, clock)
                     ELSE <<save[1], {}>>
<1>1. CASE ~Mine(r)
  <2>1. Continued(r) = <<comp, {}>>
    BY <1>1 DEF Continued
  <2>. QED
    BY <1>1, <2>1, ClientFacts
<1>2. CASE Mine(r)
  <2>1. Continued(r) = <<delete[1], save[2] \cup delete[2]>>
    BY <1>2 DEF Continued
  <2>2. /\ comp \in CompType /\ store \in StoreType /\ clock \in 0..MaxTime
        /\ store.text \in seen /\ comp.text \in seen
    BY ClientFacts
  <2>3. s \in CompType /\ s.text = comp.text /\ s.instance = comp.instance
    BY <2>2, SettledLemma
  <2> HIDE DEF s
  <2>4. /\ c \in CompType /\ c.text = comp.text /\ c.instance = comp.instance
        /\ ~c.creating
    BY <2>3 DEF CompType
  <2> HIDE DEF c
  <2>5. /\ save[1] \in CompType /\ ~save[1].creating
        /\ save[1].instance = comp.instance
        /\ save[2] \subseteq RequestType
        /\ \A q \in save[2] : Fresh(q, comp) /\ ~Pending(q)
    <3>1. CASE comp.needsUpdate
      <4>1. LET o == DispatchSave(c, TRUE, clock) IN
            /\ o[1] \in CompType /\ o[2] \subseteq RequestType
            /\ o[1].instance = c.instance
            /\ \A q \in o[2] : /\ q.kind = "save" /\ q.step = "sent"
                               /\ q.instance = c.instance /\ ~q.checked
                               /\ q.prev = store.text /\ q.text = c.text
            /\ o[1].creating = c.creating
        BY <2>2, <2>4, SaveWithID
      <4>2. save = DispatchSave(c, TRUE, clock)
        BY <3>1
      <4> HIDE DEF save
      <4>3. /\ save[1] \in CompType /\ save[1].instance = comp.instance
            /\ ~save[1].creating /\ save[2] \subseteq RequestType
        BY <2>4, <4>1, <4>2
      <4>4. \A q \in save[2] : Fresh(q, comp) /\ ~Pending(q)
        BY <2>2, <2>4, <4>1, <4>2 DEF Fresh, Pending
      <4>. QED
        BY <4>3, <4>4
    <3>2. CASE ~comp.needsUpdate
      <4>1. save[1] = c /\ save[2] = {}
        BY <3>2
      <4> HIDE DEF save
      <4>. QED
        BY <2>4, <4>1
    <3>. QED
      BY <3>1, <3>2
  <2> HIDE DEF save
  <2>6. /\ delete[1] \in CompType /\ ~delete[1].creating
        /\ delete[1].instance = comp.instance
        /\ \A q \in delete[2] : Fresh(q, comp) /\ ~Pending(q)
    <3>1. CASE comp.needsDelete
      <4> DEFINE id == TRUE
      <4>1. id \in BOOLEAN
        OBVIOUS
      <4>2. delete = DispatchDelete(save[1], id, clock)
        BY <3>1
      <4> HIDE DEF id
      <4>3. LET o == DispatchDelete(save[1], id, clock) IN
            /\ o[1] \in CompType /\ o[2] \subseteq RequestType
            /\ o[1].instance = save[1].instance
            /\ o[1].creating = save[1].creating
            /\ \A q \in o[2] : /\ q.kind = "delete"
                               /\ q.step = "sent" /\ q.prev = store.text
                               /\ q.instance = save[1].instance /\ ~q.checked
        BY <2>2, <2>5, <4>1, DispatchDeleteLemma
      <4> HIDE DEF delete
      <4>4. /\ delete[1] \in CompType /\ delete[1].instance = comp.instance
            /\ ~delete[1].creating
        BY <2>5, <4>2, <4>3
      <4>5. \A q \in delete[2] : Fresh(q, comp) /\ ~Pending(q)
        BY <2>2, <2>5, <4>2, <4>3 DEF Fresh, Pending
      <4>. QED
        BY <4>4, <4>5
    <3>2. CASE ~comp.needsDelete
      <4>1. delete[1] = save[1] /\ delete[2] = {}
        BY <3>2
      <4> HIDE DEF delete
      <4>. QED
        BY <2>5, <4>1
    <3>. QED
      BY <3>1, <3>2
  <2> HIDE DEF delete
  <2>7. Continued(r)[1] = delete[1] /\ Continued(r)[2] = save[2] \cup delete[2]
    BY <2>1
  <2>. QED
    BY <1>2, <2>5, <2>6, <2>7
<1>. QED
  BY <1>1, <1>2

\* The answer to a creation.
LEMMA CreatedLemma ==
  ASSUME Inv, See, NEW r \in requests, r.step = "answered",
         UNCHANGED <<alert, server, clock>>, Created(r)
  PROVE  Inv'
<1> DEFINE c     == Continued(r)[1]
           added == Continued(r)[2]
<1>1. /\ requests' = (requests \ {r}) \cup added /\ File(c, r.content)
      /\ Pending(r)
  BY DEF Created, Pending
<1>2. /\ r \in RequestType /\ r.content \in Contents \cup {NoContent}
      /\ alert' \in AlertType /\ clock' \in 1..MaxTime /\ UNCHANGED server
  BY ClientFacts DEF Inv, ClientInv, Asked, RequestType
<1>3. /\ c \in CompType /\ c.instance = comp.instance
      /\ c.creating <=> comp.creating /\ ~Mine(r)
      /\ \A q \in added : Fresh(q, comp) /\ ~Pending(q)
  BY <1>2, ContinuedLemma
<1>4. PICK d : d = c
  OBVIOUS
<1> HIDE DEF c, added
<1>5. store' \in StoreType /\ Follows(comp', d)
  BY <1>1, <1>2, <1>3, <1>4, FileLemma
<1>6. CreationsOf(d, requests \ {r})
  BY <1>1, <1>3, <1>4, EndedLemma, ClientFacts DEF Mine
<1>7. CreationsOf(d, requests')
  <2>1. \A q \in added : ~Pending(q)
    BY <1>3
  <2>. QED
    BY <1>1, <1>6, <2>1, Unasked
<1>8. \A q \in added : Fresh(q, d)
  BY <1>3, <1>4 DEF Fresh
<1>. QED
  BY <1>1, <1>2, <1>3, <1>4, <1>5, <1>7, <1>8, MovesLemma

\* A failure ends the creation under way, if it is one.
LEMMA FailLemma ==
  ASSUME Inv, See, NEW r \in requests, r.step \in {"sent", "answered"},
         UNCHANGED <<store, server, clock>>, alert' \in AlertType,
         comp' = Failed(r),
         \/ requests' = requests \ {r}
         \/ requests' = (requests \ {r}) \cup {[r EXCEPT !.step = "late"]}
  PROVE  Inv'
<1> DEFINE late == [r EXCEPT !.step = "late"]
<1>1. /\ r \in RequestType /\ comp \in CompType /\ store' \in StoreType
      /\ clock' \in 1..MaxTime /\ UNCHANGED server
  BY ClientFacts DEF Inv, ClientInv, Asked
<1>2. Replaces(late, r) /\ SameHandler(late, r) /\ late.step = "late"
  BY <1>1 DEF RequestType, Replaces, SameHandler
<1> HIDE DEF late
<1>3. /\ comp' \in CompType /\ comp'.instance = comp.instance
      /\ comp'.creating <=> comp.creating /\ ~(r.kind = "create" /\ Mine(r))
  BY <1>1, FailedLemma
<1>4. PICK d \in CompType : d = comp'
  BY <1>3
<1>5. CreationsOf(d, requests \ {r})
  <2>1. d.creating <=> comp.creating /\ ~(Pending(r) /\ r.instance = comp.instance)
    BY <1>3, <1>4 DEF Pending, Mine
  <2>. QED
    BY <1>3, <1>4, <2>1, EndedLemma, ClientFacts
<1>6. CASE requests' = requests \ {r}
  BY <1>1, <1>3, <1>4, <1>5, <1>6, FollowsItself, MovesLemma
<1>7. CASE requests' = (requests \ {r}) \cup {late}
  <2>1. \A q \in {late} : ~Pending(q)
    BY <1>2 DEF Pending
  <2>2. CreationsOf(d, requests')
    BY <1>5, <1>7, <2>1, Unasked
  <2>3. \A q \in requests' : \/ q \in requests
                             \/ Replaces(q, r) /\ SameHandler(q, r)
    BY <1>2, <1>7
  <2>. QED
    BY <1>1, <1>3, <1>4, <2>2, <2>3, FollowsItself, MovesLemma
<1>. QED
  BY <1>6, <1>7 DEF late

-----------------------------------------------------------------------------
(* The theorems.                                                           *)

LEMMA InitLemma == Init => Inv
<1> SUFFICES ASSUME Init PROVE Inv
  OBVIOUS
<1>1. 1 \in 1..MaxTime /\ 0 \in 0..MaxTime /\ 1 \in 0..MaxTime /\ 1 \in Nat
  BY EntryAssumption
<1>2. /\ alert \in AlertType /\ requests = {} /\ rivals = {} /\ clock \in 1..MaxTime
      /\ version \in Nat /\ overlapped \in BOOLEAN
  BY <1>1 DEF Init, AlertType
<1>3. CASE /\ comp = [Mounted(Empty, 1) EXCEPT !.editing = TRUE]
           /\ store = [key |-> "local", id |-> FALSE, text |-> Empty,
                       deleted |-> FALSE]
           /\ entry = [rows |-> 0, text |-> Empty, deleted |-> FALSE]
           /\ revisions = {}
  <2>1. /\ Mounted(Empty, 1) \in CompType /\ ~Mounted(Empty, 1).creating
        /\ Mounted(Empty, 1).text = Empty
    BY <1>1, MountedLemma DEF Words
  <2>2. comp \in CompType /\ ~comp.creating /\ comp.text = Empty
    <3> DEFINE m == Mounted(Empty, 1)
    <3>1. comp = [m EXCEPT !.editing = TRUE]
      BY <1>3
    <3> HIDE DEF m
    <3>. QED
      BY <2>1, <3>1 DEF CompType, m
  <2>3. store \in StoreType /\ store.text = Empty /\ Empty \in Words
    BY <1>3 DEF StoreType, Words
  <2>4. entry \in EntryType /\ entry.rows = 0
    BY <1>3 DEF EntryType, Words
  <2>5. seen = {Empty}
    BY <2>3 DEF Init
  <2>6. ClientInv
    BY <1>2, <2>2, <2>3 DEF ClientInv, ClientTypes, Creations, CreationsOf
  <2>7. ServerInv
    BY <1>2, <1>3, <2>4 DEF ServerInv, ServerTypes, Consistent, CreatedOnce
  <2>. QED
    BY <1>3, <2>2, <2>3, <2>5, <2>6, <2>7 DEF Inv, Seen
<1>4. ASSUME NEW t \in Texts, NEW mine \in BOOLEAN,
             comp = Mounted(t, 1),
             store = [key |-> "server", id |-> TRUE, text |-> t,
                      deleted |-> FALSE],
             entry = [rows |-> 1, text |-> t, deleted |-> FALSE],
             revisions = {[id |-> 1, mine |-> mine, text |-> t,
                           deleted |-> FALSE, time |-> 1]}
      PROVE  Inv
  <2>1. t \in Words
    BY DEF Words
  <2>2. comp \in CompType /\ ~comp.creating /\ comp.text = t
    BY <1>1, <1>4, <2>1, MountedLemma
  <2>3. store \in StoreType /\ store.text = t
    BY <1>4, <2>1 DEF StoreType
  <2>4. /\ entry \in EntryType /\ entry.rows = 1 /\ entry.text = t
        /\ entry.deleted = FALSE
    BY <1>4, <2>1 DEF EntryType
  <2> DEFINE rev == [id |-> 1, mine |-> mine, text |-> t, deleted |-> FALSE,
                     time |-> 1]
  <2>5. rev \in RevisionType /\ rev.text = t /\ rev.deleted = FALSE
    BY <1>1, <2>1 DEF RevisionType
  <2>6. revisions = {rev}
    BY <1>4
  <2> HIDE DEF rev
  <2>7. seen = {t}
    BY <2>3 DEF Init
  <2>8. Consistent /\ CreatedOnce
    <3>1. \A n \in Newest : n = rev
      BY <2>6 DEF Newest
    <3>2. ASSUME NEW n \in Newest
          PROVE  entry.text = n.text /\ entry.deleted = n.deleted
      BY <2>4, <2>5, <3>1
    <3>. QED
      BY <2>4, <3>2 DEF Consistent, CreatedOnce
  <2>9. ClientInv
    BY <1>2, <2>2, <2>3 DEF ClientInv, ClientTypes, Creations, CreationsOf
  <2>10. ServerInv
    BY <1>2, <2>4, <2>5, <2>6, <2>8 DEF ServerInv, ServerTypes
  <2>. QED
    BY <2>1, <2>2, <2>3, <2>5, <2>6, <2>7, <2>9, <2>10 DEF Inv, Seen
<1>. QED
  BY <1>3, <1>4 DEF Init

\* What NothingUnseenReplaced asks of a step.
ReplacesSeen ==
  \A r \in requests :
    ~Overtaken(r) => /\ WriteSave(r) => entry.text \in seen
                     /\ WriteDelete(r) => \E n \in Newest : n.text \in seen

\* Each action preserves the invariant.
LEMMA NextLemma ==
  ASSUME Inv, Next
  PROVE  Inv'
<1>1. See
  BY DEF Next
<1>2. CASE \E t \in Words : Type(t)
  BY <1>1, <1>2, TypeLemma DEF Type
<1>3. CASE CompleteEdit \/ PressDelete \/ Reconnect \/ Refresh
  BY <1>1, <1>3, CompleteEditLemma, PressDeleteLemma, ReconnectLemma, RefreshLemma
<1>4. ASSUME NEW r \in requests, Serve(r)
      PROVE  Inv'
  BY <1>1, <1>4, CheckCreateLemma, CheckSaveLemma, CheckDeleteLemma,
     WriteCreateLemma, WriteSaveLemma, WriteDeleteLemma DEF Serve
<1>5. ASSUME NEW r \in requests, Succeed(r)
      PROVE  Inv'
  BY <1>1, <1>5, CreatedLemma, SavedLemma, DeletedLemma DEF Succeed
<1>6. ASSUME NEW r \in requests, Fail(r)
      PROVE  Inv'
  <2>1. r \in RequestType
    BY DEF Inv, ClientInv, Asked
  <2>2. Alerted(r) \in AlertType
    BY <2>1, ClientFacts DEF Alerted, AlertType, RequestType, Contents, NoContent
  <2>. QED
    BY <1>1, <1>6, <2>2, FailLemma DEF Fail
<1>7. ASSUME NEW r \in requests, TimeOut(r)
      PROVE  Inv'
  <2>1. \/ requests' = requests \ {r}
        \/ requests' = (requests \ {r}) \cup {[r EXCEPT !.step = "late"]}
    BY <1>7 DEF TimeOut
  <2>2. alert' \in AlertType
    BY <1>7, ClientFacts DEF TimeOut
  <2>. QED
    BY <1>1, <1>7, <2>1, <2>2, FailLemma DEF TimeOut
<1>8. ASSUME NEW d \in BOOLEAN, OtherChecks(d)
      PROVE  Inv'
  BY <1>1, <1>8, OtherChecksLemma
<1>9. ASSUME NEW o \in rivals, OtherWrites(o)
      PROVE  Inv'
  BY <1>1, <1>9, OtherWritesLemma
<1>10. CASE LiveUpdate
  BY <1>1, <1>10, LiveUpdateLemma
<1>. QED
  BY <1>2, <1>3, <1>4, <1>5, <1>6, <1>7, <1>8, <1>9, <1>10 DEF Next, Step, Words

\* Nothing changes.
LEMMA StutterLemma ==
  ASSUME Inv, UNCHANGED vars
  PROVE  Inv'
<1>1. UNCHANGED <<comp, alert, store, clock, requests, entry, revisions, version,
                  overlapped, rivals, seen>>
  BY DEF vars, client, server, tables
<1>2. ClientInv'
  BY <1>1 DEF Inv, ClientInv, ClientTypes, Creations, Asked
<1>3. ServerInv'
  BY <1>1 DEF Inv, ServerInv, ServerTypes, Consistent, CreatedOnce, Newest, Held,
              HeldByOther, Current
<1>4. Seen'
  BY <1>1 DEF Inv, Seen
<1>. QED
  BY <1>2, <1>3, <1>4 DEF Inv

\* The invariant holds always.
LEMMA Invariance == Spec => []Inv
<1>1. Inv /\ [Next]_vars => Inv'
  BY NextLemma, StutterLemma
<1>. QED
  BY <1>1, InitLemma, PTL DEF Spec

\* The variables have their types, and a component that is waiting for an
\* ID has its creation under way: createAction (native's entry.react.js)
\* clears `creating' however the call ends.
THEOREM TypeCorrect == Spec => []TypeOK
<1>1. ASSUME Inv PROVE TypeOK
  <2>1. /\ comp \in CompType /\ alert \in AlertType /\ store \in StoreType
        /\ clock \in 1..MaxTime /\ CreationsOf(comp, requests)
    BY <1>1, ClientFacts
  <2>2. \A r \in requests : r.kind \in {"create", "save", "delete"}
                            /\ r.step \in {"sent", "answered", "late"}
    BY <1>1 DEF Inv, ClientInv, Asked, RequestType
  <2>3. comp.creating <=> \E r \in requests : r.kind = "create" /\ r.step # "late"
                                              /\ r.instance = comp.instance
    BY <2>1 DEF CreationsOf, Pending
  <2>4. ServerTypes /\ seen \subseteq Words
    BY <1>1 DEF Inv, ServerInv, Seen
  <2>. QED
    BY <2>1, <2>2, <2>3, <2>4
    DEF TypeOK, CompType, AlertType, StoreType, ServerTypes, EntryType, RevisionType
<1>. QED
  BY <1>1, Invariance, PTL

\* The row of the entry and the newest of its revisions agree in whatever order
\* the sessions' creations, saves and deletions are checked and written, until
\* a handler writes after another has written what it had read: before that
\* updateEntry never has to report database_corruption.
THEOREM RowIsNewestRevision == Spec => []Consistent
<1>1. Inv => Consistent
  BY DEF Inv, ServerInv
<1>. QED
  BY <1>1, Invariance, PTL

\* createEntry inserts one row, however often the creation is tried and however
\* its handlers overlap: the look-up alone does not see to that, the key on
\* creator and creation does.
THEOREM OneEntry == Spec => []CreatedOnce
<1>1. Inv => CreatedOnce
  BY DEF Inv, ServerInv
<1>. QED
  BY <1>1, Invariance, PTL

\* updateEntry and deleteEntry replace a text only for a session that has had
\* it on its screen or in its store, or that was overtaken by another write
\* between its handler's checks and its writes.
THEOREM ReplacesWhatItHasSeen == Spec => NothingUnseenReplaced
<1>1. Inv /\ [Next]_vars => [ReplacesSeen]_vars
  <2> SUFFICES ASSUME Inv, Next PROVE ReplacesSeen
    OBVIOUS
  <2>1. See
    BY DEF Next
  <2>. QED
    BY <2>1, WriteSaveLemma, WriteDeleteLemma DEF ReplacesSeen, Overtaken
<1>. QED
  BY <1>1, Invariance, PTL DEF Spec, NothingUnseenReplaced, ReplacesSeen
=============================================================================
