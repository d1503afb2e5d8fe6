------------------------- MODULE ThreadPermissions -------------------------
(***************************************************************************)
(* The memberships table of one community: what every user may do in the   *)
(* community's root, its channels and their sidebars.  A row's blob of     *)
(* permissions is computed from the user's role in the thread and from     *)
(* what the row of the parent thread grants to children; a user can only   *)
(* be a member of a thread whose containing thread they are a member of.   *)
(*                                                                         *)
(* changeRole and recalculateThreadPermissions compute a changeset for one *)
(* thread and then walk down its descendants, one depth at a time, through *)
(* a DepthQueue, stopping wherever a row does not change.  The changeset   *)
(* is computed from reads and written later by commitMembershipChangeset,  *)
(* so handlers of different users interleave, and a handler may die half   *)
(* way through; recalculateAllThreadPermissions is the repair script.      *)
(*                                                                         *)
(* A permission key of the code, e.g. descendant_open_know_of, is the      *)
(* triple <<"descendant", "open", "know_of">>; a blob maps the keys it     *)
(* holds to the thread whose role granted them ("source").  No role blob   *)
(* of role-creator.js holds a false value, so a blob has no other entries. *)
(* One channel type stands for its announcement variant, "know_of" for     *)
(* "visible", "create" for create_subthreads and create_sidebars.          *)
(***************************************************************************)
EXTENDS Integers, FiniteSets

CONSTANTS
  Users,
  Founder,     \* creator and first admin of the community
  Root,        \* the community's root thread
  First,       \* a channel that exists already
  Channels,    \* ids of the channels that may be created
  Sidebars,    \* ids of the sidebars that may be created
  MaxDepth,    \* bound on the depth of a thread
  MaxRequests, \* bound on the requests and on handlers that die
  MaxMisplaced \* bound on the requests once a thread is misplaced

ASSUME CommunityAssumption == Root # First
ASSUME BoundsAssumption    == MaxDepth \in Nat \ {0} /\ MaxRequests \in Nat

VARIABLES
  thread,      \* the threads table: type, parent_thread_id and depth
  row,         \* the memberships table: role and permissions
  jobs,        \* changesets computed and not yet committed
  toRecalculate, \* threads the repair script has yet to visit
  damaged,     \* a handler has died before its changeset was all committed
  misplaced,   \* a thread has changed its depth and those below it have not
  thrown,      \* the DepthQueue has refused a thread
  requests     \* requests and deaths so far

vars == <<thread, row, jobs, toRecalculate, damaged, misplaced, thrown,
          requests>>

\* the entries of f, and those of g that f does not have
Over(f, g) ==
  IF f = << >> THEN g
  ELSE [x \in DOMAIN f \cup DOMAIN g |-> IF x \in DOMAIN f THEN f[x] ELSE g[x]]

Threads == {Root, First} \cup Channels \cup Sidebars

NoThread == [type |-> "none", parent |-> Root, depth |-> 0]
Created  == {t \in Threads : thread[t].type # "none"}

\* Roles: -1 is a "ghost", 0 knows of the thread without being a member.
Ghost   == -1
Visitor == 0
Members == 1
Admins  == 2

\* containing_thread_id, as getContainingThreadID computes it: the parent
\* of a sidebar, the community's root for a channel, none for the root
Container(t) == IF thread[t].type = "sidebar" THEN thread[t].parent ELSE Root

-----------------------------------------------------------------------------
(* role-creator.js: the blobs of the roles of each type of thread *)

KnowOf == <<"", "", "know_of">>

OpenToDescendants ==
  {<<"descendant", "open", "know_of">>,
   <<"descendant", "opentoplevel", "join_thread">>,
   <<"child", "open", "join_thread">>}

MemberPermissions(type) ==
  IF type = "sidebar" THEN {<<"", "", "edit_permissions">>}
  ELSE {KnowOf, <<"", "", "create">>} \cup OpenToDescendants
       \cup (IF type = "community" THEN {}
             ELSE {<<"", "", "edit_permissions">>})

AdminPermissions ==
  {KnowOf, <<"", "", "create">>,
   <<"descendant", "", "know_of">>, <<"child", "", "join_thread">>,
   <<"descendant", "toplevel", "join_thread">>,
   <<"descendant", "toplevel", "create">>,
   <<"descendant", "", "edit_permissions">>}

RolePermissions(type, role) ==
  CASE role = Members -> MemberPermissions(type)
    [] role = Admins  -> AdminPermissions
    [] OTHER          -> {}

-----------------------------------------------------------------------------
(* lib/permissions: blobs *)

NoPermissions == << >>    \* a null blob

Propagates(key) == key[1] # ""

\* mutant: sidebars do not count as open
Included_NoSidebars(key, type) ==
  /\ key[2] \in {"open", "opentoplevel"} => type = "open"
  /\ key[2] \in {"toplevel", "opentoplevel"} => type # "sidebar"

\* includeThreadPermissionForThreadType
Included(key, type) ==
  /\ key[2] \in {"open", "opentoplevel"} => type \in {"open", "sidebar"}
  /\ key[2] \in {"toplevel", "opentoplevel"} => type # "sidebar"

\* a key of the parent's blob for children, as it is known in the child
InChild(key) == IF Propagates(key) THEN key ELSE <<"", "", key[3]>>

\* Several keys may become one in a child.  Only the community's Admins
\* role has keys without the open filter, and its keys come first in every
\* blob, so that any other source overwrites it.
LastSource(sources) ==
  IF sources = {Root} THEN Root ELSE CHOOSE s \in sources : s # Root

Inherited(from, type) ==
  LET kept == {k \in DOMAIN from : Included(k, type)}
  IN [key \in {InChild(k) : k \in kept} |->
        LastSource({from[k] : k \in {j \in kept : InChild(j) = key}})]

\* What the role grants counts only for one who knows of the thread.
WithRole(inherited, rolePermissions, t) ==
  IF KnowOf \in rolePermissions \cup DOMAIN inherited
  THEN Over([k \in rolePermissions |-> t], inherited) ELSE inherited

MakePermissionsBlob(rolePermissions, from, t) ==
  WithRole(Inherited(from, thread[t].type), rolePermissions, t)

PermissionsForChildren(blob) ==
  LET keys  == {k \in DOMAIN blob : Propagates(k)}
      plain == [c \in {<<"", k[2], k[3]>> : k \in keys} |->
                  blob[CHOOSE k \in keys : <<"", k[2], k[3]>> = c]]
  IN Over([k \in {j \in keys : j[1] = "descendant"} |-> blob[k]], plain)

Lookup(blob, permission) ==
  {<<"", "", permission>>, KnowOf} \subseteq DOMAIN blob

RoleForPermissions(role, blob) ==
  IF ~Lookup(blob, "know_of") THEN Ghost
  ELSE IF role <= 0 THEN Visitor
  ELSE role

-----------------------------------------------------------------------------
(* memberships *)

NoRow == [role |-> Ghost, permissions |-> NoPermissions, exists |-> FALSE]

FromParent(t, u) ==
  IF t = Root THEN NoPermissions
  ELSE PermissionsForChildren(row[thread[t].parent][u].permissions)

InContainer(t, u) == t = Root \/ row[Container(t)][u].role > 0

RowOf(role, blob) ==
  [role |-> RoleForPermissions(role, blob), permissions |-> blob,
   exists |-> TRUE]

\* What a user's row in t becomes, given a role and what is known of the
\* parent's row and of the membership in the containing thread.  A row that
\* ends up without permissions is deleted, which leaves a ghost.
NewRow(t, role, member, from) ==
  RowOf(IF member THEN role ELSE Ghost,
        MakePermissionsBlob(
          IF member THEN RolePermissions(thread[t].type, role) ELSE {}, from, t))

Unchanged(old, new) ==
  /\ old.permissions = new.permissions
  /\ old.role = new.role

\* whether the user's rows in the thread's descendants must be looked at
Affects(old, new) ==
  \/ old.role > 0 /\ new.role <= 0
  \/ PermissionsForChildren(old.permissions)
       # PermissionsForChildren(new.permissions)

-----------------------------------------------------------------------------
(* updateDescendantPermissions: "changes" maps <<thread, user>> to the new *)
(* row where descendants must be looked at.  What is known of a descendant *)
(* before the changeset is written: what its parent will grant and whether *)
(* the user will be a member of its containing thread, where they change.  *)

Below(t) == {c \in Created \ {Root} : t \in {thread[c].parent, Container(c)}}

HasRows(t) == \E u \in Users : row[t][u].exists

\* fetchDescendantsForUpdate: threads without memberships rows are not found
Found(t) == {c \in Below(t) : HasRows(c)}

Nothing == [t \in Threads |-> [u \in Users |->
              [granted |-> {}, member |-> {}]]]

Spread(known, changes) ==
  LET touched(c, a, u) == <<a, u>> \in DOMAIN changes /\ c \in Found(a)
  IN [c \in Threads |-> [u \in Users |->
        LET p == thread[c].parent
            k == Container(c)
        IN [granted |-> IF touched(c, p, u)
                        THEN {PermissionsForChildren(changes[p, u].permissions)}
                        ELSE known[c][u].granted,
            member  |-> IF touched(c, k, u) THEN {changes[k, u].role > 0}
                        ELSE known[c][u].member]]]

\* mutant: a user who leaves the containing thread is only noticed through
\* the parent
NeedsUpdate_ParentOnly(known, c, u) == known[c][u].granted # {}

NeedsUpdate(known, c, u) ==
  \/ known[c][u].granted # {}
  \/ known[c][u].member = {FALSE}

DescendantRow(known, c, u) ==
  LET from   == IF row[c][u].exists THEN FromParent(c, u) ELSE NoPermissions
      member == row[c][u].exists /\ InContainer(c, u)
  IN NewRow(c, row[c][u].role,
            CHOOSE m \in BOOLEAN :
              IF known[c][u].member = {} THEN m = member
              ELSE m \in known[c][u].member,
            IF known[c][u].granted = {} THEN from
            ELSE CHOOSE g \in known[c][u].granted : TRUE)

Affecting(changes) ==
  [x \in {y \in DOMAIN changes : Affects(row[y[1]][y[2]], changes[y])} |->
     changes[x]]

Changing(rows) ==
  [x \in {y \in DOMAIN rows : ~Unchanged(row[y[1]][y[2]], rows[y])} |-> rows[x]]

\* One layer of the DepthQueue: the rows of the threads of depth d that
\* change.
Layer(known, d) ==
  Changing([x \in {y \in Created \X Users :
                      thread[y[1]].depth = d /\ NeedsUpdate(known, y[1], y[2])}
              |-> DescendantRow(known, x[1], x[2])])

\* A thread may only be added to a deeper layer.
AddLayer(above, layer, d) ==
  LET down == Affecting(layer)
  IN [known  |-> Spread(above.known, down),
      rows   |-> Over(layer, above.rows),
      failed |-> \/ above.failed
                 \/ \E x \in DOMAIN down : \E c \in Found(x[1]) :
                      thread[c].depth <= d]

Deeper(above, d) == AddLayer(above, Layer(above.known, d), d)

Descend(changes) ==
  LET walk[d \in 0 .. MaxDepth] ==
        IF d = 0
        THEN [known |-> Spread(Nothing, Affecting(changes)),
              rows |-> << >>, failed |-> FALSE]
        ELSE Deeper(walk[d - 1], d)
  IN walk[MaxDepth]

\* A changeset: rows with the intent of joining or leaving, rows without.
NoChanges == [intended |-> << >>, other |-> << >>,
              refused |-> FALSE, failed |-> FALSE]

\* with what the walk below has found
AndBelow(changeset, below) ==
  [changeset EXCEPT !.other = Over(below.rows, @), !.failed = below.failed]

\* changeRole.  A role of 0 removes the users; onlyNew is the null role of
\* the code, which leaves alone who is a member already.
ChangeRole(t, users, role, onlyNew) ==
  LET old(u) == row[t][u]
      new(u) == NewRow(t, role, IF role > 0 THEN InContainer(t, u) ELSE t = Root,
                       FromParent(t, u))
      considered == {u \in users : /\ ~(old(u).exists /\ old(u).role = role)
                                   /\ ~(onlyNew /\ old(u).role > 0)}
      written == {u \in considered : ~(old(u).exists /\ Unchanged(old(u), new(u)))}
      rows == [x \in {t} \X written |-> new(x[2])]
  IN AndBelow([NoChanges EXCEPT
                 !.intended = rows,
                 !.refused = \E u \in considered : (role > 0) # (new(u).role > 0)],
              Descend(rows))

\* mutant: only the thread's own rows are recalculated
Recalculate_NotBelow(t) ==
  [NoChanges EXCEPT
     !.other = Changing([x \in {t} \X Users |->
                           NewRow(t, row[t][x[2]].role, InContainer(t, x[2]),
                                  FromParent(t, x[2]))])]

\* recalculateThreadPermissions
Recalculate(t) ==
  LET rows == Changing([x \in {t} \X Users |->
                          NewRow(t, row[t][x[2]].role, InContainer(t, x[2]),
                                 FromParent(t, x[2]))])
  IN AndBelow([NoChanges EXCEPT !.other = rows], Descend(rows))

\* Two changesets committed as one: a row with an intent is kept, and among
\* rows without one the later one.
Together(first, second) ==
  [intended |-> Over(first.intended, second.intended),
   other |-> Over(second.other, first.other),
   refused |-> first.refused \/ second.refused,
   failed |-> first.failed \/ second.failed]

\* commitMembershipChangeset: saveMemberships and deleteMemberships
Rows(changeset) == Over(changeset.intended, changeset.other)

Write(rows) ==
  row' = [t \in Threads |-> [u \in Users |->
            IF <<t, u>> \in DOMAIN rows THEN rows[<<t, u>>] ELSE row[t][u]]]

-----------------------------------------------------------------------------
\* The community, its founder and the other users as its members, and a
\* channel the founder has created.
FirstRole(u) == IF u = Founder THEN Admins ELSE Members
RootBlob(u) == [k \in RolePermissions("community", FirstRole(u)) |-> Root]

FirstRow(u) ==
  LET new == NewRow(First, IF u = Founder THEN Members ELSE Ghost, TRUE,
                    PermissionsForChildren(RootBlob(u)))
  IN IF new.permissions = NoPermissions THEN NoRow ELSE new

Init ==
  /\ \E type \in {"open", "secret"} :
       thread = [t \in Threads |->
                   CASE t = Root  -> [NoThread EXCEPT !.type = "community"]
                     [] t = First -> [type |-> type, parent |-> Root, depth |-> 1]
                     [] OTHER     -> NoThread]
  /\ row = [t \in Threads |-> [u \in Users |->
              CASE t = Root  -> [role |-> FirstRole(u),
                                 permissions |-> RootBlob(u), exists |-> TRUE]
                [] t = First -> FirstRow(u)
                [] OTHER     -> NoRow]]
  /\ jobs = {}
  /\ toRecalculate = {}
  /\ damaged = FALSE
  /\ misplaced = FALSE
  /\ thrown = FALSE
  /\ requests = 0

IsMember(t, u) == row[t][u].role > 0
Has(t, u, permission) == Lookup(row[t][u].permissions, permission)

\* The environment: no two requests about one user overlap, and a request
\* that creates or changes a thread, which reads every user's rows, overlaps
\* with nothing.  The code does not enforce this.
Free(users) ==
  /\ requests < MaxRequests /\ (misplaced => requests < MaxMisplaced)
  /\ toRecalculate = {}
  /\ \A j \in jobs : j.users \cap users = {}

\* The changeset of a change of roles; an error ends the handler.
Change(changeset, user) ==
  /\ requests' = requests + 1
  /\ thrown' = (thrown \/ changeset.failed)
  /\ jobs' = IF changeset.refused \/ changeset.failed THEN jobs
             ELSE jobs \cup {[users |-> {user}, plan |-> {},
                              rows |-> Rows(changeset)]}
  /\ UNCHANGED <<thread, row, toRecalculate, damaged, misplaced>>

\* joinThread
Join(t, u) ==
  /\ Free({u})
  /\ ~IsMember(t, u) /\ Has(t, u, "join_thread")
  /\ Change(ChangeRole(t, {u}, Members, TRUE), u)

\* leaveThread: the last admin cannot leave the others behind
Leave(t, u) ==
  /\ Free({u})
  /\ IsMember(t, u)
  /\ LET others == {v \in Users \ {u} : IsMember(t, v)}
     IN t = Root /\ others # {} => \E v \in others : row[t][v].role = Admins
  /\ Change(ChangeRole(t, {u}, Visitor, FALSE), u)

\* removeMembers, by a viewer who may change the roles of the others
Remove(t, u, viewer) ==
  /\ Free({u})
  /\ u # viewer /\ IsMember(t, u)
  /\ \/ row[Root][viewer].role = Admins
     \/ t # Root /\ IsMember(t, viewer)
  /\ Change(ChangeRole(t, {u}, Visitor, FALSE), u)

\* updateRole, which only a community has two roles for
UpdateRole(u, viewer, role) ==
  /\ Free({u})
  /\ row[Root][viewer].role = Admins /\ IsMember(Root, u)
  /\ Change(ChangeRole(Root, {u}, role, FALSE), u)

\* mutant: a thread gets the depth of its parent
DepthBelow_Same(parent) == thread[parent].depth

\* mutant: every channel counts as a child of the root
DepthBelow_One(parent) == 1

\* determineThreadAncestry
DepthBelow(parent) == thread[parent].depth + 1

\* createThread and updateThread write the threads table first; what is to
\* be computed from it is the job's plan.
WriteThread(t, new, creator, added, recalculate) ==
  /\ thread' = [thread EXCEPT ![t] = new]
  /\ jobs' = jobs \cup {[users |-> Users, rows |-> << >>,
                         plan |-> {[thread |-> t, creator |-> creator,
                                    added |-> added,
                                    recalculate |-> recalculate]}]}
  /\ requests' = requests + 1
  /\ UNCHANGED <<row, toRecalculate, damaged, thrown>>

\* validateCandidateMembers
Candidates(t, type, parent, others) ==
  \A u \in others : \/ t = Root
                    \/ IsMember(IF type = "sidebar" THEN parent ELSE Root, u)

\* createThread
CreateThread(t, type, parent, viewer, others) ==
  /\ Free(Users)
  /\ thread[t].type = "none" /\ parent \in Created
  /\ thread[parent].depth < MaxDepth
  /\ (t \in Sidebars) = (type = "sidebar")
  /\ Has(parent, viewer, "create")
  /\ viewer \notin others /\ Candidates(t, type, parent, others)
  /\ WriteThread(t, [type |-> type, parent |-> parent,
                     depth |-> DepthBelow(parent)],
                 {viewer}, others, TRUE)
  /\ UNCHANGED misplaced

HasChildren(t) == \E c \in Created \ {Root} : thread[c].parent = t

\* updateThread: another type or parent, and new members.  A thread that
\* moves gets the depth of its new place; the threads below it keep theirs.
\* It may even be moved below itself.
UpdateThread(t, type, parent, viewer, added) ==
  /\ Free(Users)
  /\ t \in Created
  /\ \/ added # {}
     \/ type # thread[t].type \/ parent # thread[t].parent
  /\ added # {} =>
       Has(t, viewer, IF thread[t].type = "sidebar" THEN "edit_permissions"
                      ELSE "create")
  /\ Candidates(t, type, parent, added)
  /\ type # thread[t].type \/ parent # thread[t].parent =>
       Has(t, viewer, "edit_permissions")
  /\ type # thread[t].type =>
       type = "open" \/ (type = "secret" /\ t \notin Sidebars)
  /\ t = Root \/ thread[parent].depth < MaxDepth
  /\ parent # thread[t].parent => t \notin Sidebars
  /\ (\/ parent # thread[t].parent
      \/ (type = "sidebar") # (thread[t].type = "sidebar"))
     => Has(parent, viewer, "create")
  /\ WriteThread(t, [type |-> type, parent |-> parent,
                     depth |-> IF t = Root THEN 0
                               ELSE DepthBelow(parent)],
                 {}, added,
                 type # thread[t].type \/ parent # thread[t].parent)
  /\ misplaced' = (misplaced \/ (/\ thread'[t].depth # thread[t].depth
                                 /\ HasChildren(t)'))
  /\ misplaced' => requests < MaxMisplaced

PlanChangeset(plan) ==
  LET add(users, onlyNew) ==
        IF users = {} THEN NoChanges
        ELSE ChangeRole(plan.thread, users, Members, onlyNew)
      recalculated == IF plan.recalculate THEN Recalculate(plan.thread)
                      ELSE NoChanges
  IN Together(Together(add(plan.creator, FALSE), recalculated),
              add(plan.added, TRUE))

\* the changesets of a created or updated thread; an error leaves the
\* thread without them
Compute(j) ==
  /\ j \in jobs
  /\ \E changeset \in {PlanChangeset(p) : p \in j.plan} :
       LET error == changeset.refused \/ changeset.failed
       IN /\ jobs' = (jobs \ {j}) \cup
                       (IF error THEN {}
                        ELSE {[j EXCEPT !.plan = {}, !.rows = Rows(changeset)]})
          /\ damaged' = (damaged \/ error)
          /\ thrown' = (thrown \/ changeset.failed)
  /\ UNCHANGED <<thread, row, toRecalculate, misplaced, requests>>

\* commitMembershipChangeset
Commit(j) ==
  /\ j \in jobs /\ j.plan = {}
  /\ Write(j.rows)
  /\ jobs' = jobs \ {j}
  /\ UNCHANGED <<thread, toRecalculate, damaged, misplaced, thrown, requests>>

Saves(rows)   == {x \in DOMAIN rows : rows[x].permissions # NoPermissions}
Deletes(rows) == DOMAIN rows \ Saves(rows)

\* saveMemberships and deleteMemberships write in batches
membershipInsertBatchSize == 50

Batches(keys) ==
  {written \in SUBSET keys :
     written = keys \/ Cardinality(written) % membershipInsertBatchSize = 0}

\* The process dies when some batches of the saved and of the deleted rows,
\* which are written side by side, have been written.
Die(j, written) ==
  /\ j \in jobs /\ requests < MaxRequests
  /\ written # DOMAIN j.rows \/ j.plan # {}
  /\ Write([x \in written |-> j.rows[x]])
  /\ jobs' = jobs \ {j}
  /\ damaged' = TRUE
  /\ requests' = requests + 1
  /\ UNCHANGED <<thread, toRecalculate, misplaced, thrown>>

\* recalculateAllThreadPermissions: every thread on its own, in any order;
\* an error ends the script
StartRepair ==
  /\ damaged /\ jobs = {} /\ toRecalculate = {}
  /\ toRecalculate' = Created
  /\ UNCHANGED <<thread, row, jobs, damaged, misplaced, thrown, requests>>

Repair(t) ==
  /\ t \in toRecalculate
  /\ LET changeset == Recalculate(t)
     IN /\ IF changeset.failed THEN row' = row ELSE Write(Rows(changeset))
        /\ thrown' = (thrown \/ changeset.failed)
        /\ toRecalculate' = IF changeset.failed THEN {} ELSE toRecalculate \ {t}
        /\ damaged' = (changeset.failed \/ toRecalculate' # {})
  /\ UNCHANGED <<thread, jobs, misplaced, requests>>

Next ==
  \/ \E t \in Threads, u \in Users :
       \/ Join(t, u)
       \/ Leave(t, u)
       \/ \E viewer \in Users : Remove(t, u, viewer)
  \/ \E u, viewer \in Users, role \in {Members, Admins} :
       UpdateRole(u, viewer, role)
  \/ \E t, parent \in Threads, viewer \in Users, others \in SUBSET Users :
       \/ \E type \in {"open", "secret", "sidebar"} :
            CreateThread(t, type, parent, viewer, others)
       \/ \E type \in {"community", "open", "secret", "sidebar"} :
            UpdateThread(t, type, parent, viewer, others)
  \/ \E j \in jobs :
       \/ Compute(j)
       \/ Commit(j)
       \/ \E saved \in Batches(Saves(j.rows)), deleted \in Batches(Deletes(j.rows)) :
            Die(j, saved \cup deleted)
  \/ StartRepair
  \/ \E t \in toRecalculate : Repair(t)

Spec == Init /\ [][Next]_vars

-----------------------------------------------------------------------------
Keys == {"", "descendant", "child"} \X {"", "open", "toplevel", "opentoplevel"}
        \X {"know_of", "join_thread", "create", "edit_permissions"}

\* Type invariant: every blob is a partial function from keys to the threads
\* whose roles granted them, and the root is the only thread of depth 0.
TypeOK ==
  /\ \A t \in Threads :
       /\ thread[t].type \in {"none", "community", "open", "secret", "sidebar"}
       /\ thread[t].parent \in Threads
       /\ thread[t].depth \in 0 .. MaxDepth
       /\ t \in Created => (thread[t].depth = 0 <=> t = Root)
  /\ \A t \in Threads, u \in Users :
       /\ row[t][u].role \in {Ghost, Visitor, Members, Admins}
       /\ DOMAIN row[t][u].permissions \subseteq Keys
       /\ \A k \in DOMAIN row[t][u].permissions :
            row[t][u].permissions[k] \in Created
  /\ toRecalculate \subseteq Created
  /\ requests \in 0 .. MaxRequests

AtRest == jobs = {} /\ ~damaged

\* a row no different from what computing it from its parent and its
\* containing thread gives
Settled(t, u) ==
  Unchanged(row[t][u],
            NewRow(t, row[t][u].role, InContainer(t, u), FromParent(t, u)))

\* Walking down from the thread that changed, stopping at rows that do not
\* change and reading everything else from the table before the changeset
\* is written, leaves no row different from what computing it from its
\* parent and its containing thread would give; and the repair script gets
\* there after any handler that died.  Only a thread whose creation died
\* before it had a row may stay without one: walks do not find it, and the
\* script may have visited it before the parent it still had to repair.  Once
\* a thread is misplaced handlers and the script itself may fail, and so may
\* this.
Consistent ==
  AtRest /\ ~misplaced =>
    \A t \in {c \in Created : HasRows(c)}, u \in Users : Settled(t, u)

\* The repair script makes the rows of each thread it visits right, and
\* breaks none of a thread it has visited: it may go through the threads in
\* any order.
RepairedIsRight ==
  toRecalculate # {} /\ ~misplaced =>
    \A t \in {c \in Created \ toRecalculate : HasRows(c)}, u \in Users : Settled(t, u)

\* A user is admitted to a thread who is an admin of the community, or a
\* member of a thread that is open all the way down to this one.
Admitted(t, u) ==
  LET above[n \in 0 .. MaxDepth] ==
        IF n = 0 THEN t ELSE thread[above[n - 1]].parent
  IN \/ row[Root][u].role = Admins
     \/ \E n \in 0 .. MaxDepth :
          /\ IsMember(above[n], u)
          /\ thread[above[n]].type # "sidebar"
          /\ \A m \in 0 .. (n - 1) : thread[above[m]].type \in {"open", "sidebar"}

\* The prefixes of the permission keys do what lib/types/thread-types.js says
\* of the thread types: those admitted, and nobody else, know of a thread.
\* Leaving a community, being removed from a channel, a channel becoming
\* secret or moving elsewhere shut out exactly who should be shut out.
KnownToAdmitted ==
  AtRest /\ ~misplaced => \A t \in {c \in Created : HasRows(c)}, u \in Users :
    Has(t, u, "know_of") <=> Admitted(t, u)

\* The DepthQueue is not given a thread it has already passed, which makes
\* the request or the script fail, unless a thread has been moved to another
\* depth, or below itself, while others lay below it: no other sequence of
\* requests leaves a thread no deeper than its parent or its container.
ThrowsOnlyMisplaced == thrown => misplaced
=============================================================================
