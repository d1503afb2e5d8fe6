---------------------- MODULE ThreadPermissionsProofs ----------------------
(***************************************************************************)
(* Proofs about ThreadPermissions, for any community: any users, threads,  *)
(* depth and number of requests.  They rest on two facts: every thread     *)
(* lies one level below its parent (Tree), until one that others lie below *)
(* is moved to another depth, after which little more than the types is    *)
(* claimed; and nobody has anything to do with a thread that is not there  *)
(* (Table), so that what is joined, changed or moved below exists.  What a *)
(* changeset holds is then rows of threads there are, through every        *)
(* function that computes it.                                              *)
(*                                                                         *)
(* That the table is Consistent when all is committed rests on the walk:   *)
(* where it stops, rows stay right that were.  Where a plan writes a row   *)
(* twice, once recalculated and once with a member added, the two differ   *)
(* by what the added member's role grants and nothing else.                *)
(*                                                                         *)
(* Who knows of a thread follows from right rows, down the tree: the       *)
(* root's admins hand on knowing of all, members of other threads knowing  *)
(* of what is open below them.                                             *)
(***************************************************************************)
EXTENDS ThreadPermissions, WellFoundedInduction, TLAPS

-----------------------------------------------------------------------------
(* The inductive invariant.                                                *)

Types == {"none", "community", "open", "secret", "sidebar"}
Roles == {Ghost, Visitor, Members, Admins}

\* a blob: a partial function from keys to created threads
IsBlob(blob) ==
  DOMAIN blob \subseteq Keys /\ \A k \in DOMAIN blob : blob[k] \in Created

\* Only the root has admins, and nobody may change the root's own type or
\* parent.
EditRoot == <<"", "", "edit_permissions">>

Fits(r, t) ==
  IF t = Root THEN EditRoot \notin DOMAIN r.permissions ELSE r.role # Admins

\* a row of t
IsRow(r, t) == r.role \in Roles /\ IsBlob(r.permissions) /\ Fits(r, t)

\* a row of t as it is written
IsNewRow(r, t) == IsRow(r, t) /\ r.exists

\* rows of created threads, as a changeset holds them
AreRows(rows) ==
  /\ DOMAIN rows \subseteq Created \X Users
  /\ \A x \in DOMAIN rows : IsNewRow(rows[x], x[1])

\* what a created or changed thread leaves to be computed
Plans == [thread : Created, creator : SUBSET Users, added : SUBSET Users,
          recalculate : BOOLEAN]

\* Every thread lies below one community, one level below its parent as
\* long as none has been misplaced.
Tree ==
  /\ thread \in [Threads -> [type : Types, parent : Threads, depth : 0 .. MaxDepth]]
  /\ Root \in Created /\ thread[Root].depth = 0 /\ thread[Root].type = "community"
  /\ \A c \in Created \ {Root} :
       /\ thread[c].parent \in Created /\ thread[c].depth # 0
       /\ ~misplaced => thread[c].depth = thread[thread[c].parent].depth + 1

\* Where there is no row there is a ghost without permissions, and nobody has
\* anything to do with a thread that has not been created.
Table ==
  /\ \A t \in Threads, u \in Users : IsRow(row[t][u], t)
  /\ \A t \in Threads, u \in Users :
       ~row[t][u].exists => /\ row[t][u].role = Ghost
                            /\ row[t][u].permissions = NoPermissions
  /\ \A t \in Threads \ Created, u \in Users :
       row[t][u].role <= 0 /\ DOMAIN row[t][u].permissions = {}

\* a changeset that is not yet committed
IsJob(j) ==
  /\ j = [users |-> j.users, plan |-> j.plan, rows |-> j.rows]
  /\ j.plan \subseteq Plans
  /\ AreRows(j.rows)

Jobs == \A j \in jobs : IsJob(j)

\* The inductive invariant.
Inv ==
  /\ Tree /\ Table /\ Jobs
  /\ toRecalculate \subseteq Created
  /\ requests \in 0 .. MaxRequests
  /\ thrown => misplaced

\* It implies what is to be shown.
LEMMA InvIsEnough == Inv => TypeOK /\ ThrowsOnlyMisplaced
<1> SUFFICES ASSUME Inv PROVE TypeOK /\ ThrowsOnlyMisplaced
  OBVIOUS
<1> QED BY DEF Inv, Tree, Table, TypeOK, ThrowsOnlyMisplaced, IsRow, IsBlob, Types, Roles, Created

-----------------------------------------------------------------------------
(* The walk down the depths.                                               *)

\* Induction up to n: a least number outside S would have none before it.
LEMMA UpTo ==
  ASSUME NEW n \in Nat, NEW S, 0 \in S, \A d \in 1 .. n : d - 1 \in S => d \in S
  PROVE  0 .. n \subseteq S
<1> DEFINE Bad == (0 .. n) \ S
           R   == OpToRel(<, Nat)
<1>1. SUFFICES ASSUME Bad # {} PROVE FALSE
  OBVIOUS
<1>2. PICK m \in Bad : \A i \in Bad : ~(<<i, m>> \in R)
  <2>1. IsWellFoundedOn(R, Nat)  BY NatLessThanWellFounded
  <2>2. Bad \subseteq Nat  OBVIOUS
  <2> HIDE DEF Bad, R
  <2> QED BY <1>1, <2>1, <2>2, WFMin
<1>3. m \in 1 .. n /\ m \notin S
  <2>1. m \in 0 .. n /\ m \notin S  BY <1>2
  <2>2. m # 0  BY <2>1
  <2> QED BY <2>1, <2>2
<1>4. m - 1 \in 0 .. n /\ m \in Nat /\ m - 1 \in Nat /\ m - 1 < m  BY <1>3
<1>5. <<m - 1, m>> \in R  BY <1>4 DEF OpToRel
<1>6. m - 1 \notin Bad
  <2> HIDE DEF R, Bad
  <2> QED BY <1>2, <1>5
<1>7. m - 1 \in S  BY <1>4, <1>6
<1> QED BY <1>3, <1>7

\* where the walk starts
Start(changes) == [known |-> Spread(Nothing, Affecting(changes)),
                   rows |-> << >>, failed |-> FALSE]

\* A walk can be taken to any depth: the least depth it could not be taken
\* to would be one below a depth it can be taken to.
LEMMA WalkTo ==
  ASSUME NEW changes, NEW n \in Nat
  PROVE  \E f : f[0] = Start(changes)
                /\ \A d \in 1 .. n : f[d] = Deeper(f[d - 1], d)
<1> DEFINE Good(m) == \E f : f[0] = Start(changes)
                             /\ \A d \in 1 .. m : f[d] = Deeper(f[d - 1], d)
           Bad == {m \in Nat : ~Good(m)}
           R   == OpToRel(<, Nat)
<1>1. SUFFICES ASSUME Bad # {} PROVE FALSE
  OBVIOUS
<1>2. PICK m \in Bad : \A i \in Bad : ~(<<i, m>> \in R)
  <2>1. IsWellFoundedOn(R, Nat)  BY NatLessThanWellFounded
  <2>2. Bad \subseteq Nat  OBVIOUS
  <2> HIDE DEF Bad, R
  <2> QED BY <1>1, <2>1, <2>2, WFMin
<1>3. Good(0)
  <2> DEFINE f == [d \in {0} |-> Start(changes)]
  <2>1. f[0] = Start(changes)  OBVIOUS
  <2>2. 1 .. 0 = {}  OBVIOUS
  <2> QED BY <2>1, <2>2
<1>4. m \in Nat /\ ~Good(m) /\ m # 0  BY <1>3
<1>5. Good(m - 1)
  <2>1. m - 1 \in Nat /\ m - 1 < m  BY <1>4
  <2>2. <<m - 1, m>> \in R  BY <1>4, <2>1 DEF OpToRel
  <2> HIDE DEF Good, R
  <2> QED BY <1>2, <2>1, <2>2
<1>6. PICK f : /\ f[0] = Start(changes)
               /\ \A d \in 1 .. (m - 1) : f[d] = Deeper(f[d - 1], d)
  BY <1>5
<1> DEFINE g == [d \in 0 .. m |-> IF d = m THEN Deeper(f[m - 1], m) ELSE f[d]]
<1>7. g[0] = Start(changes)  BY <1>4, <1>6
<1>8. \A d \in 1 .. m : g[d] = Deeper(g[d - 1], d)
  <2> SUFFICES ASSUME NEW d \in 1 .. m PROVE g[d] = Deeper(g[d - 1], d)
    OBVIOUS
  <2>1. g[d - 1] = f[d - 1]  BY <1>4
  <2>2. CASE d = m  BY <1>4, <2>1, <2>2
  <2>3. CASE d # m
    <3>1. d \in 1 .. (m - 1) /\ g[d] = f[d]  BY <1>4, <2>3
    <3> QED BY <1>6, <2>1, <3>1
  <2> QED BY <2>2, <2>3
<1> HIDE DEF g
<1> QED BY <1>4, <1>7, <1>8

\* Descend takes this walk to the greatest depth.
LEMMA DescendIsWalk ==
  ASSUME NEW changes
  PROVE  \E w : /\ w[0] = Start(changes)
                /\ \A d \in 1 .. MaxDepth : w[d] = Deeper(w[d - 1], d)
                /\ Descend(changes) = w[MaxDepth]
<1> DEFINE walk[d \in 0 .. MaxDepth] ==
             IF d = 0
             THEN [known |-> Spread(Nothing, Affecting(changes)),
                   rows |-> << >>, failed |-> FALSE]
             ELSE Deeper(walk[d - 1], d)
<1>1. Descend(changes) = walk[MaxDepth]
  BY DEF Descend
<1>2. \E w : w = [d \in 0 .. MaxDepth |-> IF d = 0 THEN Start(changes)
                                          ELSE Deeper(w[d - 1], d)]
  <2>1. PICK f : /\ f[0] = Start(changes)
                 /\ \A d \in 1 .. MaxDepth : f[d] = Deeper(f[d - 1], d)
    BY WalkTo, BoundsAssumption
  <2> DEFINE w == [d \in 0 .. MaxDepth |-> f[d]]
  <2>2. ASSUME NEW d \in 0 .. MaxDepth
        PROVE  w[d] = IF d = 0 THEN Start(changes) ELSE Deeper(w[d - 1], d)
    <3>1. CASE d = 0  BY <2>1, <3>1
    <3>2. CASE d # 0
      <4>1. d \in 1 .. MaxDepth /\ d - 1 \in 0 .. MaxDepth
        BY <3>2, BoundsAssumption
      <4>2. w[d - 1] = f[d - 1]  BY <4>1
      <4> QED BY <2>1, <3>2, <4>1, <4>2
    <3> QED BY <3>1, <3>2
  <2>3. w = [d \in 0 .. MaxDepth |-> IF d = 0 THEN Start(changes)
                                     ELSE Deeper(w[d - 1], d)]
    BY <2>2
  <2> HIDE DEF w
  <2> QED BY <2>3
<1>3. walk = [d \in 0 .. MaxDepth |-> IF d = 0 THEN Start(changes)
                                      ELSE Deeper(walk[d - 1], d)]
  BY <1>2 DEF Start
<1> HIDE DEF walk
<1>4. walk[0] = Start(changes)  BY <1>3, BoundsAssumption
<1>5. ASSUME NEW d \in 1 .. MaxDepth PROVE walk[d] = Deeper(walk[d - 1], d)
  <2>1. d \in 0 .. MaxDepth /\ d # 0  BY BoundsAssumption
  <2> QED BY <1>3, <2>1
<1> QED BY <1>1, <1>4, <1>5

-----------------------------------------------------------------------------
(* Blobs and rows.                                                         *)

\* what one function lies over another holds what either of them holds
LEMMA OverKeeps ==
  ASSUME NEW f, NEW g
  PROVE  /\ DOMAIN Over(f, g) \subseteq DOMAIN f \cup DOMAIN g
         /\ \A x \in DOMAIN Over(f, g) : \/ x \in DOMAIN f /\ Over(f, g)[x] = f[x]
                                         \/ x \in DOMAIN g /\ Over(f, g)[x] = g[x]
BY DEF Over

\* the keys, one by one
LEMMA KeysAreTriples ==
  \A k1 \in {"", "descendant", "child"},
     k2 \in {"", "open", "toplevel", "opentoplevel"},
     k3 \in {"know_of", "join_thread", "create", "edit_permissions"} :
       <<k1, k2, k3>> \in Keys
BY DEF Keys

\* what a role grants are keys
LEMMA RoleKeys ==
  ASSUME NEW type, NEW role
  PROVE  RolePermissions(type, role) \subseteq Keys
<1>1. OpenToDescendants \subseteq Keys /\ KnowOf \in Keys
  BY KeysAreTriples, ZenonT(30) DEF OpenToDescendants, KnowOf
<1>2. MemberPermissions(type) \subseteq Keys
  <2>1. <<"", "", "edit_permissions">> \in Keys  BY KeysAreTriples, ZenonT(30)
  <2>2. <<"", "", "create">> \in Keys  BY KeysAreTriples, ZenonT(30)
  <2> QED BY <1>1, <2>1, <2>2, ZenonT(30) DEF MemberPermissions
<1>3. AdminPermissions \subseteq Keys
  BY <1>1, KeysAreTriples, ZenonT(30) DEF AdminPermissions
<1> QED BY <1>2, <1>3 DEF RolePermissions, Members, Admins

\* what a child gets from its parent's blob for children
LEMMA InheritedIsBlob ==
  ASSUME Root \in Created, NEW from, IsBlob(from), NEW type
  PROVE  IsBlob(Inherited(from, type))
<1> DEFINE kept == {k \in DOMAIN from : Included(k, type)}
           of(key) == {from[k] : k \in {j \in kept : InChild(j) = key}}
<1>1. Inherited(from, type) =
        [key \in {InChild(k) : k \in kept} |-> LastSource(of(key))]
  BY DEF Inherited
<1>2. \A k \in kept : k \in Keys /\ from[k] \in Created
  BY DEF IsBlob
<1>3. \A k \in Keys : InChild(k) \in Keys
  BY DEF Keys, InChild
<1>4. ASSUME NEW S \in SUBSET Created, S # {} PROVE LastSource(S) \in Created
  <2>1. S # {Root} => \E s \in S : s # Root  BY <1>4
  <2> QED BY <2>1 DEF LastSource
<1>5. ASSUME NEW k \in kept PROVE LastSource(of(InChild(k))) \in Created
  <2>1. of(InChild(k)) \in SUBSET Created  BY <1>2
  <2>2. from[k] \in of(InChild(k))  OBVIOUS
  <2> HIDE DEF of
  <2> QED BY <1>4, <2>1, <2>2
<1> HIDE DEF kept, of
<1> QED BY <1>1, <1>2, <1>3, <1>5 DEF IsBlob

\* the permissions of a role on top of what is inherited
LEMMA WithRoleIsBlob ==
  ASSUME NEW from, IsBlob(from), NEW keys \in SUBSET Keys, NEW t \in Created
  PROVE  IsBlob(WithRole(from, keys, t))
<1> DEFINE granted == [k \in keys |-> t]
<1>1. IsBlob(granted)  BY DEF IsBlob
<1> HIDE DEF granted
<1>2. IsBlob(Over(granted, from))  BY <1>1, OverKeeps DEF IsBlob
<1> QED BY <1>2 DEF WithRole, granted

\* what a blob grants to children
LEMMA ForChildrenIsBlob ==
  ASSUME NEW blob, IsBlob(blob)
  PROVE  IsBlob(PermissionsForChildren(blob))
<1> DEFINE keys  == {k \in DOMAIN blob : Propagates(k)}
           short == {<<"", k[2], k[3]>> : k \in keys}
           long  == {j \in keys : j[1] = "descendant"}
           pick(c) == CHOOSE k \in keys : <<"", k[2], k[3]>> = c
           plain == [c \in short |-> blob[pick(c)]]
           deep  == [k \in long |-> blob[k]]
<1>1. PermissionsForChildren(blob) = Over(deep, plain)
  BY DEF PermissionsForChildren
<1>2. keys \subseteq Keys /\ \A k \in keys : blob[k] \in Created
  BY DEF IsBlob
<1>3. short \subseteq Keys
  <2> SUFFICES ASSUME NEW k \in keys PROVE <<"", k[2], k[3]>> \in Keys
    OBVIOUS
  <2> QED BY <1>2 DEF Keys
<1>4. ASSUME NEW c \in short PROVE blob[pick(c)] \in Created
  <2>1. pick(c) \in keys  BY <1>4
  <2> HIDE DEF pick
  <2> QED BY <1>2, <2>1
<1>5. IsBlob(plain)  BY <1>3, <1>4 DEF IsBlob
<1>6. IsBlob(deep)  BY <1>2 DEF IsBlob
<1> HIDE DEF plain, deep
<1>7. IsBlob(Over(deep, plain))  BY <1>5, <1>6, OverKeeps DEF IsBlob
<1> QED BY <1>1, <1>7

\* a row with the role its permissions leave it
LEMMA RowOfIsRow ==
  ASSUME NEW role \in Roles, NEW blob, IsBlob(blob), NEW t,
         IF t = Root THEN EditRoot \notin DOMAIN blob ELSE role # Admins
  PROVE  IsNewRow(RowOf(role, blob), t)
<1> DEFINE as == RoleForPermissions(role, blob)
<1>1. as \in Roles /\ (t # Root => as # Admins)
  BY DEF RoleForPermissions, Roles, Ghost, Visitor, Members, Admins
<1>2. RowOf(role, blob) = [role |-> as, permissions |-> blob, exists |-> TRUE]
  BY DEF RowOf
<1> DEFINE r == RowOf(role, blob)
<1> HIDE DEF as, r
<1>3. r.role = as /\ r.permissions = blob  BY <1>2 DEF r
<1>4. r.exists  BY <1>2 DEF r
<1>5. IsNewRow(r, t)  BY <1>1, <1>3, <1>4 DEF IsNewRow, IsRow, Fits
<1> QED BY <1>5 DEF r

\* No role of a community lets its members change the root.
LEMMA RootIsFixed ==
  ASSUME thread[Root].type = "community", NEW role \in Roles, NEW member
  PROVE  EditRoot \notin DOMAIN NewRow(Root, role, member, NoPermissions).permissions
<1> DEFINE keys == IF member THEN RolePermissions("community", role) ELSE {}
           blob == MakePermissionsBlob(keys, NoPermissions, Root)
           as   == IF member THEN role ELSE Ghost
<1>1. NewRow(Root, role, member, NoPermissions) = RowOf(as, blob)
  BY DEF NewRow
<1>2. EditRoot \notin keys
  <2>1. EditRoot \notin MemberPermissions("community")
    BY DEF EditRoot, MemberPermissions, KnowOf, OpenToDescendants
  <2>2. EditRoot \notin AdminPermissions
    BY DEF EditRoot, AdminPermissions, KnowOf
  <2> QED BY <2>1, <2>2 DEF RolePermissions, Members, Admins
<1> HIDE DEF keys, as
<1>3. Inherited(NoPermissions, "community") = NoPermissions
  BY DEF Inherited, NoPermissions
<1>4. DOMAIN blob \subseteq keys
  <2> DEFINE some == [k \in keys |-> Root]  none == NoPermissions
  <2>1. DOMAIN some = keys /\ DOMAIN none = {}  BY DEF NoPermissions
  <2> HIDE DEF some, none
  <2>2. DOMAIN Over(some, none) \subseteq DOMAIN some \cup DOMAIN none  BY OverKeeps
  <2>3. blob = none \/ blob = Over(some, none)
    BY <1>3 DEF MakePermissionsBlob, WithRole, some, none
  <2> HIDE DEF blob
  <2> QED BY <2>1, <2>2, <2>3
<1> HIDE DEF blob
<1>5. RowOf(as, blob).permissions = blob  BY DEF RowOf
<1> QED BY <1>1, <1>2, <1>4, <1>5

\* Whatever a parent grants and whoever is a member, the new row is a row.
LEMMA NewRowIsRow ==
  ASSUME Tree, NEW t \in Created, NEW role \in Roles, NEW member,
         NEW from, IsBlob(from),
         IF t = Root THEN from = NoPermissions ELSE role # Admins
  PROVE  IsNewRow(NewRow(t, role, member, from), t)
<1> DEFINE keys == IF member THEN RolePermissions(thread[t].type, role) ELSE {}
           blob == MakePermissionsBlob(keys, from, t)
           as   == IF member THEN role ELSE Ghost
<1>1. NewRow(t, role, member, from) = RowOf(as, blob)
  BY DEF NewRow
<1>2. keys \in SUBSET Keys  BY RoleKeys
<1>3. as \in Roles /\ (t # Root => as # Admins)
  BY DEF Roles, Ghost, Visitor, Members, Admins
<1>4. IsBlob(blob)
  <2> HIDE DEF keys
  <2>1. IsBlob(Inherited(from, thread[t].type))  BY InheritedIsBlob DEF Tree
  <2> QED BY <1>2, <2>1, WithRoleIsBlob DEF MakePermissionsBlob
<1>5. t = Root => EditRoot \notin DOMAIN blob
  <2>1. RowOf(as, blob).permissions = blob  BY DEF RowOf
  <2>2. thread[Root].type = "community"  BY DEF Tree
  <2> HIDE DEF as, blob
  <2> QED BY <1>1, <2>1, <2>2, RootIsFixed
<1> HIDE DEF blob, as
<1> QED BY <1>1, <1>3, <1>4, <1>5, RowOfIsRow

-----------------------------------------------------------------------------
(* What is computed of the descendants.                                    *)

\* what parents will grant are blobs
IsKnown(known) ==
  \A c \in Threads, u \in Users :
    \A g \in known[c][u].granted : c # Root /\ IsBlob(g)

\* how far a walk has got
IsWalk(w) == IsKnown(w.known) /\ AreRows(w.rows) /\ (w.failed => misplaced)

\* the changes whose descendants are looked at are among the changes
LEMMA AffectingAreRows ==
  ASSUME NEW changes, AreRows(changes)
  PROVE  AreRows(Affecting(changes)) /\ DOMAIN Affecting(changes) \subseteq DOMAIN changes
<1> DEFINE some == {y \in DOMAIN changes : Affects(row[y[1]][y[2]], changes[y])}
<1>1. Affecting(changes) = [x \in some |-> changes[x]]  BY DEF Affecting
<1>2. some \subseteq DOMAIN changes  OBVIOUS
<1> HIDE DEF some
<1> QED BY <1>1, <1>2 DEF AreRows

\* so are the rows that change
LEMMA ChangingAreRows ==
  ASSUME NEW rows, AreRows(rows)
  PROVE  AreRows(Changing(rows)) /\ DOMAIN Changing(rows) \subseteq DOMAIN rows
<1> DEFINE some == {y \in DOMAIN rows : ~Unchanged(row[y[1]][y[2]], rows[y])}
<1>1. Changing(rows) = [x \in some |-> rows[x]]  BY DEF Changing
<1>2. some \subseteq DOMAIN rows  OBVIOUS
<1> HIDE DEF some
<1> QED BY <1>1, <1>2 DEF AreRows

\* rows laid over rows
LEMMA OverAreRows ==
  ASSUME NEW f, NEW g, AreRows(f), AreRows(g)
  PROVE  AreRows(Over(f, g))
BY OverKeeps DEF AreRows

\* Before a walk nothing is known.
LEMMA NothingIsKnown == IsKnown(Nothing)
BY DEF IsKnown, Nothing

\* What a change makes known of children are blobs.
LEMMA SpreadIsKnown ==
  ASSUME NEW known, IsKnown(known), NEW changes, AreRows(changes)
  PROVE  IsKnown(Spread(known, changes))
<1> SUFFICES ASSUME NEW c \in Threads, NEW u \in Users,
                    NEW g \in Spread(known, changes)[c][u].granted
             PROVE  c # Root /\ IsBlob(g)
  BY DEF IsKnown
<1> DEFINE x == <<thread[c].parent, u>>
           blob == PermissionsForChildren(changes[x].permissions)
<1>1. g \in (IF x \in DOMAIN changes /\ c \in Found(thread[c].parent)
             THEN {blob} ELSE known[c][u].granted)
  BY DEF Spread
<1>2. CASE x \in DOMAIN changes /\ c \in Found(thread[c].parent) /\ g = blob
  <2>1. IsBlob(changes[x].permissions)  BY <1>2 DEF AreRows, IsNewRow, IsRow
  <2>2. c # Root  BY <1>2 DEF Found, Below
  <2> QED BY <1>2, <2>1, <2>2, ForChildrenIsBlob
<1>3. CASE g \in known[c][u].granted
  BY <1>3 DEF IsKnown
<1> HIDE DEF x, blob
<1> QED BY <1>1, <1>2, <1>3

\* what the table says a parent grants
LEMMA FromParentIsBlob ==
  ASSUME Tree, Table, NEW t \in Created, NEW u \in Users
  PROVE  IsBlob(FromParent(t, u)) /\ (t = Root => FromParent(t, u) = NoPermissions)
<1>1. CASE t = Root
  BY <1>1 DEF FromParent, NoPermissions, IsBlob
<1>2. CASE t # Root
  <2>1. thread[t].parent \in Threads  BY <1>2 DEF Tree, Created
  <2>2. IsBlob(row[thread[t].parent][u].permissions)  BY <2>1 DEF Table, IsRow
  <2> QED BY <1>2, <2>2, ForChildrenIsBlob DEF FromParent
<1> QED BY <1>1, <1>2

\* the row of a descendant, from what is known or from the table
LEMMA DescendantRowIsRow ==
  ASSUME Tree, Table, NEW known, IsKnown(known), NEW c \in Created, NEW u \in Users
  PROVE  IsNewRow(DescendantRow(known, c, u), c)
<1> DEFINE from == IF row[c][u].exists THEN FromParent(c, u) ELSE NoPermissions
           member == row[c][u].exists /\ InContainer(c, u)
           as == CHOOSE m \in BOOLEAN :
                   IF known[c][u].member = {} THEN m = member
                   ELSE m \in known[c][u].member
           granted == known[c][u].granted
           blob == IF granted = {} THEN from ELSE CHOOSE g \in granted : TRUE
<1>1. DescendantRow(known, c, u) = NewRow(c, row[c][u].role, as, blob)
  BY DEF DescendantRow
<1>2. c \in Threads  BY DEF Created
<1>3. IsBlob(from) /\ (c = Root => from = NoPermissions)
  <2>1. IsBlob(NoPermissions)  BY DEF NoPermissions, IsBlob
  <2> QED BY <2>1, FromParentIsBlob
<1>4. IsBlob(blob) /\ (c = Root => blob = NoPermissions)
  <2>1. \A g \in granted : c # Root /\ IsBlob(g)  BY <1>2 DEF IsKnown
  <2> HIDE DEF granted, from
  <2> QED BY <1>3, <2>1
<1>5. row[c][u].role \in Roles /\ (c # Root => row[c][u].role # Admins)
  BY <1>2 DEF Table, IsRow, Fits
<1> HIDE DEF as, blob
<1> QED BY <1>1, <1>4, <1>5, NewRowIsRow

\* A layer holds rows of threads of its depth.
LEMMA LayerAreRows ==
  ASSUME Tree, Table, NEW known, IsKnown(known), NEW d
  PROVE  /\ AreRows(Layer(known, d))
         /\ \A x \in DOMAIN Layer(known, d) : thread[x[1]].depth = d
<1> DEFINE at == {y \in Created \X Users :
                   thread[y[1]].depth = d /\ NeedsUpdate(known, y[1], y[2])}
           rows == [x \in at |-> DescendantRow(known, x[1], x[2])]
<1>1. Layer(known, d) = Changing(rows)  BY DEF Layer
<1>2. at \subseteq Created \X Users /\ \A x \in at : thread[x[1]].depth = d
  OBVIOUS
<1>3. ASSUME NEW x \in at PROVE IsNewRow(DescendantRow(known, x[1], x[2]), x[1])
  <2>1. x[1] \in Created /\ x[2] \in Users  BY <1>2
  <2> QED BY <2>1, DescendantRowIsRow
<1> HIDE DEF at
<1>4. AreRows(rows)  BY <1>2, <1>3 DEF AreRows
<1>5. DOMAIN rows = at  OBVIOUS
<1> HIDE DEF rows
<1> QED BY <1>1, <1>2, <1>4, <1>5, ChangingAreRows

\* A thread that is found below another lies deeper.
LEMMA FoundIsDeeper ==
  ASSUME Tree, ~misplaced, NEW a, NEW c \in Found(a)
  PROVE  thread[c].depth > thread[a].depth
<1>1. c \in Created \ {Root} /\ (a = thread[c].parent \/ a = Container(c))
  BY DEF Found, Below
<1>2. /\ thread[c].parent \in Threads /\ c \in Threads
      /\ thread[c].depth = thread[thread[c].parent].depth + 1
  BY <1>1 DEF Tree, Created
<1>3. thread[thread[c].parent].depth \in Nat /\ thread[Root].depth = 0
  BY <1>2, BoundsAssumption DEF Tree
<1>4. a = thread[c].parent \/ a = Root  BY <1>1 DEF Container
<1> QED BY <1>2, <1>3, <1>4

\* A layer finds only deeper threads, so that the walk goes on.
LEMMA AddLayerIsWalk ==
  ASSUME Tree, NEW above, IsWalk(above), NEW layer, AreRows(layer), NEW d \in Nat,
         \A x \in DOMAIN layer : thread[x[1]].depth = d
  PROVE  IsWalk(AddLayer(above, layer, d))
<1> DEFINE down == Affecting(layer)
           fails == \/ above.failed
                    \/ \E x \in DOMAIN down : \E c \in Found(x[1]) :
                         thread[c].depth <= d
           known == Spread(above.known, down)
           rows == Over(layer, above.rows)
<1>1. AddLayer(above, layer, d) = [known |-> known, rows |-> rows, failed |-> fails]
  BY DEF AddLayer
<1>2. AreRows(down) /\ DOMAIN down \subseteq DOMAIN layer
  BY AffectingAreRows
<1>3. IsKnown(known)
  <2> HIDE DEF down
  <2> QED BY <1>2, SpreadIsKnown DEF IsWalk
<1>4. AreRows(rows)  BY OverAreRows DEF IsWalk
<1>5. fails => misplaced
  <2> SUFFICES ASSUME ~misplaced, NEW x \in DOMAIN down, NEW c \in Found(x[1])
               PROVE  ~(thread[c].depth <= d)
    BY DEF IsWalk
  <2>1. thread[x[1]].depth = d  BY <1>2
  <2>2. thread[c].depth > d  BY <2>1, FoundIsDeeper
  <2>3. thread[c].depth \in Int
    BY BoundsAssumption DEF Found, Below, Created, Tree
  <2> QED BY <2>2, <2>3
<1> DEFINE w == AddLayer(above, layer, d)
<1> HIDE DEF known, rows, fails, w
<1>6. w.known = known /\ w.rows = rows /\ (w.failed => misplaced)  BY <1>1, <1>5 DEF w
<1>7. IsWalk(w)  BY <1>3, <1>4, <1>6 DEF IsWalk
<1> QED BY <1>7 DEF w

\* the same for the layer Deeper computes
LEMMA DeeperIsWalk ==
  ASSUME Tree, Table, NEW above, IsWalk(above), NEW d \in Nat
  PROVE  IsWalk(Deeper(above, d))
<1> DEFINE layer == Layer(above.known, d)
<1>1. AreRows(layer) /\ \A x \in DOMAIN layer : thread[x[1]].depth = d
  BY LayerAreRows DEF IsWalk
<1> HIDE DEF layer
<1>2. IsWalk(AddLayer(above, layer, d))  BY <1>1, AddLayerIsWalk
<1> QED BY <1>2 DEF Deeper, layer

\* the walk before its first layer
LEMMA StartIsWalk ==
  ASSUME NEW changes, AreRows(changes)
  PROVE  IsWalk(Start(changes))
<1> DEFINE known == Spread(Nothing, Affecting(changes))
           rows == << >>
           s == [known |-> known, rows |-> rows, failed |-> FALSE]
<1>1. AreRows(rows)  BY DEF AreRows
<1>2. IsKnown(known)  BY AffectingAreRows, NothingIsKnown, SpreadIsKnown
<1> HIDE DEF known, rows
<1>3. s.known = known /\ s.rows = rows /\ ~s.failed  OBVIOUS
<1> HIDE DEF s
<1>4. IsWalk(s)  BY <1>1, <1>2, <1>3 DEF IsWalk
<1> QED BY <1>4 DEF Start, s, known, rows

\* Whatever changes, the walk down from there gathers rows and is never
\* given a thread it has passed.
LEMMA DescendSucceeds ==
  ASSUME Tree, Table, NEW changes, AreRows(changes)
  PROVE  IsWalk(Descend(changes))
<1>1. PICK w : /\ w[0] = Start(changes)
               /\ \A d \in 1 .. MaxDepth : w[d] = Deeper(w[d - 1], d)
               /\ Descend(changes) = w[MaxDepth]
  BY DescendIsWalk
<1> DEFINE Good == {d \in 0 .. MaxDepth : IsWalk(w[d])}
<1>2. 0 \in Good  BY <1>1, StartIsWalk, BoundsAssumption
<1>3. ASSUME NEW d \in 1 .. MaxDepth, d - 1 \in Good PROVE d \in Good
  <2>1. IsWalk(w[d - 1]) /\ d \in Nat /\ d \in 0 .. MaxDepth
    BY <1>3, BoundsAssumption
  <2>2. IsWalk(Deeper(w[d - 1], d))  BY <2>1, DeeperIsWalk
  <2> QED BY <1>1, <2>1, <2>2
<1> HIDE DEF Good
<1>4. 0 .. MaxDepth \subseteq Good  BY <1>2, <1>3, UpTo, BoundsAssumption
<1>5. MaxDepth \in Good  BY <1>4, BoundsAssumption
<1> QED BY <1>1, <1>5 DEF Good

-----------------------------------------------------------------------------
(* Changesets.                                                             *)

IsChangeset(c) ==
  AreRows(c.intended) /\ AreRows(c.other) /\ (c.failed => misplaced)

\* A changeset and what the walk below it has found are a changeset.
LEMMA AndBelowIsChangeset ==
  ASSUME NEW intended, NEW other, NEW refused, AreRows(intended), AreRows(other),
         NEW below, IsWalk(below),
         NEW c, c = [intended |-> intended, other |-> other,
                     refused |-> refused, failed |-> FALSE]
  PROVE  IsChangeset(AndBelow(c, below))
<1> DEFINE rows == Over(below.rows, other)
           fails == below.failed
           b == AndBelow(c, below)
<1>1. AreRows(rows)  BY OverAreRows DEF IsWalk
<1>2. fails => misplaced  BY DEF IsWalk
<1>3. b = [c EXCEPT !.other = Over(below.rows, c.other), !.failed = fails]
  BY DEF AndBelow
<1>4. c.other = other /\ c.intended = intended  OBVIOUS
<1> HIDE DEF rows, fails, b
<1>5. b.intended = intended /\ b.other = rows /\ b.failed = fails
  BY <1>3, <1>4 DEF rows
<1>6. IsChangeset(b)  BY <1>1, <1>2, <1>5 DEF IsChangeset
<1> QED BY <1>6 DEF b

\* the empty changeset
LEMMA NoChangesIsChangeset == IsChangeset(NoChanges)
BY DEF IsChangeset, NoChanges, AreRows

\* rows with an intent, put into an empty changeset
LEMMA WithIntent ==
  ASSUME NEW none, NEW no, NEW rows, NEW refused,
         NEW c, c = [intended |-> none, other |-> none, refused |-> no, failed |-> no],
         NEW d, d = [c EXCEPT !.intended = rows, !.refused = refused]
  PROVE  d = [intended |-> rows, other |-> none, refused |-> refused, failed |-> no]
OBVIOUS

\* changeRole computes a changeset
LEMMA ChangeRoleIsChangeset ==
  ASSUME Tree, Table, NEW t \in Created, NEW users \in SUBSET Users,
         NEW role \in Roles, t = Root \/ role # Admins, NEW onlyNew
  PROVE  IsChangeset(ChangeRole(t, users, role, onlyNew))
<1> DEFINE old(u) == row[t][u]
           new(u) == NewRow(t, role, IF role > 0 THEN InContainer(t, u) ELSE t = Root,
                            FromParent(t, u))
           considered == {u \in users : /\ ~(old(u).exists /\ old(u).role = role)
                                        /\ ~(onlyNew /\ old(u).role > 0)}
           written == {u \in considered :
                         ~(old(u).exists /\ Unchanged(old(u), new(u)))}
           rows == [x \in {t} \X written |-> new(x[2])]
           refused == \E u \in considered : (role > 0) # (new(u).role > 0)
           c == [NoChanges EXCEPT !.intended = rows, !.refused = refused]
<1>1. ChangeRole(t, users, role, onlyNew) = AndBelow(c, Descend(rows))
  BY DEF ChangeRole
<1>2. AreRows(rows)
  <2>1. written \subseteq Users  OBVIOUS
  <2>2. ASSUME NEW u \in Users PROVE IsNewRow(new(u), t)
    <3>1. IsBlob(FromParent(t, u)) /\ (t = Root => FromParent(t, u) = NoPermissions)
      BY FromParentIsBlob
    <3> QED BY <3>1, NewRowIsRow
  <2> HIDE DEF written, new
  <2> QED BY <2>1, <2>2 DEF AreRows
<1>3. c = [intended |-> rows, other |-> << >>, refused |-> refused, failed |-> FALSE]
  <2> DEFINE none == << >>  no == FALSE
  <2>1. NoChanges = [intended |-> none, other |-> none, refused |-> no, failed |-> no]
    BY DEF NoChanges
  <2> HIDE DEF rows, refused, none, no
  <2>2. c = [intended |-> rows, other |-> none, refused |-> refused, failed |-> no]
    <3> DEFINE before == NoChanges
    <3>1. c = [before EXCEPT !.intended = rows, !.refused = refused]
      OBVIOUS
    <3>2. before = [intended |-> none, other |-> none, refused |-> no, failed |-> no]
      BY <2>1
    <3> HIDE DEF before, c
    <3> QED BY <3>1, <3>2, WithIntent
  <2> QED BY <2>2 DEF none, no
<1>4. AreRows(<< >>)  BY DEF AreRows
<1> HIDE DEF rows, refused, c
<1>5. IsWalk(Descend(rows))  BY <1>2, DescendSucceeds
<1>6. IsChangeset(AndBelow(c, Descend(rows)))
  <2> DEFINE below == Descend(rows)  none == << >>
  <2>1. AreRows(none) /\ IsWalk(below)  BY <1>4, <1>5
  <2>2. c = [intended |-> rows, other |-> none, refused |-> refused, failed |-> FALSE]
    BY <1>3
  <2> HIDE DEF below, none
  <2>3. IsChangeset(AndBelow(c, below))  BY <1>2, <2>1, <2>2, AndBelowIsChangeset
  <2> QED BY <2>3 DEF below
<1> QED BY <1>1, <1>6

\* recalculateThreadPermissions computes a changeset
LEMMA RecalculateIsChangeset ==
  ASSUME Tree, Table, NEW t \in Created
  PROVE  IsChangeset(Recalculate(t))
<1> DEFINE new(u) == NewRow(t, row[t][u].role, InContainer(t, u), FromParent(t, u))
           every == [x \in {t} \X Users |-> new(x[2])]
           rows == Changing(every)
           c == [NoChanges EXCEPT !.other = rows]
<1>1. Recalculate(t) = AndBelow(c, Descend(rows))
  BY DEF Recalculate
<1>2. AreRows(rows)
  <2>1. ASSUME NEW u \in Users PROVE IsNewRow(new(u), t)
    <3>1. IsBlob(FromParent(t, u)) /\ (t = Root => FromParent(t, u) = NoPermissions)
      BY FromParentIsBlob
    <3>2. row[t][u].role \in Roles /\ (t # Root => row[t][u].role # Admins)
      BY DEF Table, IsRow, Fits, Created
    <3> QED BY <3>1, <3>2, NewRowIsRow
  <2> HIDE DEF new
  <2>2. AreRows(every)  BY <2>1 DEF AreRows
  <2> HIDE DEF every
  <2> QED BY <2>2, ChangingAreRows
<1>3. c = [intended |-> << >>, other |-> rows, refused |-> FALSE, failed |-> FALSE]
  <2> DEFINE none == << >>  no == FALSE
  <2>1. NoChanges = [intended |-> none, other |-> none, refused |-> no, failed |-> no]
    BY DEF NoChanges
  <2> HIDE DEF rows, none, no
  <2>2. c = [intended |-> none, other |-> rows, refused |-> no, failed |-> no]
    BY <2>1
  <2> QED BY <2>2 DEF none, no
<1>4. AreRows(<< >>)  BY DEF AreRows
<1> HIDE DEF rows, c
<1>5. IsWalk(Descend(rows))  BY <1>2, DescendSucceeds
<1>6. IsChangeset(AndBelow(c, Descend(rows)))
  <2> DEFINE below == Descend(rows)  none == << >>  refused == FALSE
  <2>1. AreRows(none) /\ IsWalk(below)  BY <1>4, <1>5
  <2>2. c = [intended |-> none, other |-> rows, refused |-> refused, failed |-> FALSE]
    BY <1>3
  <2> HIDE DEF below, none, refused
  <2>3. IsChangeset(AndBelow(c, below))  BY <1>2, <2>1, <2>2, AndBelowIsChangeset
  <2> QED BY <2>3 DEF below
<1> QED BY <1>1, <1>6

\* two changesets in one
LEMMA TogetherIsChangeset ==
  ASSUME NEW first, IsChangeset(first), NEW second, IsChangeset(second)
  PROVE  IsChangeset(Together(first, second))
<1> DEFINE intended == Over(first.intended, second.intended)
           other == Over(second.other, first.other)
           refused == first.refused \/ second.refused
           failed == first.failed \/ second.failed
           c == Together(first, second)
<1>1. c = [intended |-> intended, other |-> other, refused |-> refused,
           failed |-> failed]
  BY DEF Together
<1>2. AreRows(intended) /\ AreRows(other)  BY OverAreRows DEF IsChangeset
<1>3. failed => misplaced  BY DEF IsChangeset
<1> HIDE DEF intended, other, refused, failed, c
<1>4. c.intended = intended /\ c.other = other /\ (c.failed => misplaced)
  BY <1>1, <1>3
<1>5. IsChangeset(c)  BY <1>2, <1>4 DEF IsChangeset
<1> QED BY <1>5 DEF c

\* what createThread and updateThread compute after writing the thread
LEMMA PlanIsChangeset ==
  ASSUME Tree, Table, NEW plan \in Plans
  PROVE  IsChangeset(PlanChangeset(plan))
<1> DEFINE add(users, onlyNew) ==
             IF users = {} THEN NoChanges
             ELSE ChangeRole(plan.thread, users, Members, onlyNew)
           recalculated == IF plan.recalculate THEN Recalculate(plan.thread)
                           ELSE NoChanges
           first == add(plan.creator, FALSE)
           last == add(plan.added, TRUE)
<1>1. PlanChangeset(plan) = Together(Together(first, recalculated), last)
  BY DEF PlanChangeset
<1>2. /\ plan.thread \in Created
      /\ plan.creator \in SUBSET Users /\ plan.added \in SUBSET Users
  BY DEF Plans
<1>3. Members \in Roles /\ Members # Admins  BY DEF Roles, Members, Admins
<1>4. ASSUME NEW users \in SUBSET Users, NEW onlyNew PROVE IsChangeset(add(users, onlyNew))
  BY <1>2, <1>3, ChangeRoleIsChangeset, NoChangesIsChangeset
<1>5. IsChangeset(first) /\ IsChangeset(last)
  BY <1>2, <1>3, ChangeRoleIsChangeset, NoChangesIsChangeset
<1>6. IsChangeset(recalculated)
  BY <1>2, RecalculateIsChangeset, NoChangesIsChangeset
<1> HIDE DEF first, recalculated, last
<1>7. IsChangeset(Together(first, recalculated))  BY <1>5, <1>6, TogetherIsChangeset
<1> QED BY <1>1, <1>5, <1>7, TogetherIsChangeset

\* what commitMembershipChangeset writes
LEMMA RowsAreRows ==
  ASSUME NEW c, IsChangeset(c)
  PROVE  AreRows(Rows(c))
BY OverAreRows DEF IsChangeset, Rows

-----------------------------------------------------------------------------
(* Initial states and steps.                                               *)

\* A community starts with two threads, one below the other.
LEMMA StartsRight == Init => Inv
<1> SUFFICES ASSUME Init PROVE Inv
  OBVIOUS
<1> DEFINE first(type) == [type |-> type, parent |-> Root, depth |-> 1]
           root == [NoThread EXCEPT !.type = "community"]
<1>1. PICK type \in {"open", "secret"} :
        thread = [t \in Threads |-> CASE t = Root  -> root
                                      [] t = First -> first(type)
                                      [] OTHER     -> NoThread]
  BY DEF Init
<1>2. Root \in Threads /\ First \in Threads  BY DEF Threads
<1>3. /\ root = [type |-> "community", parent |-> Root, depth |-> 0]
      /\ NoThread = [type |-> "none", parent |-> Root, depth |-> 0]
  BY DEF NoThread
<1>4. /\ thread[Root] = root
      /\ thread[First] = first(type)
      /\ \A t \in Threads \ {Root, First} : thread[t] = NoThread
  BY <1>1, <1>2, CommunityAssumption
<1>5. Created = {Root, First}
  BY <1>2, <1>3, <1>4 DEF Created
<1>6. Tree /\ ~misplaced
  <2>1. 0 \in 0 .. MaxDepth /\ 1 \in 0 .. MaxDepth  BY BoundsAssumption
  <2>2. /\ root \in [type : Types, parent : Threads, depth : 0 .. MaxDepth]
        /\ first(type) \in [type : Types, parent : Threads, depth : 0 .. MaxDepth]
        /\ NoThread \in [type : Types, parent : Threads, depth : 0 .. MaxDepth]
    BY <1>2, <1>3, <2>1 DEF Types
  <2>3. thread \in [Threads -> [type : Types, parent : Threads, depth : 0 .. MaxDepth]]
    <3> HIDE DEF root, first
    <3> QED BY <1>1, <2>2
  <2>4. Root \in Created /\ thread[Root].depth = 0 /\ thread[Root].type = "community"
    BY <1>3, <1>4, <1>5
  <2>5. \A c \in Created \ {Root} : c = First  BY <1>5
  <2>6. thread[First].parent = Root /\ thread[First].depth = 0 + 1  BY <1>4
  <2>7. ~misplaced  BY DEF Init
  <2> QED BY <2>3, <2>4, <2>5, <2>6, <2>7 DEF Tree
<1>7. Table
  <2>1. ASSUME NEW u \in Users PROVE IsBlob(RootBlob(u))
    <3>1. RolePermissions("community", FirstRole(u)) \subseteq Keys  BY RoleKeys
    <3> QED BY <1>5, <3>1 DEF RootBlob, IsBlob
  <2>2. ASSUME NEW t \in Threads, NEW u \in Users
        PROVE  row[t][u] = (CASE t = Root  -> [role |-> FirstRole(u),
                                              permissions |-> RootBlob(u), exists |-> TRUE]
                              [] t = First -> FirstRow(u)
                              [] OTHER     -> NoRow)
    BY DEF Init
  <2>3. /\ \A t : IsRow(NoRow, t)
        /\ NoRow.role <= 0 /\ DOMAIN NoRow.permissions = {}
        /\ NoRow.role = Ghost /\ NoRow.permissions = NoPermissions
    BY DEF NoRow, IsRow, Fits, IsBlob, NoPermissions, Ghost, Admins, Roles
  <2>4. ASSUME NEW u \in Users PROVE IsNewRow(row[Root][u], Root)
    <3> DEFINE blob == RootBlob(u)  role == FirstRole(u)  yes == TRUE
    <3>1. row[Root][u] = [role |-> role, permissions |-> blob, exists |-> yes]
      BY <1>2, <2>2, CommunityAssumption
    <3>2. IsBlob(blob)  BY <2>1
    <3>3. role \in Roles  BY DEF FirstRole, Roles
    <3>4. yes  OBVIOUS
    <3>5. EditRoot \notin DOMAIN blob
      <4>1. EditRoot \notin MemberPermissions("community")
        BY DEF EditRoot, MemberPermissions, KnowOf, OpenToDescendants
      <4>2. EditRoot \notin AdminPermissions  BY DEF EditRoot, AdminPermissions, KnowOf
      <4> QED BY <4>1, <4>2 DEF RootBlob, RolePermissions, Members, Admins
    <3> DEFINE r == row[Root][u]
    <3> HIDE DEF blob, role, yes, r
    <3>6. r.role = role /\ r.permissions = blob /\ r.exists = yes  BY <3>1 DEF r
    <3>7. IsNewRow(r, Root)
      BY <3>2, <3>3, <3>4, <3>5, <3>6 DEF IsNewRow, IsRow, Fits
    <3> QED BY <3>7 DEF r
  <2>5. ASSUME NEW u \in Users
        PROVE  row[First][u] = NoRow \/ IsNewRow(row[First][u], First)
    <3> DEFINE from == PermissionsForChildren(RootBlob(u))
               role == IF u = Founder THEN Members ELSE Ghost
               new == NewRow(First, role, TRUE, from)
    <3>1. row[First][u] = FirstRow(u)  BY <1>2, <2>2, CommunityAssumption
    <3>2. FirstRow(u) = IF new.permissions = NoPermissions THEN NoRow ELSE new
      BY DEF FirstRow
    <3>3. IsBlob(from)  BY <2>1, ForChildrenIsBlob
    <3>4. role \in Roles /\ role # Admins  BY DEF Roles, Ghost, Members, Admins
    <3>5. First \in Created /\ First # Root  BY <1>5, CommunityAssumption
    <3>6. IsNewRow(new, First)
      <4> HIDE DEF from, role
      <4> QED BY <1>6, <3>3, <3>4, <3>5, NewRowIsRow
    <3> QED BY <3>1, <3>2, <3>6
  <2>6. ASSUME NEW t \in Threads \ {Root, First}, NEW u \in Users
        PROVE  row[t][u] = NoRow
    BY <2>2
  <2>7. ASSUME NEW t \in Threads, NEW u \in Users
        PROVE  row[t][u] = NoRow \/ IsNewRow(row[t][u], t)
    BY <2>4, <2>5, <2>6
  <2>8. ASSUME NEW t \in Threads, NEW u \in Users
        PROVE  /\ IsRow(row[t][u], t)
               /\ ~row[t][u].exists => /\ row[t][u].role = Ghost
                                      /\ row[t][u].permissions = NoPermissions
    <3>1. CASE row[t][u] = NoRow  BY <2>3, <3>1
    <3>2. CASE IsNewRow(row[t][u], t)  BY <3>2 DEF IsNewRow
    <3> QED BY <2>7, <3>1, <3>2
  <2>9. ASSUME NEW t \in Threads \ Created, NEW u \in Users
        PROVE  row[t][u].role <= 0 /\ DOMAIN row[t][u].permissions = {}
    BY <1>5, <2>3, <2>6
  <2> QED BY <2>8, <2>9 DEF Table
<1>8. Jobs /\ toRecalculate \subseteq Created /\ requests \in 0 .. MaxRequests /\ ~thrown
  BY BoundsAssumption DEF Init, Jobs
<1> QED BY <1>6, <1>7, <1>8 DEF Inv

\* What was right for the threads there are stays right with more threads.
LEMMA StaysRight ==
  ASSUME Created \subseteq Created'
  PROVE  /\ \A rows : AreRows(rows) => AreRows(rows)'
         /\ \A j : IsJob(j) => IsJob(j)'
<1>1. \A blob : IsBlob(blob) => IsBlob(blob)'  BY DEF IsBlob
<1>2. ASSUME NEW rows, AreRows(rows) PROVE AreRows(rows)'
  <2>1. \A x \in DOMAIN rows : IsNewRow(rows[x], x[1])'
    BY <1>1, <1>2 DEF AreRows, IsNewRow, IsRow, Fits
  <2>2. DOMAIN rows \subseteq Created' \X Users  BY <1>2 DEF AreRows
  <2> QED BY <2>1, <2>2 DEF AreRows
<1>3. ASSUME NEW j, IsJob(j) PROVE IsJob(j)'
  <2>1. AreRows(j.rows)'  BY <1>2, <1>3 DEF IsJob
  <2>2. j.plan \subseteq Plans'  BY <1>3 DEF IsJob, Plans
  <2> QED BY <1>3, <2>1, <2>2 DEF IsJob
<1> QED BY <1>2, <1>3

\* the threads table is left alone
LEMMA ThreadsStay ==
  ASSUME thread' = thread, misplaced' = misplaced
  PROVE  /\ Created' = Created
         /\ Tree => Tree'
         /\ \A rows : AreRows(rows) => AreRows(rows)'
         /\ \A j : IsJob(j) => IsJob(j)'
<1>1. Created' = Created  BY DEF Created
<1>2. Tree => Tree'  BY <1>1 DEF Tree
<1> QED BY <1>1, <1>2, StaysRight

\* the memberships table is left alone as well
LEMMA TableStays ==
  ASSUME Table, thread' = thread, row' = row
  PROVE  Table'
<1>1. Created' = Created  BY DEF Created
<1> QED BY <1>1 DEF Table, IsRow, IsBlob, Fits

\* Rows that are written belong to threads there are.
LEMMA WriteKeepsTable ==
  ASSUME Table, thread' = thread, NEW rows, AreRows(rows), Write(rows)
  PROVE  Table'
<1>1. Created' = Created  BY DEF Created
<1>2. \A r, t : IsRow(r, t) => IsRow(r, t)'  BY <1>1 DEF IsRow, IsBlob, Fits
<1>3. ASSUME NEW t \in Threads, NEW u \in Users
      PROVE  \/ <<t, u>> \in DOMAIN rows /\ row'[t][u] = rows[<<t, u>>]
             \/ row'[t][u] = row[t][u]
  BY DEF Write
<1>4. ASSUME NEW t \in Threads, NEW u \in Users PROVE IsRow(row[t][u], t)'
  <2>1. IsRow(row[t][u], t)  BY DEF Table
  <2>2. <<t, u>> \in DOMAIN rows => IsRow(rows[<<t, u>>], t)
    BY DEF AreRows, IsNewRow
  <2>3. \E r : row'[t][u] = r /\ IsRow(r, t)  BY <1>3, <2>1, <2>2
  <2> QED BY <1>1, <2>3 DEF IsRow, IsBlob, Fits
<1>5. ASSUME NEW t \in Threads \ Created, NEW u \in Users
      PROVE  row'[t][u] = row[t][u]
  BY <1>3 DEF AreRows
<1>6. ASSUME NEW t \in Threads, NEW u \in Users, ~row'[t][u].exists
      PROVE  row'[t][u].role = Ghost /\ row'[t][u].permissions = NoPermissions
  <2>1. <<t, u>> \in DOMAIN rows => rows[<<t, u>>].exists  BY DEF AreRows, IsNewRow
  <2>2. row'[t][u] = row[t][u]  BY <1>3, <1>6, <2>1
  <2> QED BY <1>6, <2>2 DEF Table
<1> QED BY <1>1, <1>4, <1>5, <1>6 DEF Table

\* a handler that changes roles
LEMMA ChangeIsSafe ==
  ASSUME Inv, NEW c, IsChangeset(c), NEW u, Free({u}), Change(c, u)
  PROVE  Inv'
<1> DEFINE rows == Rows(c)
           job == [users |-> {u}, plan |-> {}, rows |-> rows]
<1>1. Tree /\ Table /\ Jobs /\ toRecalculate \subseteq Created
      /\ (thrown => misplaced)
      /\ requests \in 0 .. MaxRequests
  BY DEF Inv
<1>2. /\ thread' = thread /\ row' = row /\ toRecalculate' = toRecalculate
      /\ requests' = requests + 1 /\ requests < MaxRequests
      /\ thrown' = (thrown \/ c.failed) /\ misplaced' = misplaced
      /\ jobs' \subseteq jobs \cup {job}
  BY DEF Change, Free
<1>3. IsJob(job)
  <2>1. AreRows(rows)  BY RowsAreRows
  <2> DEFINE users == {u}
  <2> HIDE DEF rows, users
  <2> QED BY <2>1 DEF IsJob
<1> HIDE DEF job
<1>4. /\ Created' = Created /\ Tree' /\ Table'
      /\ \A j : IsJob(j) => IsJob(j)'
  BY <1>1, <1>2, ThreadsStay, TableStays
<1>5. Jobs'  BY <1>1, <1>2, <1>3, <1>4 DEF Jobs
<1>6. thrown' => misplaced'  BY <1>1, <1>2 DEF IsChangeset
<1>7. requests' \in 0 .. MaxRequests  BY <1>1, <1>2, BoundsAssumption
<1> QED BY <1>1, <1>2, <1>4, <1>5, <1>6, <1>7 DEF Inv

\* Only a thread that has been created has members or grants anything.
LEMMA OnlyCreated ==
  ASSUME Table, NEW t \in Threads, NEW u \in Users,
         IsMember(t, u) \/ \E permission : Has(t, u, permission)
  PROVE  t \in Created
<1>1. CASE IsMember(t, u)
  <2>1. row[t][u].role > 0 /\ row[t][u].role \in Roles
    BY <1>1 DEF IsMember, Table, IsRow
  <2>2. ~(row[t][u].role <= 0)  BY <2>1 DEF Roles, Ghost, Visitor, Members, Admins
  <2> QED BY <2>2 DEF Table
<1>2. CASE \E permission : Has(t, u, permission)
  <2>1. DOMAIN row[t][u].permissions # {}  BY <1>2 DEF Has, Lookup
  <2> QED BY <2>1 DEF Table
<1> QED BY <1>1, <1>2

\* joins, departures, removals and changes of role
LEMMA RoleRequests ==
  ASSUME Inv, NEW t \in Threads, NEW u \in Users,
         \/ Join(t, u) \/ Leave(t, u) \/ \E viewer \in Users : Remove(t, u, viewer)
         \/ t = Root /\ \E viewer \in Users, role \in {Members, Admins} :
                            UpdateRole(u, viewer, role)
  PROVE  Inv'
<1>1. Tree /\ Table  BY DEF Inv
<1>2. Members \in Roles /\ Visitor \in Roles /\ Admins \in Roles  BY DEF Roles
<1>3. t \in Created
  <2>1. IsMember(t, u) \/ Has(t, u, "join_thread")
    BY DEF Join, Leave, Remove, UpdateRole
  <2> QED BY <1>1, <2>1, OnlyCreated
<1>4. PICK role \in Roles, onlyNew \in BOOLEAN :
        /\ Free({u}) /\ Change(ChangeRole(t, {u}, role, onlyNew), u)
        /\ t = Root \/ role # Admins
  <2>1. Members # Admins /\ Visitor # Admins  BY DEF Visitor, Members, Admins
  <2>2. CASE Join(t, u)  BY <1>2, <2>1, <2>2 DEF Join
  <2>3. CASE Leave(t, u)  BY <1>2, <2>1, <2>3 DEF Leave
  <2>4. CASE \E viewer \in Users : Remove(t, u, viewer)
    BY <1>2, <2>1, <2>4 DEF Remove
  <2>5. CASE t = Root /\ \E viewer \in Users, role \in {Members, Admins} :
                            UpdateRole(u, viewer, role)
    BY <1>2, <2>5 DEF UpdateRole
  <2> QED BY <2>2, <2>3, <2>4, <2>5
<1> DEFINE c == ChangeRole(t, {u}, role, onlyNew)
<1>5. IsChangeset(c)
  <2> DEFINE users == {u}
  <2>1. users \in SUBSET Users  OBVIOUS
  <2> HIDE DEF users
  <2>2. IsChangeset(ChangeRole(t, users, role, onlyNew))
    BY <1>1, <1>3, <1>4, <2>1, ChangeRoleIsChangeset
  <2> QED BY <2>2 DEF users
<1>6. Change(c, u)  BY <1>4
<1> HIDE DEF c
<1> QED BY <1>4, <1>5, <1>6, ChangeIsSafe

\* a thread that is written, new or changed, with the plan of what follows
LEMMA ThreadWritten ==
  ASSUME Inv, NEW t \in Threads, NEW new, NEW creator \in SUBSET Users,
         NEW added \in SUBSET Users, NEW recalculate \in BOOLEAN,
         Free(Users), WriteThread(t, new, creator, added, recalculate),
         Tree', Created' = Created \cup {t}, misplaced => misplaced'
  PROVE  Inv'
<1>1. Tree /\ Table /\ Jobs /\ toRecalculate \subseteq Created
      /\ (thrown => misplaced)
      /\ requests \in 0 .. MaxRequests
  BY DEF Inv
<1> DEFINE rows == << >>
           plan == [thread |-> t, creator |-> creator, added |-> added,
                    recalculate |-> recalculate]
           job == [users |-> Users, rows |-> rows, plan |-> {plan}]
<1>2. /\ row' = row /\ toRecalculate' = toRecalculate /\ thrown' = thrown
      /\ requests' = requests + 1 /\ requests < MaxRequests
      /\ jobs' = jobs \cup {job}
  BY DEF WriteThread, Free
<1>3. (plan \in Plans)'  BY DEF Plans
<1>4. AreRows(rows)'  BY DEF AreRows
<1>5. IsJob(job)'
  <2> HIDE DEF rows, plan
  <2> QED BY <1>3, <1>4 DEF IsJob
<1> HIDE DEF job
<1>6. Created \subseteq Created'  OBVIOUS
<1>7. \A j : IsJob(j) => IsJob(j)'  BY <1>6, StaysRight
<1>8. Jobs'  BY <1>1, <1>2, <1>5, <1>7 DEF Jobs
<1>9. Table'  BY <1>1, <1>2 DEF Table, IsRow, IsBlob, Fits
<1>10. requests' \in 0 .. MaxRequests  BY <1>1, <1>2, BoundsAssumption
<1> QED BY <1>1, <1>2, <1>8, <1>9, <1>10 DEF Inv

\* A new thread is one level below its parent, and nothing is below it.
LEMMA Creation ==
  ASSUME Inv, NEW t \in Threads, NEW type \in {"open", "secret", "sidebar"},
         NEW parent \in Threads, NEW viewer \in Users, NEW others \in SUBSET Users,
         CreateThread(t, type, parent, viewer, others)
  PROVE  Inv'
<1> DEFINE depth == DepthBelow(parent)
           new == [type |-> type, parent |-> parent, depth |-> depth]
<1>1. Tree  BY DEF Inv
<1>2. /\ Free(Users) /\ WriteThread(t, new, {viewer}, others, TRUE)
      /\ t \notin Created /\ parent \in Created /\ thread[parent].depth < MaxDepth
      /\ misplaced' = misplaced
  BY DEF CreateThread, Created
<1>3. thread' = [thread EXCEPT ![t] = new]  BY <1>2 DEF WriteThread
<1>4. /\ depth = thread[parent].depth + 1 /\ depth \in 0 .. MaxDepth
      /\ depth # 0
  <2>1. thread[parent].depth \in 0 .. MaxDepth  BY <1>1 DEF Tree
  <2> QED BY <1>2, <2>1, BoundsAssumption DEF DepthBelow
<1> HIDE DEF depth
<1>5. /\ new \in [type : Types, parent : Threads, depth : 0 .. MaxDepth]
      /\ new.type # "none" /\ new.parent = parent /\ new.depth = depth
  BY <1>4 DEF Types
<1> HIDE DEF new
<1>6. /\ thread'[t] = new
      /\ \A c \in Threads \ {t} : thread'[c] = thread[c]
  BY <1>1, <1>3 DEF Tree
<1>7. Created' = Created \cup {t}
  <2>1. \A c \in Threads : c \in Created' <=> c \in Created \cup {t}
    BY <1>5, <1>6 DEF Created
  <2> QED BY <2>1 DEF Created
<1>8. Tree'
  <2>1. thread' \in [Threads -> [type : Types, parent : Threads, depth : 0 .. MaxDepth]]
    BY <1>1, <1>3, <1>5 DEF Tree
  <2>2. Root \in Created' /\ thread'[Root].depth = 0 /\ thread'[Root].type = "community"
    BY <1>1, <1>2, <1>6, <1>7 DEF Tree, Created
  <2>3. ASSUME NEW c \in Created' \ {Root}
        PROVE  /\ thread'[c].parent \in Created' /\ thread'[c].depth # 0
               /\ ~misplaced'
                    => thread'[c].depth = thread'[thread'[c].parent].depth + 1
    <3>1. CASE c = t
      <4>1. parent \in Threads \ {t}  BY <1>2
      <4> QED BY <1>2, <1>4, <1>5, <1>6, <1>7, <3>1, <4>1
    <3>2. CASE c # t
      <4>1. c \in Created \ {Root} /\ c \in Threads \ {t}
        BY <1>7, <3>2 DEF Created
      <4>2. /\ thread[c].parent \in Created /\ thread[c].depth # 0
            /\ ~misplaced
                 => thread[c].depth = thread[thread[c].parent].depth + 1
        BY <1>1, <4>1 DEF Tree
      <4>3. thread[c].parent \in Threads \ {t}  BY <1>2, <4>2 DEF Created
      <4> QED BY <1>2, <1>6, <1>7, <4>1, <4>2, <4>3
    <3> QED BY <3>1, <3>2
  <2> QED BY <2>1, <2>2, <2>3 DEF Tree
<1>9. {viewer} \in SUBSET Users /\ TRUE \in BOOLEAN  OBVIOUS
<1> DEFINE creator == {viewer}  yes == TRUE
<1>10. creator \in SUBSET Users /\ yes \in BOOLEAN
       /\ WriteThread(t, new, creator, others, yes)
  BY <1>2 DEF new
<1> HIDE DEF creator, yes
<1> QED BY <1>2, <1>7, <1>8, <1>10, ThreadWritten

\* A thread that moves gets the depth of its place, and those below it are
\* still one level below it unless one has been misplaced.
LEMMA Update ==
  ASSUME Inv, NEW t \in Threads,
         NEW type \in {"community", "open", "secret", "sidebar"},
         NEW parent \in Threads, NEW viewer \in Users, NEW added \in SUBSET Users,
         UpdateThread(t, type, parent, viewer, added)
  PROVE  Inv'
<1> DEFINE depth == IF t = Root THEN 0 ELSE DepthBelow(parent)
           new == [type |-> type, parent |-> parent, depth |-> depth]
           recalculate == type # thread[t].type \/ parent # thread[t].parent
<1>1. Tree /\ Table  BY DEF Inv
<1>2. /\ Free(Users) /\ WriteThread(t, new, {}, added, recalculate)
      /\ t \in Created
  BY DEF UpdateThread
<1>3. thread' = [thread EXCEPT ![t] = new]  BY <1>2 DEF WriteThread
<1>4. ASSUME parent # thread[t].parent PROVE parent \in Created
  <2>1. Has(parent, viewer, "create")  BY <1>4 DEF UpdateThread
  <2> QED BY <1>1, <2>1, OnlyCreated
<1>5. \A c \in Threads : thread[c].depth \in 0 .. MaxDepth  BY <1>1 DEF Tree
<1>6. ASSUME t # Root
      PROVE  /\ parent \in Created /\ depth = thread[parent].depth + 1
             /\ depth \in 0 .. MaxDepth /\ depth # 0
  <2>1. depth = thread[parent].depth + 1  BY <1>6 DEF DepthBelow
  <2>2. thread[parent].depth < MaxDepth /\ thread[parent].depth \in 0 .. MaxDepth
    BY <1>5, <1>6 DEF UpdateThread
  <2>3. parent \in Created
    <3>1. parent = thread[t].parent => parent \in Created
      BY <1>1, <1>2, <1>6 DEF Tree
    <3> QED BY <1>4, <3>1
  <2> HIDE DEF depth
  <2> QED BY <2>1, <2>2, <2>3, BoundsAssumption
<1>7. depth \in 0 .. MaxDepth
  <2>1. t = Root => depth = 0  OBVIOUS
  <2> HIDE DEF depth
  <2> QED BY <1>6, <2>1, BoundsAssumption
<1>8. t = Root => depth = 0  OBVIOUS
<1> HIDE DEF depth
<1>9. /\ new \in [type : Types, parent : Threads, depth : 0 .. MaxDepth]
      /\ new.type # "none" /\ new.type = type
      /\ new.parent = parent /\ new.depth = depth
  BY <1>7 DEF Types
<1> HIDE DEF new
<1>10. /\ thread'[t] = new
       /\ \A c \in Threads \ {t} : thread'[c] = thread[c]
  BY <1>1, <1>3 DEF Tree
<1>11. Created' = Created /\ Created' = Created \cup {t}
  <2>1. \A c \in Threads : c \in Created' <=> c \in Created
    BY <1>2, <1>9, <1>10 DEF Created
  <2> QED BY <1>2, <2>1 DEF Created
<1>12. /\ misplaced => misplaced'
       /\ ~misplaced' => depth = thread[t].depth \/ ~HasChildren(t)'
  BY <1>9, <1>10 DEF UpdateThread
<1>13. Tree'
  <2>1. thread' \in [Threads -> [type : Types, parent : Threads, depth : 0 .. MaxDepth]]
    BY <1>1, <1>3, <1>9 DEF Tree
  <2>2. Root \in Created' /\ thread'[Root].depth = 0 /\ thread'[Root].type = "community"
    <3>1. t = Root => type = "community"
      <4>1. ~Has(Root, viewer, "edit_permissions")
        BY <1>1, <1>2 DEF Has, Lookup, Table, IsRow, Fits, EditRoot, Tree, Created
      <4> QED BY <1>1, <4>1 DEF UpdateThread, Tree
    <3> QED BY <1>1, <1>8, <1>9, <1>10, <1>11, <3>1 DEF Tree, Created
  <2>3. ASSUME NEW c \in Created' \ {Root}
        PROVE  /\ thread'[c].parent \in Created' /\ thread'[c].depth # 0
               /\ ~misplaced'
                    => thread'[c].depth = thread'[thread'[c].parent].depth + 1
    <3>1. CASE c = t
      <4>1. /\ parent \in Created /\ depth = thread[parent].depth + 1
            /\ depth # 0
        BY <1>6, <3>1
      <4>2. CASE parent = t
        <5>1. HasChildren(t)'
          BY <1>9, <1>10, <3>1, <4>2 DEF HasChildren
        <5>2. depth # thread[t].depth
          BY <1>5, <4>1, <4>2, BoundsAssumption
        <5>3. misplaced'  BY <1>12, <5>1, <5>2
        <5> QED BY <1>9, <1>10, <1>11, <3>1, <4>1, <5>3
      <4>3. CASE parent # t
        <5>1. thread'[parent] = thread[parent]  BY <1>10, <4>3
        <5> QED BY <1>9, <1>10, <1>11, <3>1, <4>1, <5>1
      <4> QED BY <4>2, <4>3
    <3>2. CASE c # t
      <4>1. c \in Created \ {Root} /\ c \in Threads \ {t}
        BY <1>11, <3>2 DEF Created
      <4>2. /\ thread[c].parent \in Created /\ thread[c].depth # 0
            /\ ~misplaced
                 => thread[c].depth = thread[thread[c].parent].depth + 1
        BY <1>1, <4>1 DEF Tree
      <4>3. thread'[c] = thread[c]  BY <1>10, <4>1
      <4>4. ASSUME ~misplaced'
            PROVE  thread'[thread[c].parent].depth = thread[thread[c].parent].depth
        <5>1. CASE thread[c].parent = t
          <6>1. HasChildren(t)'  BY <1>11, <4>1, <4>3, <5>1 DEF HasChildren
          <6>2. depth = thread[t].depth  BY <1>12, <4>4, <6>1
          <6> QED BY <1>9, <1>10, <5>1, <6>2
        <5>2. CASE thread[c].parent # t
          BY <1>10, <4>2, <5>2 DEF Created
        <5> QED BY <5>1, <5>2
      <4> QED BY <1>11, <1>12, <4>2, <4>3, <4>4
    <3> QED BY <3>1, <3>2
  <2> QED BY <2>1, <2>2, <2>3 DEF Tree
<1> DEFINE creator == {}
<1>14. creator \in SUBSET Users /\ recalculate \in BOOLEAN
       /\ WriteThread(t, new, creator, added, recalculate)
  BY <1>2 DEF new
<1> HIDE DEF creator, recalculate
<1> QED BY <1>2, <1>11, <1>12, <1>13, <1>14, ThreadWritten

\* a plan becomes a changeset
LEMMA Computation ==
  ASSUME Inv, NEW j \in jobs, Compute(j)
  PROVE  Inv'
<1>1. Tree /\ Table /\ Jobs /\ toRecalculate \subseteq Created
      /\ (thrown => misplaced)
      /\ requests \in 0 .. MaxRequests
  BY DEF Inv
<1>2. PICK p \in j.plan :
        LET changeset == PlanChangeset(p)
            error == changeset.refused \/ changeset.failed
        IN /\ jobs' = (jobs \ {j}) \cup
                         (IF error THEN {}
                          ELSE {[j EXCEPT !.plan = {}, !.rows = Rows(changeset)]})
           /\ thrown' = (thrown \/ changeset.failed)
  BY DEF Compute
<1> DEFINE c == PlanChangeset(p)
           rows == Rows(c)
           job == [j EXCEPT !.plan = {}, !.rows = rows]
<1>3. /\ thread' = thread /\ row' = row /\ toRecalculate' = toRecalculate
      /\ requests' = requests /\ misplaced' = misplaced
      /\ thrown' = (thrown \/ c.failed) /\ jobs' \subseteq jobs \cup {job}
  BY <1>2 DEF Compute
<1>4. IsJob(j)  BY <1>1 DEF Jobs
<1>5. IsChangeset(c)
  <2>1. p \in Plans  BY <1>4 DEF IsJob
  <2> QED BY <1>1, <2>1, PlanIsChangeset
<1> HIDE DEF c
<1>6. IsJob(job)
  <2> DEFINE none == {}
  <2>1. AreRows(rows)  BY <1>5, RowsAreRows
  <2> HIDE DEF rows
  <2>2. j = [users |-> j.users, plan |-> j.plan, rows |-> j.rows]  BY <1>4 DEF IsJob
  <2>3. none \subseteq Plans /\ job = [j EXCEPT !.plan = none, !.rows = rows]
    OBVIOUS
  <2> HIDE DEF none, job
  <2>4. job = [users |-> j.users, plan |-> none, rows |-> rows]  BY <2>2, <2>3
  <2> QED BY <2>1, <2>3, <2>4 DEF IsJob
<1> HIDE DEF job
<1>7. /\ Created' = Created /\ Tree' /\ Table'
      /\ \A k : IsJob(k) => IsJob(k)'
  BY <1>1, <1>3, ThreadsStay, TableStays
<1>8. Jobs'  BY <1>1, <1>3, <1>6, <1>7 DEF Jobs
<1>9. thrown' => misplaced'  BY <1>1, <1>3, <1>5 DEF IsChangeset
<1> QED BY <1>1, <1>3, <1>7, <1>8, <1>9 DEF Inv

\* what the batches that have been written hold
LEMMA BatchesAreRows ==
  ASSUME NEW rows, NEW saved \in Batches(Saves(rows)),
         NEW deleted \in Batches(Deletes(rows))
  PROVE  saved \cup deleted \in SUBSET DOMAIN rows
BY DEF Batches, Saves, Deletes

\* all or some of the rows of a changeset are written
LEMMA Written ==
  ASSUME Inv, NEW rows, AreRows(rows), Write(rows) \/ row' = row,
         thread' = thread, misplaced' = misplaced,
         jobs' \subseteq jobs, toRecalculate' \subseteq toRecalculate,
         requests' \in 0 .. MaxRequests, thrown' => misplaced'
  PROVE  Inv'
<1>1. Tree /\ Table /\ Jobs /\ toRecalculate \subseteq Created  BY DEF Inv
<1>2. /\ Created' = Created /\ Tree'
      /\ \A k : IsJob(k) => IsJob(k)'
  BY <1>1, ThreadsStay
<1>3. Table'  BY <1>1, WriteKeepsTable, TableStays
<1>4. Jobs'  BY <1>1, <1>2 DEF Jobs
<1> QED BY <1>1, <1>2, <1>3, <1>4 DEF Inv

\* commitMembershipChangeset
LEMMA Commitment ==
  ASSUME Inv, NEW j \in jobs, Commit(j)
  PROVE  Inv'
<1>1. AreRows(j.rows)  BY DEF Inv, Jobs, IsJob
<1>2. /\ Write(j.rows) /\ thread' = thread /\ jobs' \subseteq jobs
      /\ toRecalculate' \subseteq toRecalculate /\ thrown' = thrown
      /\ requests' = requests /\ misplaced' = misplaced
  BY DEF Commit
<1>3. requests' \in 0 .. MaxRequests /\ (thrown' => misplaced')  BY <1>2 DEF Inv
<1> DEFINE rows == j.rows
<1>4. AreRows(rows) /\ Write(rows)  BY <1>1, <1>2
<1> HIDE DEF rows
<1> QED BY <1>2, <1>3, <1>4, Written

\* a handler dies with some of its rows written
LEMMA Death ==
  ASSUME Inv, NEW j \in jobs, NEW written \in SUBSET DOMAIN j.rows,
         Die(j, written)
  PROVE  Inv'
<1> DEFINE rows == [x \in written |-> j.rows[x]]
<1>1. AreRows(j.rows)  BY DEF Inv, Jobs, IsJob
<1>2. AreRows(rows)  BY <1>1 DEF AreRows
<1>3. /\ Write(rows) /\ thread' = thread /\ jobs' \subseteq jobs
      /\ toRecalculate' \subseteq toRecalculate /\ thrown' = thrown
      /\ requests' = requests + 1 /\ requests < MaxRequests
      /\ misplaced' = misplaced
  BY DEF Die
<1>4. requests' \in 0 .. MaxRequests /\ (thrown' => misplaced')
  BY <1>3, BoundsAssumption DEF Inv
<1> HIDE DEF rows
<1> QED BY <1>2, <1>3, <1>4, Written

\* the repair script starts with the threads there are
LEMMA RepairStarts ==
  ASSUME Inv, StartRepair
  PROVE  Inv'
<1>1. thread' = thread /\ row' = row /\ jobs' = jobs /\ toRecalculate' = Created
      /\ thrown' = thrown /\ requests' = requests /\ misplaced' = misplaced
  BY DEF StartRepair
<1>2. /\ Created' = Created /\ Tree' /\ Table'
      /\ \A k : IsJob(k) => IsJob(k)'
  BY <1>1, ThreadsStay, TableStays DEF Inv
<1>3. Jobs'  BY <1>1, <1>2 DEF Jobs, Inv
<1> QED BY <1>1, <1>2, <1>3 DEF Inv

\* the repair script computes and writes the rows of one thread
LEMMA Repairing ==
  ASSUME Inv, NEW t \in toRecalculate, Repair(t)
  PROVE  Inv'
<1> DEFINE c == Recalculate(t)
           rows == Rows(c)
<1>1. /\ IF c.failed THEN row' = row ELSE Write(rows)
      /\ thrown' = (thrown \/ c.failed)
      /\ thread' = thread /\ jobs' = jobs /\ requests' = requests
      /\ toRecalculate' \subseteq toRecalculate /\ misplaced' = misplaced
  BY DEF Repair
<1>2. IsChangeset(c)
  <2>1. t \in Created  BY DEF Inv
  <2> QED BY <2>1, RecalculateIsChangeset DEF Inv
<1>3. AreRows(rows)
  <2> HIDE DEF c
  <2> QED BY <1>2, RowsAreRows
<1> HIDE DEF c, rows
<1>4. /\ Write(rows) \/ row' = row
      /\ thrown' => misplaced'
  BY <1>1, <1>2 DEF IsChangeset, Inv
<1>5. requests' \in 0 .. MaxRequests  BY <1>1 DEF Inv
<1> QED BY <1>1, <1>3, <1>4, <1>5, Written

\* Every step keeps the invariant.
LEMMA NextKeepsInv == Inv /\ [Next]_vars => Inv'
<1> SUFFICES ASSUME Inv, [Next]_vars PROVE Inv'
  OBVIOUS
<1>1. ASSUME NEW t \in Threads, NEW u \in Users,
             Join(t, u) \/ Leave(t, u) \/ \E viewer \in Users : Remove(t, u, viewer)
      PROVE  Inv'
  BY <1>1, RoleRequests
<1>2. ASSUME NEW u \in Users, NEW viewer \in Users, NEW role \in {Members, Admins},
             UpdateRole(u, viewer, role)
      PROVE  Inv'
  <2> DEFINE t == Root
  <2>1. t \in Threads /\ t = Root  BY DEF Threads
  <2> HIDE DEF t
  <2> QED BY <1>2, <2>1, RoleRequests
<1>3. ASSUME NEW t \in Threads, NEW parent \in Threads, NEW viewer \in Users,
             NEW others \in SUBSET Users, NEW type \in {"open", "secret", "sidebar"},
             CreateThread(t, type, parent, viewer, others)
      PROVE  Inv'
  BY <1>3, Creation
<1>4. ASSUME NEW t \in Threads, NEW parent \in Threads, NEW viewer \in Users,
             NEW others \in SUBSET Users,
             NEW type \in {"community", "open", "secret", "sidebar"},
             UpdateThread(t, type, parent, viewer, others)
      PROVE  Inv'
  BY <1>4, Update
<1>5. ASSUME NEW j \in jobs, Compute(j) PROVE Inv'
  BY <1>5, Computation
<1>6. ASSUME NEW j \in jobs, Commit(j) PROVE Inv'
  BY <1>6, Commitment
<1>7. ASSUME NEW j \in jobs, NEW written \in SUBSET DOMAIN j.rows,
             Die(j, written)
      PROVE  Inv'
  BY <1>7, Death
<1>8. CASE StartRepair
  BY <1>8, RepairStarts
<1>9. ASSUME NEW t \in toRecalculate, Repair(t) PROVE Inv'
  BY <1>9, Repairing
<1>10. CASE UNCHANGED vars
  <2>1. thread' = thread /\ row' = row /\ jobs' = jobs /\ thrown' = thrown
        /\ toRecalculate' = toRecalculate /\ requests' = requests
        /\ misplaced' = misplaced
    BY <1>10 DEF vars
  <2>2. /\ Created' = Created /\ Tree' /\ Table'
        /\ \A k : IsJob(k) => IsJob(k)'
    BY <2>1, ThreadsStay, TableStays DEF Inv
  <2>3. Jobs'  BY <2>1, <2>2 DEF Jobs, Inv
  <2> QED BY <2>1, <2>2, <2>3 DEF Inv
<1>11. ASSUME NEW j \in jobs, NEW saved \in Batches(Saves(j.rows)),
             NEW deleted \in Batches(Deletes(j.rows)), Die(j, saved \cup deleted)
      PROVE  Inv'
  <2> DEFINE written == saved \cup deleted
  <2>1. written \in SUBSET DOMAIN j.rows  BY BatchesAreRows
  <2>2. Die(j, written)  BY <1>11
  <2> HIDE DEF written
  <2> QED BY <1>7, <2>1, <2>2
<1> QED BY <1>1, <1>2, <1>3, <1>4, <1>5, <1>6, <1>11, <1>8, <1>9, <1>10 DEF Next

-----------------------------------------------------------------------------
(* What a row becomes.                                                     *)

\* one who is no member of the containing thread, or has no role, gets what
\* is inherited and nothing else
LEMMA Outsider ==
  ASSUME NEW t, NEW role \in Roles, NEW member \in BOOLEAN, NEW from,
         role <= 0 \/ ~member
  PROVE  /\ NewRow(t, role, member, from) = RowOf(Ghost, MakePermissionsBlob({}, from, t))
         /\ NewRow(t, role, member, from).role <= 0
<1> DEFINE keys == IF member THEN RolePermissions(thread[t].type, role) ELSE {}
           as   == IF member THEN role ELSE Ghost
           blob == MakePermissionsBlob({}, from, t)
<1>1. keys = {} /\ as <= 0
  BY DEF RolePermissions, Roles, Ghost, Visitor, Members, Admins
<1>2. NewRow(t, role, member, from) = RowOf(as, MakePermissionsBlob(keys, from, t))
  BY DEF NewRow
<1>3. RoleForPermissions(as, blob) = RoleForPermissions(Ghost, blob)
      /\ RoleForPermissions(Ghost, blob) <= 0
  <2> HIDE DEF keys, as, blob
  <2> QED BY <1>1 DEF RoleForPermissions, Ghost, Visitor
<1> HIDE DEF keys, as, blob
<1>4. RowOf(as, blob) = RowOf(Ghost, blob)  BY <1>3 DEF RowOf
<1>5. RowOf(Ghost, blob).role <= 0  BY <1>3 DEF RowOf
<1> QED BY <1>1, <1>2, <1>4, <1>5 DEF blob

\* no permissions of a role, no entries
LEMMA WithNone ==
  ASSUME NEW from, NEW t
  PROVE  WithRole(from, {}, t) = from
<1> DEFINE none == [k \in {} |-> t]
<1>1. Over(none, from) = from
  <2>1. none = << >>  OBVIOUS
  <2> QED BY <2>1 DEF Over
<1> QED BY <1>1 DEF WithRole

\* A role that lets its owner know of the thread is one the owner has.
LEMMA WithRoleKnows ==
  ASSUME NEW from, NEW keys, NEW t, ~Lookup(WithRole(from, keys, t), "know_of")
  PROVE  WithRole(from, keys, t) = from
<1> DEFINE some == [k \in keys |-> t]
           blob == Over(some, from)
<1>1. CASE KnowOf \in keys \cup DOMAIN from
  <2>1. WithRole(from, keys, t) = blob  BY <1>1 DEF WithRole
  <2>2. KnowOf \in DOMAIN blob
    <3>1. CASE some = << >>
      <4>1. keys = {}
        <5>1. DOMAIN some = keys /\ DOMAIN << >> = {}  OBVIOUS
        <5> QED BY <3>1, <5>1
      <4>2. blob = from  BY <3>1 DEF Over
      <4> QED BY <1>1, <4>1, <4>2
    <3>2. CASE some # << >>
      <4>1. DOMAIN some = keys  OBVIOUS
      <4> HIDE DEF some
      <4>2. DOMAIN blob = DOMAIN some \cup DOMAIN from  BY <3>2 DEF Over
      <4> QED BY <1>1, <4>1, <4>2
    <3> QED BY <3>1, <3>2
  <2>3. Lookup(blob, "know_of")
    <3> HIDE DEF blob
    <3> QED BY <2>2 DEF Lookup, KnowOf
  <2> QED BY <2>1, <2>3
<1>2. CASE KnowOf \notin keys \cup DOMAIN from
  BY <1>2 DEF WithRole
<1> QED BY <1>1, <1>2

\* the role of a new row
LEMMA NewRoleIsRole ==
  ASSUME NEW t, NEW role \in Roles, NEW member, NEW from
  PROVE  NewRow(t, role, member, from).role \in Roles
<1>1. \A r \in Roles : \A blob : RoleForPermissions(r, blob) \in Roles
  BY DEF RoleForPermissions, Roles
<1>2. \A r, blob : RowOf(r, blob).role = RoleForPermissions(r, blob)
  BY DEF RowOf
<1>3. Ghost \in Roles  BY DEF Roles
<1> QED BY <1>1, <1>2, <1>3 DEF NewRow

\* Computing a row again gives the same row.
LEMMA AgainTheSame ==
  ASSUME NEW t, NEW role \in Roles, NEW member \in BOOLEAN, NEW from,
         NEW new, new = NewRow(t, role, member, from)
  PROVE  NewRow(t, new.role, member, from) = new
<1> DEFINE plain == RowOf(Ghost, MakePermissionsBlob({}, from, t))
<1>1. new.role \in Roles  BY NewRoleIsRole
<1>2. CASE role <= 0 \/ ~member
  <2>1. new = plain /\ new.role <= 0  BY <1>2, Outsider
  <2>2. NewRow(t, new.role, member, from) = plain  BY <1>1, <2>1, Outsider
  <2> QED BY <2>1, <2>2
<1>3. CASE role > 0 /\ member
  <2> DEFINE keys == RolePermissions(thread[t].type, role)
             inherited == Inherited(from, thread[t].type)
             blob == WithRole(inherited, keys, t)
  <2>1. new = RowOf(role, blob)  BY <1>3 DEF NewRow, MakePermissionsBlob
  <2>2. new.role = RoleForPermissions(role, blob)  BY <2>1 DEF RowOf
  <2>3. CASE Lookup(blob, "know_of")
    <3>1. ~(role <= 0)  BY <1>3 DEF Roles, Ghost, Visitor, Members, Admins
    <3> HIDE DEF blob
    <3>2. RoleForPermissions(role, blob) = role  BY <2>3, <3>1 DEF RoleForPermissions
    <3> QED BY <2>2, <3>2
  <2>4. CASE ~Lookup(blob, "know_of")
    <3>1. new.role = Ghost  BY <2>2, <2>4 DEF RoleForPermissions
    <3>2. blob = inherited  BY <2>4, WithRoleKnows
    <3>3. MakePermissionsBlob({}, from, t) = inherited
      BY WithNone DEF MakePermissionsBlob
    <3>4. NewRow(t, Ghost, member, from) = RowOf(Ghost, inherited)
      BY <3>3, Outsider DEF Roles, Ghost
    <3>5. RowOf(role, inherited) = RowOf(Ghost, inherited)
      <4>1. RoleForPermissions(role, inherited) = RoleForPermissions(Ghost, inherited)
        BY <2>4, <3>2 DEF RoleForPermissions
      <4> HIDE DEF inherited
      <4> QED BY <4>1 DEF RowOf
    <3> QED BY <2>1, <3>1, <3>2, <3>4, <3>5
  <2> QED BY <2>3, <2>4
<1> QED BY <1>2, <1>3 DEF Roles, Ghost, Visitor, Members, Admins

\* Who is no member of the containing thread has no role, so that becoming
\* one changes nothing.
LEMMA JoiningChangesNothing ==
  ASSUME NEW t, NEW r, r.role \in Roles, NEW from,
         NEW before \in BOOLEAN, NEW after \in BOOLEAN, before => after,
         Unchanged(r, NewRow(t, r.role, before, from))
  PROVE  Unchanged(r, NewRow(t, r.role, after, from))
<1>1. CASE before  BY <1>1
<1>2. CASE ~before
  <2>1. NewRow(t, r.role, before, from).role <= 0  BY <1>2, Outsider
  <2>2. r.role <= 0  BY <2>1 DEF Unchanged
  <2>3. NewRow(t, r.role, after, from) = NewRow(t, r.role, before, from)
    BY <2>2, Outsider
  <2> QED BY <2>3
<1> QED BY <1>1, <1>2

\* A ghost whose parent grants nothing stays a ghost.
LEMMA NothingGranted ==
  ASSUME NEW t, NEW member \in BOOLEAN, NEW new,
         new = NewRow(t, Ghost, member, NoPermissions)
  PROVE  new.role = Ghost /\ new.permissions = NoPermissions
<1>1. Inherited(NoPermissions, thread[t].type) = NoPermissions
  BY DEF Inherited, NoPermissions
<1>2. MakePermissionsBlob({}, NoPermissions, t) = NoPermissions
  BY <1>1, WithNone DEF MakePermissionsBlob
<1>3. new = RowOf(Ghost, NoPermissions)
  BY <1>2, Outsider DEF Roles, Ghost
<1>4. ~Lookup(NoPermissions, "know_of")  BY DEF Lookup, NoPermissions
<1>5. RoleForPermissions(Ghost, NoPermissions) = Ghost  BY <1>4 DEF RoleForPermissions
<1> QED BY <1>3, <1>5 DEF RowOf

-----------------------------------------------------------------------------
(* Right rows.                                                             *)

\* a user's row in t when the rows R of a changeset will be written, what
\* its parent then grants, and whether the user is then a member of the
\* containing thread
At(R, t, u) == IF <<t, u>> \in DOMAIN R THEN R[<<t, u>>] ELSE row[t][u]

Grants(R, t, u) ==
  IF t = Root THEN NoPermissions
  ELSE PermissionsForChildren(At(R, thread[t].parent, u).permissions)

Joined(R, t, u) == t = Root \/ At(R, Container(t), u).role > 0

\* the row is then the one that computing it would give
Right(R, t, u) ==
  Unchanged(At(R, t, u),
            NewRow(t, At(R, t, u).role, Joined(R, t, u), Grants(R, t, u)))

\* the row is then the one that computing it from the role in the table gives
Kept(R, t, u) ==
  Unchanged(At(R, t, u),
            NewRow(t, row[t][u].role, Joined(R, t, u), Grants(R, t, u)))

\* That is a right row.
LEMMA KeptIsRight ==
  ASSUME Table, NEW R, NEW t \in Threads, NEW u \in Users, Kept(R, t, u)
  PROVE  Right(R, t, u)
<1> DEFINE r == At(R, t, u)  joined == Joined(R, t, u)  grants == Grants(R, t, u)
           role == row[t][u].role
           new == NewRow(t, role, joined, grants)
<1>1. role \in Roles /\ joined \in BOOLEAN  BY DEF Table, IsRow, Joined
<1>2. Unchanged(r, new)  BY DEF Kept
<1> HIDE DEF r, joined, grants, role
<1>3. NewRow(t, new.role, joined, grants) = new  BY <1>1, AgainTheSame
<1> HIDE DEF new
<1>4. Unchanged(r, NewRow(t, r.role, joined, grants))
  BY <1>2, <1>3 DEF Unchanged
<1> QED BY <1>4 DEF Right, r, joined, grants

\* What a layer does with a row that was right: it is right with what the
\* parent grants now, and with the membership of the containing thread now.
LEMMA LayerSettles ==
  ASSUME Tree, ~misplaced, Table, NEW known, NEW c \in Created \ {Root}, NEW u \in Users,
         NEW joined \in BOOLEAN, NEW grants,
         \/ known[c][u].granted = {} /\ grants = FromParent(c, u)
         \/ known[c][u].granted = {grants},
         \/ known[c][u].member = {} /\ (InContainer(c, u) => joined)
         \/ known[c][u].member = {joined},
         Unchanged(row[c][u], NewRow(c, row[c][u].role, InContainer(c, u),
                                     FromParent(c, u))),
         NEW r,
         r = IF NeedsUpdate(known, c, u)
                  /\ ~Unchanged(row[c][u], DescendantRow(known, c, u))
             THEN DescendantRow(known, c, u) ELSE row[c][u]
  PROVE  Unchanged(r, NewRow(c, row[c][u].role, joined, grants))
<1> DEFINE old    == row[c][u]
           before == InContainer(c, u)
           from   == FromParent(c, u)
           granted == known[c][u].granted
           member  == known[c][u].member
<1>1. /\ c \in Threads /\ before \in BOOLEAN /\ old.role \in Roles
      /\ ~old.exists => old.role = Ghost /\ old.permissions = NoPermissions
  BY DEF Table, IsRow, Created, InContainer
<1>2. CASE ~NeedsUpdate(known, c, u)
  <2>1. r = old /\ granted = {} /\ member # {FALSE}  BY <1>2 DEF NeedsUpdate
  <2>2. grants = from /\ (before => joined)  BY <2>1
  <2> HIDE DEF old, before, from
  <2> QED BY <1>1, <2>1, <2>2, JoiningChangesNothing DEF old, before, from
<1>3. CASE NeedsUpdate(known, c, u)
  <2> DEFINE m == CHOOSE b \in BOOLEAN :
                    IF member = {} THEN b = (old.exists /\ before) ELSE b \in member
             f == IF granted = {} THEN (IF old.exists THEN from ELSE NoPermissions)
                  ELSE CHOOSE g \in granted : TRUE
             new == DescendantRow(known, c, u)
  <2>1. new = NewRow(c, old.role, m, f)
    BY DEF DescendantRow
  <2>2. m \in BOOLEAN /\ (m => joined)
    <3>1. CASE member = {}
      <4>1. m = (old.exists /\ before)  BY <3>1
      <4>2. before => joined  BY <3>1
      <4>3. (old.exists /\ before) \in BOOLEAN  OBVIOUS
      <4> HIDE DEF m, before, old
      <4> QED BY <4>1, <4>2, <4>3
    <3>2. CASE member = {joined}
      <4>1. m = joined  BY <3>2
      <4> QED BY <4>1
    <3> QED BY <3>1, <3>2
  <2>3. granted = {grants} => f = grants  OBVIOUS
  <2>4. CASE f = grants
    <3> HIDE DEF m, f, new, old
    <3>1. Unchanged(r, new)
      <4>1. CASE r = new  BY <4>1 DEF Unchanged
      <4>2. CASE r = old /\ Unchanged(old, new)  BY <4>2
      <4> QED BY <1>3, <4>1, <4>2 DEF new, old
    <3>2. CASE m = joined
      BY <2>1, <2>4, <3>1, <3>2 DEF old
    <3>3. CASE m # joined
      <4>1. ~m /\ member = {}
        <5>1. CASE member = {}  BY <2>2, <3>3, <5>1
        <5>2. CASE member # {}
          <6>1. member = {joined}  BY <5>2
          <6>2. m = joined  BY <6>1 DEF m
          <6> QED BY <3>3, <6>2
        <5> QED BY <5>1, <5>2
      <4>2. CASE old.exists /\ before
        <5>1. m = (old.exists /\ before)  BY <4>1 DEF m
        <5>2. (old.exists /\ before) = TRUE  BY <4>2
        <5> QED BY <4>1, <5>1, <5>2
      <4>3. CASE ~(old.exists /\ before)
        <5>1. old.role <= 0
          <6>1. CASE ~old.exists  BY <1>1, <6>1 DEF Ghost
          <6>2. CASE ~before
            <7>1. NewRow(c, old.role, before, from).role <= 0
              <8> HIDE DEF before, from
              <8> QED BY <1>1, <6>2, Outsider
            <7>2. Unchanged(old, NewRow(c, old.role, before, from))  BY DEF old
            <7> QED BY <7>1, <7>2 DEF Unchanged
          <6> QED BY <4>3, <6>1, <6>2
        <5>2. NewRow(c, old.role, m, grants) = NewRow(c, old.role, joined, grants)
          BY <1>1, <2>2, <5>1, Outsider
        <5> QED BY <2>1, <2>4, <3>1, <5>2 DEF old
      <4> QED BY <4>2, <4>3
    <3> QED BY <3>2, <3>3
  <2>5. CASE granted = {} /\ ~old.exists
    <3>1. grants = from /\ f = NoPermissions /\ old.role = Ghost
          /\ old.permissions = NoPermissions
      BY <1>1, <2>5
    <3> HIDE DEF m, f, new, old, before, from
    <3>2. new = NewRow(c, Ghost, m, NoPermissions)  BY <2>1, <3>1
    <3>3. new.role = Ghost /\ new.permissions = NoPermissions
      BY <2>2, <3>2, NothingGranted
    <3>4. Unchanged(old, new)  BY <3>1, <3>3 DEF Unchanged
    <3>5. r = old  BY <3>4 DEF new, old
    <3>6. NewRow(c, Ghost, joined, grants) = NewRow(c, Ghost, before, from)
      BY <1>1, <3>1, Outsider DEF Roles, Ghost
    <3>7. Unchanged(old, NewRow(c, old.role, before, from))
      BY DEF old, before, from
    <3> QED BY <3>1, <3>5, <3>6, <3>7 DEF old
  <2>6. granted = {} /\ old.exists => f = grants  OBVIOUS
  <2> QED BY <2>3, <2>4, <2>5, <2>6
<1> QED BY <1>2, <1>3

-----------------------------------------------------------------------------
(* What a walk knows.                                                      *)

\* what is known of a descendant agrees with the rows R
Learnt(known, R, c, u) ==
  /\ \/ known[c][u].granted = {} /\ Grants(R, c, u) = FromParent(c, u)
     \/ known[c][u].granted = {Grants(R, c, u)}
  /\ \/ known[c][u].member = {} /\ (InContainer(c, u) => Joined(R, c, u))
     \/ known[c][u].member = {Joined(R, c, u)}

\* and nothing is known that the rows R did not bring
Brought(known, R, c, u) ==
  /\ known[c][u].granted # {} => <<thread[c].parent, u>> \in DOMAIN R
  /\ known[c][u].member # {} => <<Container(c), u>> \in DOMAIN R
  /\ NeedsUpdate(known, c, u) => c # Root /\ HasRows(c)

Knows(known, R) ==
  \A c \in Created, u \in Users :
    /\ Brought(known, R, c, u)
    /\ c # Root /\ HasRows(c) => Learnt(known, R, c, u)

\* one function over another
LEMMA OverIs ==
  ASSUME NEW f, NEW g
  PROVE  /\ DOMAIN Over(f, g) = DOMAIN f \cup DOMAIN g
         /\ \A x \in DOMAIN f : Over(f, g)[x] = f[x]
         /\ \A x \in DOMAIN g \ DOMAIN f : Over(f, g)[x] = g[x]
<1>1. CASE f = << >>  BY <1>1 DEF Over
<1>2. CASE f # << >>  BY <1>2 DEF Over
<1> QED BY <1>1, <1>2

\* h is f over g
Lies(h, f, g) ==
  /\ DOMAIN h = DOMAIN f \cup DOMAIN g
  /\ \A x \in DOMAIN f : h[x] = f[x]
  /\ \A x \in DOMAIN g \ DOMAIN f : h[x] = g[x]

\* Over lays one function over another.
LEMMA OverLies ==
  ASSUME NEW h, NEW f, NEW g, h = Over(f, g)
  PROVE  Lies(h, f, g)
<1>1. /\ DOMAIN Over(f, g) = DOMAIN f \cup DOMAIN g
      /\ \A x \in DOMAIN f : Over(f, g)[x] = f[x]
      /\ \A x \in DOMAIN g \ DOMAIN f : Over(f, g)[x] = g[x]
  BY OverIs
<1> QED BY <1>1 DEF Lies

\* the thread above
LEMMA ParentAbove ==
  ASSUME Tree, ~misplaced, NEW c \in Created \ {Root}
  PROVE  /\ thread[c].depth \in Nat /\ c \in Threads
         /\ \A a \in {thread[c].parent, Container(c)} :
              a \in Created /\ thread[a].depth \in Nat /\ thread[a].depth < thread[c].depth
<1>1. /\ thread[c].parent \in Created
      /\ thread[c].depth = thread[thread[c].parent].depth + 1
      /\ Root \in Created /\ thread[Root].depth = 0
  BY DEF Tree
<1>2. \A a \in Created : a \in Threads /\ thread[a].depth \in Nat
  BY BoundsAssumption DEF Created, Tree
<1>3. Container(c) \in {thread[c].parent, Root}  BY DEF Container
<1> QED BY <1>1, <1>2, <1>3

\* a member of the containing thread in the table
LEMMA TableSays ==
  ASSUME NEW R, DOMAIN R = {}, NEW t, NEW u
  PROVE  /\ At(R, t, u) = row[t][u]
         /\ Grants(R, t, u) = FromParent(t, u)
         /\ Joined(R, t, u) = InContainer(t, u)
<1>1. \A a : At(R, a, u) = row[a][u]  BY DEF At
<1> QED BY <1>1 DEF Grants, FromParent, Joined, InContainer

\* What is known after a layer L agrees with the rows and the layer.
LEMMA SpreadLearns ==
  ASSUME Tree, ~misplaced, NEW known, NEW R, Knows(known, R), NEW L, AreRows(L), NEW R1,
         DOMAIN R1 = DOMAIN L \cup DOMAIN R,
         \A x \in DOMAIN L : R1[x] = L[x] /\ x \notin DOMAIN R,
         \A x \in DOMAIN R : R1[x] = R[x]
  PROVE  Knows(Spread(known, Affecting(L)), R1)
<1> DEFINE down == Affecting(L)
           after == Spread(known, down)
<1>1. /\ DOMAIN down = {x \in DOMAIN L : Affects(row[x[1]][x[2]], L[x])}
      /\ \A x \in DOMAIN down : down[x] = L[x]
  BY DEF Affecting
<1> SUFFICES ASSUME NEW c \in Created, NEW u \in Users
             PROVE  /\ Brought(after, R1, c, u)
                    /\ c # Root /\ HasRows(c) => Learnt(after, R1, c, u)
  BY DEF Knows
<1> DEFINE p == thread[c].parent  k == Container(c)
           fromP == <<p, u>> \in DOMAIN down /\ c \in Found(p)
           fromK == <<k, u>> \in DOMAIN down /\ c \in Found(k)
           granted == after[c][u].granted
           member == after[c][u].member
<1>2. /\ granted = IF fromP THEN {PermissionsForChildren(down[<<p, u>>].permissions)}
                   ELSE known[c][u].granted
      /\ member = IF fromK THEN {down[<<k, u>>].role > 0} ELSE known[c][u].member
  <2>1. c \in Threads  BY DEF Created
  <2> HIDE DEF down
  <2> QED BY <2>1 DEF Spread
<1>3. Brought(known, R, c, u)  BY DEF Knows
<1>4. DOMAIN R \subseteq DOMAIN R1 /\ DOMAIN down \subseteq DOMAIN R1
  BY <1>1
<1> HIDE DEF down, after
<1>5. Brought(after, R1, c, u)
  <2>1. fromP \/ fromK => c # Root /\ HasRows(c)  BY DEF Found, Below
  <2>2. granted # {} => <<p, u>> \in DOMAIN R1  BY <1>2, <1>3, <1>4 DEF Brought
  <2>3. member # {} => <<k, u>> \in DOMAIN R1  BY <1>2, <1>3, <1>4 DEF Brought
  <2>4. CASE fromP \/ fromK  BY <2>1, <2>2, <2>3, <2>4 DEF Brought
  <2>5. CASE ~fromP /\ ~fromK
    <3>1. NeedsUpdate(after, c, u) => NeedsUpdate(known, c, u)
      BY <1>2, <2>5 DEF NeedsUpdate
    <3> QED BY <1>3, <2>2, <2>3, <3>1 DEF Brought
  <2> QED BY <2>4, <2>5
<1>6. ASSUME c # Root, HasRows(c) PROVE Learnt(after, R1, c, u)
  <2>1. Learnt(known, R, c, u)  BY <1>6 DEF Knows
  <2>2. c \in Found(p) /\ c \in Found(k)  BY <1>6 DEF Found, Below
  <2>3. \A a : At(R1, a, u) = IF <<a, u>> \in DOMAIN L THEN L[<<a, u>>] ELSE At(R, a, u)
    BY DEF At
  <2>4. ASSUME NEW a, <<a, u>> \in DOMAIN L \ DOMAIN down
        PROVE  /\ row[a][u].role > 0 => At(R1, a, u).role > 0
               /\ PermissionsForChildren(row[a][u].permissions)
                    = PermissionsForChildren(At(R1, a, u).permissions)
               /\ At(R, a, u) = row[a][u]
    <3>1. ~Affects(row[a][u], L[<<a, u>>])  BY <1>1, <2>4
    <3>2. At(R1, a, u) = L[<<a, u>>] /\ At(R, a, u) = row[a][u]  BY <2>3, <2>4 DEF At
    <3>3. L[<<a, u>>].role \in Roles  BY <2>4 DEF AreRows, IsNewRow, IsRow
    <3> QED BY <3>1, <3>2, <3>3 DEF Affects, Roles, Ghost, Visitor, Members, Admins
  <2>5. \/ granted = {} /\ Grants(R1, c, u) = FromParent(c, u)
        \/ granted = {Grants(R1, c, u)}
    <3>1. Grants(R1, c, u) = PermissionsForChildren(At(R1, p, u).permissions)
          /\ Grants(R, c, u) = PermissionsForChildren(At(R, p, u).permissions)
          /\ FromParent(c, u) = PermissionsForChildren(row[p][u].permissions)
      BY <1>6 DEF Grants, FromParent
    <3>2. CASE <<p, u>> \in DOMAIN down
      <4>1. At(R1, p, u) = down[<<p, u>>]  BY <1>1, <2>3, <3>2
      <4> QED BY <1>2, <2>2, <3>1, <3>2, <4>1
    <3>3. CASE <<p, u>> \in DOMAIN L \ DOMAIN down
      <4>1. granted = known[c][u].granted  BY <1>2, <3>3
      <4>2. granted = {}  BY <1>3, <3>3, <4>1 DEF Brought
      <4> QED BY <2>4, <3>1, <3>3, <4>2
    <3>4. CASE <<p, u>> \notin DOMAIN L
      <4>1. At(R1, p, u) = At(R, p, u)  BY <2>3, <3>4
      <4>2. granted = known[c][u].granted  BY <1>1, <1>2, <3>4
      <4> QED BY <2>1, <3>1, <4>1, <4>2 DEF Learnt
    <3> QED BY <3>2, <3>3, <3>4
  <2>6. \/ member = {} /\ (InContainer(c, u) => Joined(R1, c, u))
        \/ member = {Joined(R1, c, u)}
    <3>1. Joined(R1, c, u) = (At(R1, k, u).role > 0)
          /\ Joined(R, c, u) = (At(R, k, u).role > 0)
          /\ InContainer(c, u) = (row[k][u].role > 0)
      BY <1>6 DEF Joined, InContainer
    <3>2. CASE <<k, u>> \in DOMAIN down
      <4>1. At(R1, k, u) = down[<<k, u>>]  BY <1>1, <2>3, <3>2
      <4> QED BY <1>2, <2>2, <3>1, <3>2, <4>1
    <3>3. CASE <<k, u>> \in DOMAIN L \ DOMAIN down
      <4>1. member = known[c][u].member  BY <1>2, <3>3
      <4>2. member = {}  BY <1>3, <3>3, <4>1 DEF Brought
      <4> QED BY <2>4, <3>1, <3>3, <4>2
    <3>4. CASE <<k, u>> \notin DOMAIN L
      <4>1. At(R1, k, u) = At(R, k, u)  BY <2>3, <3>4
      <4>2. member = known[c][u].member  BY <1>1, <1>2, <3>4
      <4> QED BY <2>1, <3>1, <4>1, <4>2 DEF Learnt
    <3> QED BY <3>2, <3>3, <3>4
  <2> QED BY <2>5, <2>6 DEF Learnt
<1> QED BY <1>5, <1>6

-----------------------------------------------------------------------------
(* The walk is enough.                                                     *)

NoRows == << >>

\* a right row of the table
LEMMA RightOfTable ==
  ASSUME NEW t, NEW u
  PROVE  /\ Right(NoRows, t, u) <=> Settled(t, u)
         /\ Right(NoRows, t, u)
              <=> Unchanged(row[t][u], NewRow(t, row[t][u].role, InContainer(t, u),
                                              FromParent(t, u)))
<1> DEFINE none == NoRows
<1>1. DOMAIN none = {}  BY DEF NoRows
<1> HIDE DEF none
<1>2. /\ At(none, t, u) = row[t][u] /\ Grants(none, t, u) = FromParent(t, u)
      /\ Joined(none, t, u) = InContainer(t, u)
  BY <1>1, TableSays
<1>3. Right(none, t, u)
        <=> Unchanged(row[t][u], NewRow(t, row[t][u].role, InContainer(t, u),
                                        FromParent(t, u)))
  BY <1>2 DEF Right
<1> QED BY <1>3 DEF none, Settled

\* how far a walk from the rows of t has got at depth d
Passed(w, rows, t, d) ==
  LET R == Over(w.rows, rows)
  IN /\ \A x \in DOMAIN w.rows :
          /\ x \in Created \X Users /\ HasRows(x[1])
          /\ thread[t].depth < thread[x[1]].depth /\ thread[x[1]].depth <= d
          /\ <<t, x[2]>> \in DOMAIN rows
     /\ Knows(w.known, R)
     /\ \A c \in Created \ {t}, u \in Users :
          HasRows(c) /\ thread[c].depth <= d /\ Right(NoRows, c, u) => Kept(R, c, u)

\* what a layer holds
LEMMA LayerIs ==
  ASSUME NEW known, NEW d, NEW c \in Created, NEW u \in Users
  PROVE  /\ <<c, u>> \in DOMAIN Layer(known, d)
              <=> /\ thread[c].depth = d /\ NeedsUpdate(known, c, u)
                  /\ ~Unchanged(row[c][u], DescendantRow(known, c, u))
         /\ <<c, u>> \in DOMAIN Layer(known, d)
              => Layer(known, d)[<<c, u>>] = DescendantRow(known, c, u)
<1> DEFINE at == {y \in Created \X Users :
                   thread[y[1]].depth = d /\ NeedsUpdate(known, y[1], y[2])}
           rows == [x \in at |-> DescendantRow(known, x[1], x[2])]
<1>1. Layer(known, d) = Changing(rows)  BY DEF Layer
<1>2. <<c, u>> \in at <=> thread[c].depth = d /\ NeedsUpdate(known, c, u)
  OBVIOUS
<1>3. <<c, u>> \in at => rows[<<c, u>>] = DescendantRow(known, c, u)
  OBVIOUS
<1>4. DOMAIN rows = at  OBVIOUS
<1> HIDE DEF rows, at
<1>5. /\ <<c, u>> \in DOMAIN Changing(rows)
           <=> <<c, u>> \in at /\ ~Unchanged(row[c][u], rows[<<c, u>>])
      /\ <<c, u>> \in DOMAIN Changing(rows)
           => Changing(rows)[<<c, u>>] = rows[<<c, u>>]
  BY <1>4 DEF Changing
<1> QED BY <1>1, <1>2, <1>3, <1>5

\* Before the first layer.
LEMMA StartPassed ==
  ASSUME Tree, ~misplaced, NEW t \in Created, NEW rows, AreRows(rows),
         DOMAIN rows \subseteq {t} \X Users
  PROVE  Passed(Start(rows), rows, t, 0)
<1> DEFINE s == Start(rows)
           R == Over(s.rows, rows)
           known == Spread(Nothing, Affecting(rows))
<1>1. s.known = known /\ DOMAIN s.rows = {}
  <2> DEFINE none == << >>
  <2>1. s = [known |-> known, rows |-> none, failed |-> FALSE]  BY DEF Start
  <2>2. DOMAIN none = {}  OBVIOUS
  <2> HIDE DEF known, none, s
  <2> QED BY <2>1, <2>2
<1> HIDE DEF s
<1>2. DOMAIN R = DOMAIN rows /\ \A x \in DOMAIN rows : R[x] = rows[x]
  <2> DEFINE none == s.rows
  <2>1. DOMAIN none = {}  BY <1>1
  <2> HIDE DEF none
  <2>2. /\ DOMAIN Over(none, rows) = DOMAIN none \cup DOMAIN rows
        /\ \A x \in DOMAIN rows \ DOMAIN none : Over(none, rows)[x] = rows[x]
    BY OverIs
  <2> QED BY <2>1, <2>2 DEF none
<1> HIDE DEF R
<1>3. Knows(known, R)
  <2> DEFINE before == NoRows  nothing == Nothing
  <2>1. DOMAIN before = {}  BY DEF NoRows
  <2>2. \A c \in Created, u \in Users :
          nothing[c][u].granted = {} /\ nothing[c][u].member = {}
    BY DEF Nothing, Created
  <2> HIDE DEF before, nothing
  <2>3. Knows(nothing, before)
    <3> SUFFICES ASSUME NEW c \in Created, NEW u \in Users
                 PROVE  Brought(nothing, before, c, u) /\ Learnt(nothing, before, c, u)
      BY DEF Knows
    <3>1. Brought(nothing, before, c, u)  BY <2>2 DEF Brought, NeedsUpdate
    <3>2. Learnt(nothing, before, c, u)  BY <2>1, <2>2, TableSays DEF Learnt
    <3> QED BY <3>1, <3>2
  <2>4. /\ DOMAIN R = DOMAIN rows \cup DOMAIN before
        /\ \A x \in DOMAIN rows : R[x] = rows[x] /\ x \notin DOMAIN before
        /\ \A x \in DOMAIN before : R[x] = before[x]
    BY <1>2, <2>1
  <2>5. Knows(Spread(nothing, Affecting(rows)), R)
    BY <2>3, <2>4, SpreadLearns
  <2> QED BY <2>5 DEF nothing
<1>4. ASSUME NEW c \in Created \ {t}, NEW u \in Users, thread[c].depth <= 0,
             Right(NoRows, c, u)
      PROVE  Kept(R, c, u)
  <2>1. c = Root
    <3> SUFFICES ASSUME c # Root PROVE FALSE  OBVIOUS
    <3> DEFINE a == thread[c].parent
    <3>1. thread[c].depth \in Nat /\ thread[a].depth \in Nat
          /\ thread[a].depth < thread[c].depth
      BY ParentAbove
    <3> QED BY <1>4, <3>1
  <2>2. At(R, c, u) = row[c][u] /\ At(NoRows, c, u) = row[c][u]
    BY <1>2 DEF At, NoRows
  <2> QED BY <1>4, <2>1, <2>2 DEF Right, Kept, Grants, Joined
<1>5. Passed(s, rows, t, 0)
  BY <1>1, <1>3, <1>4 DEF Passed, R
<1> QED BY <1>5 DEF s

\* A walk passes a layer.
LEMMA PassesLayer ==
  ASSUME Tree, ~misplaced, Table, NEW t \in Created, NEW rows, AreRows(rows),
         DOMAIN rows \subseteq {t} \X Users, NEW d \in Nat \ {0}, NEW above,
         IsWalk(above), Passed(above, rows, t, d - 1)
  PROVE  Passed(Deeper(above, d), rows, t, d)
<1> DEFINE L  == Layer(above.known, d)
           w  == Deeper(above, d)
           R  == Over(above.rows, rows)
           R1 == Over(w.rows, rows)
<1>1. w.known = Spread(above.known, Affecting(L)) /\ w.rows = Over(L, above.rows)
  <2> DEFINE known == Spread(above.known, Affecting(L))
             all == Over(L, above.rows)
             fails == \/ above.failed
                      \/ \E x \in DOMAIN Affecting(L) : \E c \in Found(x[1]) :
                           thread[c].depth <= d
  <2>1. w = [known |-> known, rows |-> all, failed |-> fails]
    BY DEF Deeper, AddLayer
  <2> HIDE DEF known, all, fails, w
  <2>2. w.known = known /\ w.rows = all  BY <2>1
  <2> QED BY <2>2 DEF known, all
<1>2. AreRows(L) /\ \A x \in DOMAIN L : thread[x[1]].depth = d
  BY LayerAreRows DEF IsWalk
<1>3. /\ \A x \in DOMAIN above.rows :
           /\ x \in Created \X Users /\ HasRows(x[1])
           /\ thread[t].depth < thread[x[1]].depth /\ thread[x[1]].depth <= d - 1
           /\ <<t, x[2]>> \in DOMAIN rows
      /\ Knows(above.known, R)
      /\ \A c \in Created \ {t}, u \in Users :
           HasRows(c) /\ thread[c].depth <= d - 1 /\ Right(NoRows, c, u) => Kept(R, c, u)
  BY DEF Passed
<1>4. /\ DOMAIN R = DOMAIN above.rows \cup DOMAIN rows
      /\ DOMAIN R1 = DOMAIN L \cup DOMAIN R
      /\ \A x \in DOMAIN L : R1[x] = L[x]
      /\ \A x \in DOMAIN R \ DOMAIN L : R1[x] = R[x]
  <2> DEFINE before == above.rows  after == w.rows  layer == L
  <2>1. /\ DOMAIN Over(before, rows) = DOMAIN before \cup DOMAIN rows
        /\ \A x \in DOMAIN before : Over(before, rows)[x] = before[x]
        /\ \A x \in DOMAIN rows \ DOMAIN before : Over(before, rows)[x] = rows[x]
    BY OverIs
  <2>2. after = Over(layer, before)  BY <1>1
  <2> HIDE DEF before, after, layer
  <2>3. /\ DOMAIN after = DOMAIN layer \cup DOMAIN before
        /\ \A x \in DOMAIN layer : after[x] = layer[x]
        /\ \A x \in DOMAIN before \ DOMAIN layer : after[x] = before[x]
    <3>1. /\ DOMAIN Over(layer, before) = DOMAIN layer \cup DOMAIN before
          /\ \A x \in DOMAIN layer : Over(layer, before)[x] = layer[x]
          /\ \A x \in DOMAIN before \ DOMAIN layer : Over(layer, before)[x] = before[x]
      BY OverIs
    <3> QED BY <2>2, <3>1
  <2>4. /\ DOMAIN Over(after, rows) = DOMAIN after \cup DOMAIN rows
        /\ \A x \in DOMAIN after : Over(after, rows)[x] = after[x]
        /\ \A x \in DOMAIN rows \ DOMAIN after : Over(after, rows)[x] = rows[x]
    BY OverIs
  <2> QED BY <2>1, <2>3, <2>4 DEF before, after, layer
<1>5. \A a \in Created : thread[a].depth \in Nat /\ a \in Threads
  BY BoundsAssumption DEF Created, Tree
<1> HIDE DEF L, w, R, R1
<1>12. ASSUME NEW x \in DOMAIN above.rows
       PROVE  thread[x[1]].depth # d /\ thread[x[1]].depth <= d
  <2>1. x[1] \in Created /\ thread[x[1]].depth <= d - 1  BY <1>3
  <2> QED BY <1>5, <2>1
\* rows are found only below t
<1>6. ASSUME NEW c \in Created, NEW u \in Users, NEW a \in {thread[c].parent, Container(c)},
             c # Root, <<a, u>> \in DOMAIN R
      PROVE  thread[t].depth < thread[c].depth /\ <<t, u>> \in DOMAIN rows
  <2>1. a \in Created /\ thread[a].depth < thread[c].depth  BY <1>6, ParentAbove
  <2>2. a = t \/ thread[t].depth < thread[a].depth  BY <1>3, <1>4, <1>6
  <2>3. <<t, u>> \in DOMAIN rows  BY <1>3, <1>4, <1>6
  <2> QED BY <1>5, <2>1, <2>2, <2>3
<1>7. ASSUME NEW x \in DOMAIN L
      PROVE  /\ x \in Created \X Users /\ HasRows(x[1])
             /\ thread[t].depth < thread[x[1]].depth /\ x \notin DOMAIN R
             /\ <<t, x[2]>> \in DOMAIN rows
  <2>1. PICK c \in Created, u \in Users : x = <<c, u>>  BY <1>2 DEF AreRows
  <2>2. NeedsUpdate(above.known, c, u)  BY <2>1, LayerIs DEF L
  <2>3. Brought(above.known, R, c, u)  BY <1>3 DEF Knows
  <2>4. c # Root /\ HasRows(c)  BY <2>2, <2>3 DEF Brought
  <2>5. \/ <<thread[c].parent, u>> \in DOMAIN R
        \/ <<Container(c), u>> \in DOMAIN R
    BY <2>2, <2>3 DEF Brought, NeedsUpdate
  <2>6. thread[t].depth < thread[c].depth /\ <<t, u>> \in DOMAIN rows
    BY <1>6, <2>4, <2>5
  <2>7. c # t /\ thread[c].depth = d  BY <1>2, <1>5, <2>1, <2>6
  <2>8. x \notin DOMAIN R
    <3>1. <<c, u>> \notin DOMAIN rows  BY <2>7
    <3>2. <<c, u>> \notin DOMAIN above.rows  BY <1>12, <2>7
    <3> QED BY <1>4, <2>1, <3>1, <3>2
  <2> QED BY <2>1, <2>4, <2>6, <2>8
<1>8. \A x \in DOMAIN w.rows :
        /\ x \in Created \X Users /\ HasRows(x[1])
        /\ thread[t].depth < thread[x[1]].depth /\ thread[x[1]].depth <= d
        /\ <<t, x[2]>> \in DOMAIN rows
  <2>1. DOMAIN w.rows \subseteq DOMAIN L \cup DOMAIN above.rows
    <3> DEFINE before == above.rows
    <3> HIDE DEF before
    <3>1. DOMAIN Over(L, before) \subseteq DOMAIN L \cup DOMAIN before  BY OverIs
    <3> QED BY <1>1, <3>1 DEF before
  <2>2. \A x \in DOMAIN L : thread[x[1]].depth <= d  BY <1>2
  <2>3. \A x \in DOMAIN above.rows : thread[x[1]].depth <= d
    BY <1>12
  <2> QED BY <1>3, <1>7, <2>1, <2>2, <2>3
<1>9. Knows(w.known, R1)
  <2> DEFINE known == above.known
  <2> HIDE DEF known
  <2>1. Knows(known, R)  BY <1>3 DEF known
  <2>2. /\ DOMAIN R1 = DOMAIN L \cup DOMAIN R
        /\ \A x \in DOMAIN L : R1[x] = L[x] /\ x \notin DOMAIN R
        /\ \A x \in DOMAIN R : R1[x] = R[x]
    BY <1>4, <1>7
  <2>3. Knows(Spread(known, Affecting(L)), R1)
    BY <1>2, <2>1, <2>2, SpreadLearns
  <2> QED BY <1>1, <2>3 DEF known
<1>10. ASSUME NEW c \in Created \ {t}, NEW u \in Users, HasRows(c),
              thread[c].depth <= d, Right(NoRows, c, u)
       PROVE  Kept(R1, c, u)
  <2>1. ASSUME NEW a \in Created, thread[a].depth < d
        PROVE  At(R1, a, u) = At(R, a, u)
    <3>1. <<a, u>> \notin DOMAIN L  BY <1>2, <1>5, <2>1
    <3> QED BY <1>4, <3>1 DEF At
  <2>2. Grants(R1, c, u) = Grants(R, c, u) /\ Joined(R1, c, u) = Joined(R, c, u)
    <3>1. CASE c = Root  BY <3>1 DEF Grants, Joined
    <3>2. CASE c # Root
      <4>1. \A a \in {thread[c].parent, Container(c)} :
              a \in Created /\ thread[a].depth < d
        BY <1>5, <1>10, <3>2, ParentAbove
      <4> QED BY <2>1, <3>2, <4>1 DEF Grants, Joined
    <3> QED BY <3>1, <3>2
  <2>3. CASE thread[c].depth < d
    <3>1. Kept(R, c, u)  BY <1>3, <1>5, <1>10, <2>3
    <3> QED BY <2>1, <2>2, <2>3, <3>1 DEF Kept
  <2>4. CASE thread[c].depth = d
    <3>1. c # Root  BY <2>4 DEF Tree
    <3> DEFINE known == above.known
               new == DescendantRow(known, c, u)
               r == At(R1, c, u)
    <3>2. Learnt(known, R, c, u)  BY <1>3, <1>10, <3>1 DEF Knows
    <3>3. At(R, c, u) = row[c][u]
      <4>1. <<c, u>> \notin DOMAIN rows  OBVIOUS
      <4>2. <<c, u>> \notin DOMAIN above.rows  BY <1>12, <2>4
      <4> QED BY <1>4, <4>1, <4>2 DEF At
    <3>4. r = IF NeedsUpdate(known, c, u) /\ ~Unchanged(row[c][u], new)
              THEN new ELSE row[c][u]
      <4>1. <<c, u>> \in DOMAIN L <=> /\ NeedsUpdate(known, c, u)
                                      /\ ~Unchanged(row[c][u], new)
        BY <2>4, LayerIs DEF L
      <4>2. <<c, u>> \in DOMAIN L => L[<<c, u>>] = new  BY LayerIs DEF L
      <4> HIDE DEF new, known
      <4>3. <<c, u>> \in DOMAIN L => r = new  BY <1>4, <4>2 DEF At
      <4>4. <<c, u>> \notin DOMAIN L => r = row[c][u]  BY <1>4, <3>3 DEF At
      <4> QED BY <4>1, <4>3, <4>4
    <3> DEFINE joined == Joined(R, c, u)  grants == Grants(R, c, u)
    <3>5. joined \in BOOLEAN  BY DEF Joined
    <3>6. /\ \/ known[c][u].granted = {} /\ grants = FromParent(c, u)
             \/ known[c][u].granted = {grants}
          /\ \/ known[c][u].member = {} /\ (InContainer(c, u) => joined)
             \/ known[c][u].member = {joined}
      BY <3>2 DEF Learnt
    <3>7. Unchanged(row[c][u], NewRow(c, row[c][u].role, InContainer(c, u),
                                      FromParent(c, u)))
      BY <1>10, RightOfTable
    <3> HIDE DEF known, new, r, joined, grants
    <3>8. Unchanged(r, NewRow(c, row[c][u].role, joined, grants))
      BY <3>1, <3>4, <3>5, <3>6, <3>7, LayerSettles DEF new
    <3> QED BY <2>2, <3>8 DEF Kept, r, joined, grants
  <2> QED BY <1>5, <1>10, <2>3, <2>4
<1>11. Passed(w, rows, t, d)
  BY <1>8, <1>9, <1>10 DEF Passed, R1
<1> QED BY <1>11 DEF w

\* It passes them all.
LEMMA DescendPasses ==
  ASSUME Tree, ~misplaced, Table, NEW t \in Created, NEW rows, AreRows(rows),
         DOMAIN rows \subseteq {t} \X Users
  PROVE  Passed(Descend(rows), rows, t, MaxDepth)
<1>1. PICK w : /\ w[0] = Start(rows)
               /\ \A d \in 1 .. MaxDepth : w[d] = Deeper(w[d - 1], d)
               /\ Descend(rows) = w[MaxDepth]
  BY DescendIsWalk
<1> DEFINE Good == {d \in 0 .. MaxDepth : IsWalk(w[d]) /\ Passed(w[d], rows, t, d)}
<1>2. 0 \in Good
  <2>1. IsWalk(w[0])  BY <1>1, StartIsWalk
  <2>2. Passed(w[0], rows, t, 0)  BY <1>1, StartPassed
  <2> QED BY <2>1, <2>2, BoundsAssumption
<1>3. ASSUME NEW d \in 1 .. MaxDepth, d - 1 \in Good PROVE d \in Good
  <2> DEFINE above == w[d - 1]
  <2>1. IsWalk(above) /\ Passed(above, rows, t, d - 1)  BY <1>3
  <2>2. d \in Nat \ {0} /\ d \in 0 .. MaxDepth  BY BoundsAssumption
  <2>3. w[d] = Deeper(above, d)  BY <1>1
  <2> HIDE DEF above
  <2>4. IsWalk(w[d])  BY <2>1, <2>2, <2>3, DeeperIsWalk
  <2>5. Passed(w[d], rows, t, d)  BY <2>1, <2>2, <2>3, PassesLayer
  <2> QED BY <2>2, <2>4, <2>5
<1> HIDE DEF Good
<1>4. 0 .. MaxDepth \subseteq Good  BY <1>2, <1>3, UpTo, BoundsAssumption
<1>5. MaxDepth \in Good  BY <1>4, BoundsAssumption
<1> QED BY <1>1, <1>5 DEF Good

\* rows of t and what the walk down from them gives
WithBelow(R, rows) ==
  LET below == Descend(rows).rows
  IN /\ DOMAIN R = DOMAIN below \cup DOMAIN rows
     /\ \A x \in DOMAIN below \ DOMAIN rows : R[x] = below[x]
     /\ \A x \in DOMAIN rows \ DOMAIN below : R[x] = rows[x]

\* Written together with what the walk gives, rows of t leave every row right
\* below t that was right, whatever else the table holds.  The walk writes
\* to no thread without rows and about no other users.
LEMMA WalkIsEnough ==
  ASSUME Tree, ~misplaced, Table, NEW t \in Created, NEW rows, AreRows(rows),
         DOMAIN rows \subseteq {t} \X Users, NEW R, WithBelow(R, rows)
  PROVE  /\ \A x \in DOMAIN R : /\ x \in Created \X Users
                                /\ x[1] = t \/ HasRows(x[1])
                                /\ <<t, x[2]>> \in DOMAIN rows
         /\ \A u \in Users :
              /\ At(R, t, u) = At(rows, t, u)
              /\ Grants(R, t, u) = FromParent(t, u)
              /\ Joined(R, t, u) = InContainer(t, u)
         /\ \A c \in Created \ {t}, u \in Users :
              HasRows(c) /\ Right(NoRows, c, u) => Kept(R, c, u)
<1> DEFINE below == Descend(rows).rows
           all == Over(below, rows)
<1>1. /\ \A x \in DOMAIN below :
           /\ x \in Created \X Users /\ HasRows(x[1])
           /\ thread[t].depth < thread[x[1]].depth /\ thread[x[1]].depth <= MaxDepth
           /\ <<t, x[2]>> \in DOMAIN rows
      /\ \A c \in Created \ {t}, u \in Users :
           HasRows(c) /\ thread[c].depth <= MaxDepth /\ Right(NoRows, c, u)
             => Kept(all, c, u)
  BY DescendPasses DEF Passed
<1>2. \A a \in Created : /\ a \in Threads /\ thread[a].depth \in Nat
                         /\ thread[a].depth <= MaxDepth
  BY BoundsAssumption DEF Created, Tree
<1>3. /\ DOMAIN all = DOMAIN below \cup DOMAIN rows
      /\ \A x \in DOMAIN below : all[x] = below[x]
      /\ \A x \in DOMAIN rows \ DOMAIN below : all[x] = rows[x]
  <2> HIDE DEF below
  <2> QED BY OverIs
<1>4. /\ DOMAIN R = DOMAIN below \cup DOMAIN rows
      /\ \A x \in DOMAIN below \ DOMAIN rows : R[x] = below[x]
      /\ \A x \in DOMAIN rows \ DOMAIN below : R[x] = rows[x]
  BY DEF WithBelow
<1> HIDE DEF below, all
<1>5. \A x \in DOMAIN below : x \notin DOMAIN rows  BY <1>1, <1>2
<1>6. \A a, u : At(R, a, u) = At(all, a, u)  BY <1>3, <1>4, <1>5 DEF At
<1>7. \A c, u : Kept(all, c, u) => Kept(R, c, u)
  BY <1>6 DEF Kept, Grants, Joined
<1>8. ASSUME NEW a \in Created, NEW u \in Users, thread[a].depth < thread[t].depth
      PROVE  At(R, a, u) = row[a][u]
  <2>1. <<a, u>> \notin DOMAIN rows  BY <1>2, <1>8
  <2>2. <<a, u>> \notin DOMAIN below
    <3>1. ~(thread[t].depth < thread[a].depth)  BY <1>2, <1>8
    <3> QED BY <1>1, <3>1
  <2> QED BY <1>4, <2>1, <2>2 DEF At
<1>9. ASSUME NEW u \in Users
      PROVE  /\ At(R, t, u) = At(rows, t, u)
             /\ Grants(R, t, u) = FromParent(t, u)
             /\ Joined(R, t, u) = InContainer(t, u)
  <2>1. <<t, u>> \notin DOMAIN below  BY <1>1, <1>2
  <2>2. At(R, t, u) = At(rows, t, u)  BY <1>4, <2>1 DEF At
  <2>3. CASE t = Root
    <3>1. Grants(R, t, u) = FromParent(t, u)  BY <2>3 DEF Grants, FromParent
    <3>2. Joined(R, t, u) = InContainer(t, u)  BY <2>3 DEF Joined, InContainer
    <3> QED BY <2>2, <3>1, <3>2
  <2>4. CASE t # Root
    <3>1. \A a \in {thread[t].parent, Container(t)} :
            a \in Created /\ thread[a].depth < thread[t].depth
      BY <2>4, ParentAbove
    <3>2. \A a \in {thread[t].parent, Container(t)} : At(R, a, u) = row[a][u]
      BY <1>8, <3>1
    <3>3. Grants(R, t, u) = FromParent(t, u)
      BY <2>4, <3>2 DEF Grants, FromParent
    <3>4. Joined(R, t, u) = InContainer(t, u)
      BY <2>4, <3>2 DEF Joined, InContainer
    <3> QED BY <2>2, <3>3, <3>4
  <2> QED BY <2>2, <2>3, <2>4
<1>10. \A x \in DOMAIN R : /\ x \in Created \X Users
                           /\ x[1] = t \/ HasRows(x[1])
                           /\ <<t, x[2]>> \in DOMAIN rows
  <2>1. \A x \in DOMAIN rows : /\ x \in Created \X Users /\ x[1] = t
                               /\ <<t, x[2]>> \in DOMAIN rows
    OBVIOUS
  <2> QED BY <1>1, <1>4, <2>1
<1> QED BY <1>1, <1>2, <1>7, <1>9, <1>10

\* a changeset, part by part
LEMMA Parts ==
  ASSUME NEW i, NEW o, NEW r, NEW f, NEW c,
         c = [intended |-> i, other |-> o, refused |-> r, failed |-> f]
  PROVE  c.intended = i /\ c.other = o /\ c.refused = r /\ c.failed = f
OBVIOUS

\* what commitMembershipChangeset writes of changeRole's changeset
LEMMA RowsWithIntent ==
  ASSUME NEW t, NEW rows, NEW refused, NEW below, NEW c, NEW R,
         c = [NoChanges EXCEPT !.intended = rows, !.refused = refused],
         R = Rows(AndBelow(c, below))
  PROVE  R = Over(rows, Over(below.rows, << >>))
<1> DEFINE none == << >>  no == FALSE  before == NoChanges
           fails == below.failed  under == below.rows
<1>1. before = [intended |-> none, other |-> none, refused |-> no, failed |-> no]
  BY DEF NoChanges
<1>2. c = [before EXCEPT !.intended = rows, !.refused = refused]  OBVIOUS
<1> HIDE DEF none, no, before, fails, under
<1>3. c = [intended |-> rows, other |-> none, refused |-> refused, failed |-> no]
  BY <1>1, <1>2, WithIntent
<1> DEFINE b == AndBelow(c, below)
<1>4. b = [c EXCEPT !.other = Over(under, c.other), !.failed = fails]
  BY DEF AndBelow, fails, under
<1> HIDE DEF b
<1>5. c.other = none /\ c.intended = rows
  <2> DEFINE d == c
  <2>1. d = [intended |-> rows, other |-> none, refused |-> refused, failed |-> no]
    BY <1>3
  <2> HIDE DEF d
  <2>2. d.other = none /\ d.intended = rows  BY <2>1, Parts
  <2> QED BY <2>2 DEF d
<1>6. b.intended = rows /\ b.other = Over(under, none)
  BY <1>3, <1>4, <1>5
<1>7. R = Over(b.intended, b.other)  BY DEF Rows, b
<1> QED BY <1>6, <1>7 DEF under, none

\* and of recalculateThreadPermissions's
LEMMA RowsWithout ==
  ASSUME NEW t, NEW rows, NEW below, NEW c, NEW R,
         c = [NoChanges EXCEPT !.other = rows],
         R = Rows(AndBelow(c, below))
  PROVE  R = Over(<< >>, Over(below.rows, rows))
<1> DEFINE none == << >>  no == FALSE  before == NoChanges
           fails == below.failed  under == below.rows
<1>1. before = [intended |-> none, other |-> none, refused |-> no, failed |-> no]
  BY DEF NoChanges
<1>2. c = [before EXCEPT !.other = rows]  OBVIOUS
<1> HIDE DEF none, no, before, fails, under
<1>3. c = [intended |-> none, other |-> rows, refused |-> no, failed |-> no]
  BY <1>1, <1>2
<1> DEFINE b == AndBelow(c, below)
<1>4. b = [c EXCEPT !.other = Over(under, c.other), !.failed = fails]
  BY DEF AndBelow, fails, under
<1> HIDE DEF b
<1>5. c.other = rows /\ c.intended = none  BY <1>3, Parts
<1>6. b.intended = none /\ b.other = Over(under, rows)
  BY <1>3, <1>4, <1>5
<1>7. R = Over(b.intended, b.other)  BY DEF Rows, b
<1> QED BY <1>6, <1>7 DEF under, none

\* rows over what is below them, or the other way round
LEMMA EitherWay ==
  ASSUME NEW rows, NEW none, DOMAIN none = {}, NEW R,
         \/ R = Over(rows, Over(Descend(rows).rows, none))
         \/ R = Over(none, Over(Descend(rows).rows, rows))
  PROVE  WithBelow(R, rows)
<1> DEFINE below == Descend(rows).rows
<1> HIDE DEF below
<1>1. CASE R = Over(rows, Over(below, none))
  <2> DEFINE first == Over(below, none)
  <2>1. first = Over(below, none) /\ R = Over(rows, first)  BY <1>1
  <2> HIDE DEF first
  <2>2. Lies(first, below, none) /\ Lies(R, rows, first)  BY <2>1, OverLies
  <2> QED BY <2>2 DEF Lies, WithBelow, below
<1>2. CASE R = Over(none, Over(below, rows))
  <2> DEFINE first == Over(below, rows)
  <2>1. first = Over(below, rows) /\ R = Over(none, first)  BY <1>2
  <2> HIDE DEF first
  <2>2. Lies(first, below, rows) /\ Lies(R, none, first)  BY <2>1, OverLies
  <2> QED BY <2>2 DEF Lies, WithBelow, below
<1> QED BY <1>1, <1>2 DEF below

\* a row computed in t is right there
LEMMA RightHere ==
  ASSUME NEW t, NEW u, NEW role \in Roles, NEW member \in BOOLEAN,
         member => InContainer(t, u), NEW r, r = NewRow(t, role, member, FromParent(t, u))
  PROVE  Unchanged(r, NewRow(t, r.role, InContainer(t, u), FromParent(t, u)))
<1> DEFINE in == InContainer(t, u)  from == FromParent(t, u)
<1>1. in \in BOOLEAN  BY DEF InContainer
<1>2. r = NewRow(t, role, member, from)  OBVIOUS
<1>3. member => in  OBVIOUS
<1> HIDE DEF in, from
<1>4. NewRow(t, r.role, member, from) = r  BY <1>2, AgainTheSame
<1>5. r.role \in Roles  BY <1>2, NewRoleIsRole
<1>6. Unchanged(r, NewRow(t, r.role, member, from))  BY <1>4 DEF Unchanged
<1>7. Unchanged(r, NewRow(t, r.role, in, from))
  BY <1>1, <1>3, <1>5, <1>6, JoiningChangesNothing
<1> QED BY <1>7 DEF in, from

\* What is written of a changeset of changeRole: the rows it writes in the
\* thread are right, every row stays right that was, and those below keep
\* their roles where they may.
ChangesRole(R, t, users, role) ==
  /\ \A x \in DOMAIN R : /\ x \in Created \X users
                         /\ x[1] = t \/ HasRows(x[1])
                         /\ <<t, x[2]>> \in DOMAIN R
  /\ \A u \in Users : <<t, u>> \in DOMAIN R =>
       /\ R[<<t, u>>] = NewRow(t, role, IF role > 0 THEN InContainer(t, u)
                                        ELSE t = Root, FromParent(t, u))
       /\ Right(R, t, u)
  /\ \A u \in Users : /\ Right(NoRows, t, u) => Right(R, t, u)
                      /\ Grants(R, t, u) = FromParent(t, u)
  /\ \A c \in Created \ {t}, u \in Users :
       HasRows(c) /\ Right(NoRows, c, u) => Kept(R, c, u)

\* rows of t only for those who have no role there
Newcomers(R, t) ==
  \A u \in Users : <<t, u>> \in DOMAIN R => ~(row[t][u].role > 0)

\* The rows of changeRole's changeset are the thread's own and what the walk
\* below them finds: they leave right what was right, and make their own so.
LEMMA ChangeRoleIsEnough ==
  ASSUME Tree, ~misplaced, Table, NEW t \in Created, NEW users \in SUBSET Users,
         NEW role \in Roles, t = Root \/ role # Admins, NEW onlyNew \in BOOLEAN,
         NEW changeset, NEW R,
         changeset = ChangeRole(t, users, role, onlyNew), R = Rows(changeset)
  PROVE  ChangesRole(R, t, users, role) /\ (onlyNew => Newcomers(R, t))
<1> DEFINE old(u) == row[t][u]
           in(u) == IF role > 0 THEN InContainer(t, u) ELSE t = Root
           new(u) == NewRow(t, role, in(u), FromParent(t, u))
           considered == {u \in users : /\ ~(old(u).exists /\ old(u).role = role)
                                        /\ ~(onlyNew /\ old(u).role > 0)}
           written == {u \in considered :
                         ~(old(u).exists /\ Unchanged(old(u), new(u)))}
           rows == [x \in {t} \X written |-> new(x[2])]
           refused == \E u \in considered : (role > 0) # (new(u).role > 0)
           c == [NoChanges EXCEPT !.intended = rows, !.refused = refused]
           below == Descend(rows)
<1>1. changeset = AndBelow(c, below)
  BY DEF ChangeRole
<1>2. written \subseteq users  OBVIOUS
<1>3. DOMAIN rows = {t} \X written /\ \A u \in written : rows[<<t, u>>] = new(u)
  OBVIOUS
<1>4. AreRows(rows)
  <2>1. ASSUME NEW u \in Users PROVE IsNewRow(new(u), t)
    <3>1. IsBlob(FromParent(t, u)) /\ (t = Root => FromParent(t, u) = NoPermissions)
      BY FromParentIsBlob
    <3> QED BY <3>1, NewRowIsRow
  <2> HIDE DEF written, new
  <2> QED BY <1>2, <2>1 DEF AreRows
<1>5. c = [NoChanges EXCEPT !.intended = rows, !.refused = refused]  OBVIOUS
<1>6. ASSUME NEW u \in Users PROVE in(u) \in BOOLEAN /\ (in(u) => InContainer(t, u))
  BY DEF InContainer
<1> HIDE DEF rows, refused, c, below, written
<1>7. R = Over(rows, Over(below.rows, << >>))
  BY <1>1, <1>5, RowsWithIntent
<1>8. WithBelow(R, rows)
  <2> DEFINE none == << >>
  <2>1. DOMAIN none = {}  OBVIOUS
  <2>2. R = Over(rows, Over(Descend(rows).rows, none))  BY <1>7 DEF below
  <2> HIDE DEF none
  <2> QED BY <2>1, <2>2, EitherWay
<1>9. DOMAIN rows \subseteq {t} \X Users  BY <1>2, <1>3
<1>10. /\ \A x \in DOMAIN R : /\ x \in Created \X Users
                              /\ x[1] = t \/ HasRows(x[1])
                              /\ <<t, x[2]>> \in DOMAIN rows
       /\ \A u \in Users :
            /\ At(R, t, u) = At(rows, t, u)
            /\ Grants(R, t, u) = FromParent(t, u)
            /\ Joined(R, t, u) = InContainer(t, u)
       /\ \A b \in Created \ {t}, u \in Users :
            HasRows(b) /\ Right(NoRows, b, u) => Kept(R, b, u)
  BY <1>4, <1>8, <1>9, WalkIsEnough
<1>11. DOMAIN rows \subseteq DOMAIN R  BY <1>8 DEF WithBelow
<1>12. ASSUME NEW u \in Users, <<t, u>> \in DOMAIN R
       PROVE  u \in written /\ R[<<t, u>>] = new(u)
  <2>1. <<t, u>> \in DOMAIN rows  BY <1>10, <1>12
  <2>2. u \in written /\ rows[<<t, u>>] = new(u)  BY <1>3, <2>1
  <2>3. At(R, t, u) = R[<<t, u>>] /\ At(rows, t, u) = rows[<<t, u>>]
    BY <1>12, <2>1 DEF At
  <2> HIDE DEF new
  <2> QED BY <1>10, <2>2, <2>3
<1>13. ASSUME NEW u \in Users, <<t, u>> \in DOMAIN R PROVE Right(R, t, u)
  <2> DEFINE r == At(R, t, u)  member == in(u)
  <2>1. r = NewRow(t, role, member, FromParent(t, u))
    BY <1>12, <1>13 DEF At
  <2>2. member \in BOOLEAN /\ (member => InContainer(t, u))  BY <1>6
  <2> HIDE DEF r, member
  <2>3. Unchanged(r, NewRow(t, r.role, InContainer(t, u), FromParent(t, u)))
    BY <2>1, <2>2, RightHere
  <2> QED BY <1>10, <2>3 DEF Right, r
<1>14. ASSUME NEW u \in Users, Right(NoRows, t, u) PROVE Right(R, t, u)
  <2>1. CASE <<t, u>> \in DOMAIN R  BY <1>13, <2>1
  <2>2. CASE <<t, u>> \notin DOMAIN R
    <3>1. At(R, t, u) = row[t][u]  BY <2>2 DEF At
    <3>2. Unchanged(row[t][u], NewRow(t, row[t][u].role, InContainer(t, u),
                                      FromParent(t, u)))
      BY <1>14, RightOfTable
    <3> QED BY <1>10, <3>1, <3>2 DEF Right
  <2> QED BY <2>1, <2>2
<1>15. ASSUME onlyNew, NEW u \in Users, <<t, u>> \in DOMAIN R
       PROVE  ~(row[t][u].role > 0)
  <2>1. u \in considered  BY <1>12, <1>15 DEF written
  <2> QED BY <1>15, <2>1
<1>16. \A x \in DOMAIN R : x \in Created \X users /\ <<t, x[2]>> \in DOMAIN R
  BY <1>2, <1>3, <1>10, <1>11
<1> HIDE DEF new, written
<1>17. ASSUME NEW u \in Users, <<t, u>> \in DOMAIN R
       PROVE  R[<<t, u>>] = NewRow(t, role, IF role > 0 THEN InContainer(t, u)
                                            ELSE t = Root, FromParent(t, u))
  BY <1>12, <1>17 DEF new
<1>18. ChangesRole(R, t, users, role)
  BY <1>10, <1>13, <1>14, <1>16, <1>17 DEF ChangesRole
<1> QED BY <1>15, <1>18 DEF Newcomers

\* The changeset of recalculateThreadPermissions makes the thread's rows
\* right, and leaves every other row right that was.
LEMMA RecalculateIsEnough ==
  ASSUME Tree, ~misplaced, Table, NEW t \in Created, NEW R, R = Rows(Recalculate(t))
  PROVE  /\ \A x \in DOMAIN R : /\ x \in Created \X Users
                                /\ x[1] = t \/ HasRows(x[1])
         /\ \A u \in Users : Kept(R, t, u) /\ Grants(R, t, u) = FromParent(t, u)
         /\ \A c \in Created \ {t}, u \in Users :
              HasRows(c) /\ Right(NoRows, c, u) => Kept(R, c, u)
<1> DEFINE in(u) == InContainer(t, u)
           new(u) == NewRow(t, row[t][u].role, in(u), FromParent(t, u))
           every == [x \in {t} \X Users |-> new(x[2])]
           rows == Changing(every)
           c == [NoChanges EXCEPT !.other = rows]
           below == Descend(rows)
<1>1. Recalculate(t) = AndBelow(c, below)
  BY DEF Recalculate
<1>2. /\ DOMAIN every = {t} \X Users
      /\ \A u \in Users : every[<<t, u>>] = new(u)
  OBVIOUS
<1>3. AreRows(every)
  <2>1. ASSUME NEW u \in Users PROVE IsNewRow(new(u), t)
    <3>1. IsBlob(FromParent(t, u)) /\ (t = Root => FromParent(t, u) = NoPermissions)
      BY FromParentIsBlob
    <3>2. row[t][u].role \in Roles /\ (t # Root => row[t][u].role # Admins)
      BY DEF Table, IsRow, Fits, Created
    <3> QED BY <3>1, <3>2, NewRowIsRow
  <2> HIDE DEF new
  <2> QED BY <2>1 DEF AreRows
<1> HIDE DEF every
<1>4. AreRows(rows) /\ DOMAIN rows \subseteq {t} \X Users
  BY <1>2, <1>3, ChangingAreRows
<1>5. ASSUME NEW u \in Users
      PROVE  At(rows, t, u) = IF Unchanged(row[t][u], new(u)) THEN row[t][u] ELSE new(u)
  BY <1>2 DEF At, Changing
<1>6. c = [NoChanges EXCEPT !.other = rows]  OBVIOUS
<1> HIDE DEF rows, c, below
<1>7. R = Over(<< >>, Over(below.rows, rows))
  BY <1>1, <1>6, RowsWithout
<1>8. WithBelow(R, rows)
  <2> DEFINE none == << >>
  <2>1. DOMAIN none = {}  OBVIOUS
  <2>2. R = Over(none, Over(Descend(rows).rows, rows))  BY <1>7 DEF below
  <2> HIDE DEF none
  <2> QED BY <2>1, <2>2, EitherWay
<1>9. /\ \A x \in DOMAIN R : /\ x \in Created \X Users
                             /\ x[1] = t \/ HasRows(x[1])
                             /\ <<t, x[2]>> \in DOMAIN rows
      /\ \A u \in Users :
           /\ At(R, t, u) = At(rows, t, u)
           /\ Grants(R, t, u) = FromParent(t, u)
           /\ Joined(R, t, u) = InContainer(t, u)
      /\ \A b \in Created \ {t}, u \in Users :
           HasRows(b) /\ Right(NoRows, b, u) => Kept(R, b, u)
  BY <1>4, <1>8, WalkIsEnough
<1>10. ASSUME NEW u \in Users PROVE Kept(R, t, u)
  <2>1. At(R, t, u) = IF Unchanged(row[t][u], new(u)) THEN row[t][u] ELSE new(u)
    BY <1>5, <1>9
  <2> HIDE DEF new
  <2>2. Unchanged(At(R, t, u), new(u))  BY <2>1 DEF Unchanged
  <2> QED BY <1>9, <2>2 DEF Kept, new
<1> QED BY <1>9, <1>10

\* Once the rows R are written, the table is what they make of it.
LEMMA WrittenIsRight ==
  ASSUME Tree, ~misplaced, NEW R, thread' = thread, Write(R), NEW c \in Created, NEW u \in Users
  PROVE  Right(R, c, u) => Settled(c, u)'
<1>1. \A a \in Threads : row'[a][u] = At(R, a, u)
  BY DEF Write, At
<1>2. c \in Threads /\ Root \in Threads /\ thread[c].parent \in Threads
  BY DEF Tree, Created
<1>3. Container(c) \in Threads /\ Container(c)' = Container(c)
  BY <1>2 DEF Container
<1>4. row'[c][u] = At(R, c, u)  BY <1>1, <1>2
<1>5. FromParent(c, u)' = Grants(R, c, u)
  BY <1>1, <1>2 DEF FromParent, Grants
<1>6. InContainer(c, u)' = Joined(R, c, u)
  BY <1>1, <1>3 DEF InContainer, Joined
<1> QED BY <1>4, <1>5, <1>6 DEF Right, Settled, NewRow, MakePermissionsBlob

\* What the repair script does to one thread.
LEMMA RepairIsEnough ==
  ASSUME Inv, ~misplaced, NEW t \in toRecalculate, Repair(t)
  PROVE  /\ \A c \in Created, u \in Users :
              c = t \/ (HasRows(c) /\ Settled(c, u)) => Settled(c, u)'
         /\ \A c \in Created \ {t} : HasRows(c)' => HasRows(c)
<1> DEFINE changeset == Recalculate(t)
           R == Rows(changeset)
<1>1. Tree /\ Table /\ t \in Created  BY DEF Inv
<1>2. ~changeset.failed  BY <1>1, RecalculateIsChangeset DEF IsChangeset
<1>3. Write(R) /\ thread' = thread  BY <1>2 DEF Repair
<1>4. /\ \A x \in DOMAIN R : x[1] = t \/ HasRows(x[1])
      /\ \A u \in Users : Kept(R, t, u)
      /\ \A c \in Created \ {t}, u \in Users :
           HasRows(c) /\ Right(NoRows, c, u) => Kept(R, c, u)
  BY <1>1, RecalculateIsEnough
<1> HIDE DEF changeset, R
<1>5. ASSUME NEW c \in Created, NEW u \in Users, c = t \/ (HasRows(c) /\ Settled(c, u))
      PROVE  Settled(c, u)'
  <2>1. Kept(R, c, u)  BY <1>4, <1>5, RightOfTable
  <2>2. c \in Threads  BY DEF Created
  <2>3. Right(R, c, u)  BY <1>1, <2>1, <2>2, KeptIsRight
  <2> QED BY <1>1, <1>3, <2>3, WrittenIsRight
<1>6. ASSUME NEW c \in Created \ {t}, HasRows(c)' PROVE HasRows(c)
  <2>1. c \in Threads  BY DEF Created
  <2>2. PICK u \in Users : row'[c][u].exists  BY <1>6 DEF HasRows
  <2>3. CASE <<c, u>> \in DOMAIN R
    <3>1. <<c, u>>[1] = c  OBVIOUS
    <3> QED BY <1>4, <2>3, <3>1
  <2>4. CASE <<c, u>> \notin DOMAIN R
    <3>1. row'[c][u] = row[c][u]  BY <1>3, <2>1, <2>4 DEF Write
    <3> QED BY <2>2, <3>1 DEF HasRows
  <2> QED BY <2>3, <2>4
<1> QED BY <1>5, <1>6

-----------------------------------------------------------------------------
(* The repair script.                                                      *)

\* It runs alone.
Alone == toRecalculate # {} => jobs = {} /\ damaged

\* While it runs only the script itself takes steps.
LEMMA OnlyTheScript ==
  ASSUME Alone, Next, toRecalculate # {}
  PROVE  \E t \in toRecalculate : Repair(t)
<1>1. jobs = {} /\ \A users : ~Free(users)  BY DEF Alone, Free
<1>2. \A t, u, v : ~Join(t, u) /\ ~Leave(t, u) /\ ~Remove(t, u, v)
  BY <1>1 DEF Join, Leave, Remove
<1>3. \A u, v, r : ~UpdateRole(u, v, r)
  BY <1>1 DEF UpdateRole
<1>4. \A t, p, v, o, y : ~CreateThread(t, y, p, v, o)
  BY <1>1 DEF CreateThread
<1>5. \A t, p, v, o, y : ~UpdateThread(t, y, p, v, o)
  BY <1>1 DEF UpdateThread
<1>6. ~StartRepair  BY DEF StartRepair
<1> QED BY <1>1, <1>2, <1>3, <1>4, <1>5, <1>6 DEF Next

\* No request, computation, commit or death concerns it.
LEMMA Stopped ==
  Next /\ ~StartRepair /\ (\A t \in toRecalculate : ~Repair(t))
    => toRecalculate' = toRecalculate
<1> DEFINE stays == toRecalculate' = toRecalculate
<1>1. \A x, y : Change(x, y) => stays  BY DEF Change
<1>2. \A x, y, z, w, v : WriteThread(x, y, z, w, v) => stays  BY DEF WriteThread
<1> HIDE DEF stays
<1>3. \A t, u, v : (Join(t, u) => stays) /\ (Leave(t, u) => stays) /\ (Remove(t, u, v) => stays)
  BY <1>1 DEF Join, Leave, Remove
<1>4. \A u, v, r : UpdateRole(u, v, r) => stays
  BY <1>1 DEF UpdateRole
<1>5. \A t, y, p, v, o : CreateThread(t, y, p, v, o) => stays
  BY <1>2, Zenon DEF CreateThread
<1>6. ASSUME NEW t, NEW y, NEW p, NEW v, NEW o, UpdateThread(t, y, p, v, o)
      PROVE  stays
  <2> DEFINE depth == IF t = Root THEN 0 ELSE DepthBelow(p)
             new == [type |-> y, parent |-> p, depth |-> depth]
             other == y # thread[t].type \/ p # thread[t].parent
  <2>1. WriteThread(t, new, {}, o, other)  BY <1>6 DEF UpdateThread
  <2> HIDE DEF new, other
  <2> QED BY <1>2, <2>1
<1>7. \A j, w : (Compute(j) => stays) /\ (Commit(j) => stays) /\ (Die(j, w) => stays)
  BY DEF Compute, Commit, Die, stays
<1> SUFFICES ASSUME Next, ~StartRepair, \A t \in toRecalculate : ~Repair(t)
             PROVE  stays
  BY DEF stays
<1> QED BY <1>3, <1>4, <1>5, <1>6, <1>7 DEF Next

\* It starts alone; no step starts it over or ends it half way.
LEMMA ScriptGoesOn ==
  Inv /\ (Alone /\ RepairedIsRight) /\ [Next]_vars => (Alone /\ RepairedIsRight)'
<1> SUFFICES ASSUME Inv, Alone, RepairedIsRight, [Next]_vars
             PROVE  Alone' /\ RepairedIsRight'
  OBVIOUS
<1>1. CASE toRecalculate = {} /\ toRecalculate' # {}
  <2>1. Next  BY <1>1 DEF vars
  <2>2. \A t \in toRecalculate : ~Repair(t)  BY <1>1
  <2>3. StartRepair
    BY <1>1, <2>1, <2>2, Stopped
  <2>4. toRecalculate' = Created /\ thread' = thread /\ jobs' = {} /\ damaged'
    BY <2>3 DEF StartRepair
  <2>5. Created' = Created  BY <2>4 DEF Created
  <2> QED BY <2>4, <2>5 DEF Alone, RepairedIsRight
<1>2. CASE toRecalculate' = {}
  BY <1>2 DEF Alone, RepairedIsRight
<1>3. CASE toRecalculate # {} /\ Next
  <2>1. PICK t \in toRecalculate : Repair(t)  BY <1>3, OnlyTheScript
  <2>2. /\ thread' = thread /\ jobs' = jobs /\ misplaced' = misplaced
        /\ toRecalculate' # {} => damaged' /\ toRecalculate' = toRecalculate \ {t}
    BY <2>1 DEF Repair
  <2>3. Created' = Created  BY <2>2 DEF Created
  <2>4. ASSUME ~misplaced', toRecalculate' # {}, NEW c \in Created \ toRecalculate',
               HasRows(c)', NEW u \in Users
        PROVE  Settled(c, u)'
    <3>1. ~misplaced  BY <2>2, <2>4
    <3>2. c = t \/ (HasRows(c) /\ Settled(c, u))
      <4>1. c # t => c \notin toRecalculate  BY <2>2, <2>4
      <4>2. c # t => HasRows(c)  BY <2>1, <2>4, <3>1, RepairIsEnough
      <4> QED BY <1>3, <3>1, <4>1, <4>2 DEF RepairedIsRight
    <3> QED BY <2>1, <3>1, <3>2, RepairIsEnough
  <2> QED BY <1>3, <2>2, <2>3, <2>4 DEF Alone, RepairedIsRight
<1>4. CASE toRecalculate # {} /\ UNCHANGED vars
  BY <1>4 DEF vars, Alone, RepairedIsRight, Created, HasRows, Settled, NewRow,
              MakePermissionsBlob, InContainer, Container, FromParent
<1> QED BY <1>1, <1>2, <1>3, <1>4

-----------------------------------------------------------------------------
(* Permission keys.                                                        *)

OpenKnow  == <<"descendant", "open", "know_of">>
AllKnow   == <<"descendant", "", "know_of">>
OpenJoin  == <<"descendant", "opentoplevel", "join_thread">>
ChildJoin == <<"child", "open", "join_thread">>

\* the keys by which roles grant something to the threads below
Handed == {k \in OpenToDescendants \cup AdminPermissions : Propagates(k)}

\* a key as the parent's blob for children has it
Short(k) == <<"", k[2], k[3]>>

\* the keys of a parent's blob that count in a child of some type
Passing(blob, type) == {k \in DOMAIN blob : Propagates(k) /\ Included(k, type)}

\* and the threads by whose roles they grant it a permission
Grantors(blob, type, permission) ==
  {blob[k] : k \in {j \in Passing(blob, type) : j[3] = permission}}

\* The filter and the permission of such a key tell how far it goes.
Prefixed(k) ==
  k = <<IF k[3] = "join_thread" /\ k[2] \in {"open", ""} THEN "child" ELSE "descendant",
        k[2], k[3]>>

\* The keys handed on are so prefixed.
LEMMA HandedAre == \A k \in Handed : Prefixed(k)
<1>1. \A k \in OpenToDescendants : Prefixed(k)
  <2>1. /\ Prefixed(<<"descendant", "open", "know_of">>)
        /\ Prefixed(<<"descendant", "opentoplevel", "join_thread">>)
        /\ Prefixed(<<"child", "open", "join_thread">>)
    BY DEF Prefixed
  <2> QED BY <2>1 DEF OpenToDescendants
<1>2. \A k \in AdminPermissions : Propagates(k) => Prefixed(k)
  <2>1. /\ Prefixed(<<"descendant", "", "know_of">>)
        /\ Prefixed(<<"child", "", "join_thread">>)
        /\ Prefixed(<<"descendant", "toplevel", "join_thread">>)
        /\ Prefixed(<<"descendant", "toplevel", "create">>)
        /\ Prefixed(<<"descendant", "", "edit_permissions">>)
    BY DEF Prefixed
  <2>2. ~Propagates(KnowOf) /\ ~Propagates(<<"", "", "create">>)
    BY DEF Propagates, KnowOf
  <2> QED BY <2>1, <2>2 DEF AdminPermissions
<1> QED BY <1>1, <1>2 DEF Handed

\* A blob for children tells them apart.
LEMMA OneShort ==
  ASSUME NEW k \in Handed, NEW j \in Handed, k[2] = j[2], k[3] = j[3]
  PROVE  k = j
BY HandedAre DEF Prefixed

\* a blob that has only such keys for those below
HandsOn(blob) ==
  DOMAIN blob \subseteq Keys /\ \A k \in DOMAIN blob : Propagates(k) => k \in Handed

\* what a blob for children holds
LEMMA ForChildrenIs ==
  ASSUME NEW blob, DOMAIN blob \subseteq Keys,
         \A k \in DOMAIN blob : Propagates(k) => k \in Handed,
         NEW from, from = PermissionsForChildren(blob)
  PROVE  /\ \A x \in DOMAIN from : \E k \in DOMAIN blob :
              /\ Propagates(k)
              /\ x = Short(k) \/ (x = k /\ k[1] = "descendant")
         /\ \A k \in DOMAIN blob : Propagates(k) =>
              /\ Short(k) \in DOMAIN from /\ from[Short(k)] = blob[k]
              /\ k[1] = "descendant" => k \in DOMAIN from /\ from[k] = blob[k]
<1> DEFINE keys  == {k \in DOMAIN blob : Propagates(k)}
           short == {<<"", k[2], k[3]>> : k \in keys}
           pick(c) == CHOOSE k \in keys : <<"", k[2], k[3]>> = c
           plain == [c \in short |-> blob[pick(c)]]
           long  == {j \in keys : j[1] = "descendant"}
           deep  == [k \in long |-> blob[k]]
<1>1. from = Over(deep, plain)
  BY DEF PermissionsForChildren
<1>2. ASSUME NEW k \in keys PROVE Short(k) \in short /\ pick(Short(k)) = k
  <2>1. Short(k) = <<"", k[2], k[3]>>  BY DEF Short
  <2>2. pick(Short(k)) \in keys
        /\ <<"", pick(Short(k))[2], pick(Short(k))[3]>> = <<"", k[2], k[3]>>
    BY <2>1
  <2>3. pick(Short(k))[2] = k[2] /\ pick(Short(k))[3] = k[3]
    <3> HIDE DEF pick
    <3> QED BY <2>2
  <2>4. pick(Short(k)) \in Handed /\ k \in Handed
    <3> HIDE DEF pick
    <3> QED BY <2>2
  <2>5. pick(Short(k)) = k
    <3> HIDE DEF pick
    <3> QED BY <2>3, <2>4, OneShort
  <2> QED BY <2>1, <2>5
<1>3. DOMAIN plain = short /\ \A k \in keys : plain[Short(k)] = blob[k]
  <2> HIDE DEF pick
  <2> QED BY <1>2
<1>4. DOMAIN deep = long /\ \A k \in long : deep[k] = blob[k]
  OBVIOUS
<1>5. \A k \in keys : Short(k) \notin long
  BY DEF Short
<1> HIDE DEF plain, deep
<1>6. /\ DOMAIN from = DOMAIN deep \cup DOMAIN plain
      /\ \A x \in DOMAIN deep : from[x] = deep[x]
      /\ \A x \in DOMAIN plain \ DOMAIN deep : from[x] = plain[x]
  <2>1. /\ DOMAIN Over(deep, plain) = DOMAIN deep \cup DOMAIN plain
        /\ \A x \in DOMAIN deep : Over(deep, plain)[x] = deep[x]
        /\ \A x \in DOMAIN plain \ DOMAIN deep : Over(deep, plain)[x] = plain[x]
    BY OverIs
  <2> QED BY <1>1, <2>1
<1>7. \A x \in short : \E k \in keys : x = Short(k)  BY DEF Short
<1>8. \A k \in keys : Short(k) \in short  BY <1>2
<1> HIDE DEF short
<1> QED BY <1>3, <1>4, <1>5, <1>6, <1>7, <1>8

\* a single source is the last one
LEMMA OnlySource ==
  ASSUME NEW s
  PROVE  LastSource({s}) = s
<1>1. CASE s = Root  BY <1>1 DEF LastSource
<1>2. CASE s # Root
  <2>1. {s} # {Root}  BY <1>2
  <2>2. (CHOOSE x \in {s} : x # Root) = s  BY <1>2
  <2> QED BY <2>1, <2>2 DEF LastSource
<1> QED BY <1>1, <1>2

\* What a child inherits from its parent's blob: keys for descendants go on
\* as they are, and all that grant one permission become one.
Inherits(got, blob, type) ==
  /\ \A x \in DOMAIN got : \E k \in Passing(blob, type) :
       x = <<"", "", k[3]>> \/ (x = k /\ k[1] = "descendant")
  /\ \A k \in Passing(blob, type) :
       /\ <<"", "", k[3]>> \in DOMAIN got
       /\ got[<<"", "", k[3]>>] = LastSource(Grantors(blob, type, k[3]))
       /\ k[1] = "descendant" => k \in DOMAIN got /\ got[k] = blob[k]

\* What a child inherits of a blob that hands on such keys.
LEMMA InheritedIs ==
  ASSUME NEW blob, HandsOn(blob),
         NEW type, NEW got, got = Inherited(PermissionsForChildren(blob), type)
  PROVE  Inherits(got, blob, type)
<1> DEFINE from == PermissionsForChildren(blob)
           kept == {k \in DOMAIN from : Included(k, type)}
           of(key) == {from[k] : k \in {j \in kept : InChild(j) = key}}
           pass == Passing(blob, type)
<1>1. got = [key \in {InChild(k) : k \in kept} |-> LastSource(of(key))]
  BY DEF Inherited
<1>2. /\ \A x \in DOMAIN from : \E k \in DOMAIN blob :
           Propagates(k) /\ (x = Short(k) \/ (x = k /\ k[1] = "descendant"))
      /\ \A k \in DOMAIN blob : Propagates(k) =>
           /\ Short(k) \in DOMAIN from /\ from[Short(k)] = blob[k]
           /\ k[1] = "descendant" => k \in DOMAIN from /\ from[k] = blob[k]
  <2>1. from = PermissionsForChildren(blob)  OBVIOUS
  <2>2. DOMAIN blob \subseteq Keys /\ \A k \in DOMAIN blob : Propagates(k) => k \in Handed
    BY DEF HandsOn
  <2> HIDE DEF from
  <2> QED BY <2>1, <2>2, ForChildrenIs
<1> HIDE DEF from
<1>3. \A k : Included(Short(k), type) <=> Included(k, type)
  BY DEF Included, Short
<1>4. \A x \in kept : \E k \in pass :
        x = Short(k) \/ (x = k /\ k[1] = "descendant")
  BY <1>2, <1>3 DEF Passing
<1>5. \A k \in pass : /\ Short(k) \in kept /\ from[Short(k)] = blob[k]
                      /\ k[1] = "descendant" => k \in kept /\ from[k] = blob[k]
  BY <1>2, <1>3 DEF Passing
<1>6. \A k : InChild(Short(k)) = <<"", "", k[3]>>
  BY DEF InChild, Short, Propagates
<1>7. \A k \in pass : k[1] = "descendant" => InChild(k) = k
  BY DEF InChild, Propagates
<1> HIDE DEF kept
<1>8. \A x \in DOMAIN got : \E k \in pass :
        x = <<"", "", k[3]>> \/ (x = k /\ k[1] = "descendant")
  <2> SUFFICES ASSUME NEW x \in DOMAIN got
               PROVE  \E k \in pass : x = <<"", "", k[3]>> \/ (x = k /\ k[1] = "descendant")
    OBVIOUS
  <2>1. PICK y \in kept : x = InChild(y)  BY <1>1
  <2>2. PICK k \in pass : y = Short(k) \/ (y = k /\ k[1] = "descendant")
    BY <1>4, <2>1
  <2> QED BY <1>6, <1>7, <2>1, <2>2
<1>9. ASSUME NEW k \in pass
      PROVE  /\ <<"", "", k[3]>> \in DOMAIN got
             /\ got[<<"", "", k[3]>>] = LastSource(Grantors(blob, type, k[3]))
  <2> DEFINE key == <<"", "", k[3]>>
  <2>1. key \in {InChild(j) : j \in kept}  BY <1>5, <1>6
  <2>2. of(key) = {blob[j] : j \in {i \in pass : i[3] = k[3]}}
    <3>1. ASSUME NEW x \in kept, InChild(x) = key
          PROVE  \E j \in pass : j[3] = k[3] /\ from[x] = blob[j]
      <4>1. PICK j \in pass : x = Short(j) \/ (x = j /\ j[1] = "descendant")
        BY <1>4
      <4>2. CASE x = Short(j)
        <5>1. <<"", "", j[3]>> = <<"", "", k[3]>>  BY <1>6, <3>1, <4>2
        <5>2. j[3] = k[3]  BY <5>1
        <5> QED BY <1>5, <4>2, <5>2
      <4>3. CASE x = j /\ j[1] = "descendant"
        <5>1. j = key  BY <1>7, <3>1, <4>3
        <5>2. key[1] = ""  OBVIOUS
        <5> QED BY <4>3, <5>1, <5>2
      <4> QED BY <4>1, <4>2, <4>3
    <3>2. ASSUME NEW j \in pass, j[3] = k[3]
          PROVE  Short(j) \in kept /\ InChild(Short(j)) = key /\ from[Short(j)] = blob[j]
      BY <1>5, <1>6, <3>2
    <3> HIDE DEF key, pass
    <3> QED BY <3>1, <3>2
  <2>3. of(key) = Grantors(blob, type, k[3])  BY <2>2 DEF Grantors
  <2> HIDE DEF of, key, pass
  <2> QED BY <1>1, <2>1, <2>3 DEF key
<1>10. ASSUME NEW k \in pass, k[1] = "descendant"
       PROVE  k \in DOMAIN got /\ got[k] = blob[k]
  <2>1. k \in {InChild(j) : j \in kept}  BY <1>5, <1>7, <1>10
  <2>2. of(k) = {blob[k]}
    <3>1. ASSUME NEW x \in kept, InChild(x) = k PROVE x = k
      <4>1. PICK j \in pass : x = Short(j) \/ (x = j /\ j[1] = "descendant")
        BY <1>4
      <4>2. CASE x = Short(j)
        <5>1. k = <<"", "", j[3]>>  BY <1>6, <3>1, <4>2
        <5>2. k[1] = ""  BY <5>1
        <5> QED BY <1>10, <5>2
      <4>3. CASE x = j /\ j[1] = "descendant"
        BY <1>7, <3>1, <4>3
      <4> QED BY <4>1, <4>2, <4>3
    <3>2. k \in kept /\ InChild(k) = k /\ from[k] = blob[k]  BY <1>5, <1>7, <1>10
    <3> HIDE DEF pass
    <3> QED BY <3>1, <3>2
  <2>3. got[k] = LastSource(of(k))
    <3> HIDE DEF of
    <3> QED BY <1>1, <2>1
  <2>4. k \in DOMAIN got  BY <1>1, <2>1
  <2> HIDE DEF of
  <2> QED BY <2>2, <2>3, <2>4, OnlySource
<1> HIDE DEF pass
<1> QED BY <1>8, <1>9, <1>10 DEF pass, Inherits

\* The keys of a blob that go on to children are those of the roles: only
\* the root's admins hold other ones than the open ones, and whatever grants
\* one permission to descendants, other than the root, is one thread.
Single(blob) ==
  /\ \A k \in DOMAIN blob : Propagates(k) =>
       k \in Handed /\ (k \in OpenToDescendants \/ blob[k] = Root)
  /\ \A k, l \in DOMAIN blob :
       /\ Propagates(k) /\ Propagates(l) /\ k[3] = l[3]
       /\ blob[k] # Root /\ blob[l] # Root
       => blob[k] = blob[l]

\* a blob of a tree of threads
IsTreeBlob(blob) == DOMAIN blob \subseteq Keys /\ Single(blob)

\* Such blobs hand on only the keys of the roles.
LEMMA TreeBlobHandsOn ==
  ASSUME NEW blob, IsTreeBlob(blob)
  PROVE  HandsOn(blob)
BY DEF IsTreeBlob, Single, HandsOn

\* A child inherits such keys as they are.
LEMMA InheritedIsSingle ==
  ASSUME NEW blob, IsTreeBlob(blob), NEW type
  PROVE  Single(Inherited(PermissionsForChildren(blob), type))
<1> DEFINE got == Inherited(PermissionsForChildren(blob), type)
<1>1. got = Inherited(PermissionsForChildren(blob), type)  OBVIOUS
<1> HIDE DEF got
<1>2. Inherits(got, blob, type)  BY <1>1, TreeBlobHandsOn, InheritedIs
<1>3. ASSUME NEW x \in DOMAIN got, Propagates(x)
      PROVE  x \in DOMAIN blob /\ got[x] = blob[x]
  <2>1. PICK k \in Passing(blob, type) :
          x = <<"", "", k[3]>> \/ (x = k /\ k[1] = "descendant")
    BY <1>2 DEF Inherits
  <2>2. x # <<"", "", k[3]>>
    <3>1. <<"", "", k[3]>>[1] = ""  OBVIOUS
    <3> QED BY <1>3, <3>1 DEF Propagates
  <2> QED BY <1>2, <2>1, <2>2 DEF Passing, Inherits
<1>4. Single(got)  BY <1>3 DEF Single, IsTreeBlob
<1> QED BY <1>4 DEF got

\* the open keys are what members of channels and communities grant
LEMMA MembersGrantOpen ==
  ASSUME NEW type, NEW role, role # Admins
  PROVE  \A k \in RolePermissions(type, role) : Propagates(k) =>
           /\ k \in OpenToDescendants
           /\ OpenToDescendants \subseteq RolePermissions(type, role)
<1>1. \A k \in MemberPermissions(type) : Propagates(k) =>
        k \in OpenToDescendants /\ OpenToDescendants \subseteq MemberPermissions(type)
  <2>1. /\ ~Propagates(KnowOf) /\ ~Propagates(<<"", "", "create">>)
        /\ ~Propagates(<<"", "", "edit_permissions">>)
    BY DEF Propagates, KnowOf
  <2> QED BY <2>1, ZenonT(30) DEF MemberPermissions
<1> QED BY <1>1 DEF RolePermissions

\* A role adds its own in place of others.
LEMMA WithRoleIsSingle ==
  ASSUME NEW from, Single(from), NEW type, NEW role, NEW t, role = Admins => t = Root,
         NEW keys, keys \in {{}, RolePermissions(type, role)}
  PROVE  Single(WithRole(from, keys, t))
<1> DEFINE some == [k \in keys |-> t]
           blob == Over(some, from)
<1>1. DOMAIN some = keys /\ \A k \in keys : some[k] = t  OBVIOUS
<1>2. /\ DOMAIN blob = keys \cup DOMAIN from
      /\ \A k \in keys : blob[k] = t
      /\ \A k \in DOMAIN from \ keys : blob[k] = from[k]
  <2> HIDE DEF some
  <2>1. /\ DOMAIN Over(some, from) = DOMAIN some \cup DOMAIN from
        /\ \A x \in DOMAIN some : Over(some, from)[x] = some[x]
        /\ \A x \in DOMAIN from \ DOMAIN some : Over(some, from)[x] = from[x]
    BY OverIs
  <2> QED BY <1>1, <2>1
<1>3. WithRole(from, keys, t) = blob \/ WithRole(from, keys, t) = from
  BY DEF WithRole
<1> HIDE DEF some, blob
<1>4. \A k \in keys : Propagates(k) =>
        /\ k \in Handed /\ (k \in OpenToDescendants \/ t = Root)
        /\ t # Root => OpenToDescendants \subseteq keys
  <2>1. CASE keys = {}  BY <2>1
  <2>2. CASE keys = RolePermissions(type, role) /\ role # Admins
    BY <2>2, MembersGrantOpen DEF Handed
  <2>3. CASE keys = RolePermissions(type, role) /\ role = Admins
    <3>1. keys = AdminPermissions  BY <2>3 DEF RolePermissions, Admins, Members
    <3> QED BY <2>3, <3>1 DEF Handed
  <2> QED BY <2>1, <2>2, <2>3
<1>5. \A k \in DOMAIN blob : Propagates(k) =>
        k \in Handed /\ (k \in OpenToDescendants \/ blob[k] = Root)
  BY <1>2, <1>4 DEF Single
<1>6. ASSUME NEW k \in DOMAIN blob, NEW l \in DOMAIN blob,
             Propagates(k), Propagates(l), k[3] = l[3], blob[k] # Root, blob[l] # Root
      PROVE  blob[k] = blob[l]
  <2>1. CASE k \in keys /\ l \in keys  BY <1>2, <2>1
  <2>2. CASE k \in keys /\ l \notin keys
    <3>1. t # Root /\ OpenToDescendants \subseteq keys  BY <1>2, <1>4, <1>6, <2>2
    <3>2. l \in OpenToDescendants  BY <1>5, <1>6
    <3> QED BY <2>2, <3>1, <3>2
  <2>3. CASE k \notin keys /\ l \in keys
    <3>1. t # Root /\ OpenToDescendants \subseteq keys  BY <1>2, <1>4, <1>6, <2>3
    <3>2. k \in OpenToDescendants  BY <1>5, <1>6
    <3> QED BY <2>3, <3>1, <3>2
  <2>4. CASE k \notin keys /\ l \notin keys
    <3>1. k \in DOMAIN from /\ l \in DOMAIN from /\ blob[k] = from[k] /\ blob[l] = from[l]
      BY <1>2, <2>4
    <3> QED BY <1>6, <3>1 DEF Single
  <2> QED BY <2>1, <2>2, <2>3, <2>4
<1>7. Single(blob)  BY <1>5, <1>6 DEF Single
<1> QED BY <1>3, <1>7

\* the permissions of a new row
LEMMA PermissionsOf ==
  ASSUME NEW t, NEW role, NEW member, NEW from
  PROVE  NewRow(t, role, member, from).permissions
           = WithRole(Inherited(from, thread[t].type),
                      IF member THEN RolePermissions(thread[t].type, role) ELSE {}, t)
<1> DEFINE keys == IF member THEN RolePermissions(thread[t].type, role) ELSE {}
           blob == WithRole(Inherited(from, thread[t].type), keys, t)
           as   == IF member THEN role ELSE Ghost
<1>1. NewRow(t, role, member, from) = RowOf(as, blob)
  BY DEF NewRow, MakePermissionsBlob
<1> HIDE DEF keys, blob, as
<1>2. RowOf(as, blob).permissions = blob  BY DEF RowOf
<1> QED BY <1>1, <1>2 DEF blob, keys

\* So are the rows of a tree.
LEMMA NewRowIsSingle ==
  ASSUME NEW t, NEW role, role = Admins => t = Root, NEW member, NEW from,
         \/ from = NoPermissions
         \/ \E blob : IsTreeBlob(blob) /\ from = PermissionsForChildren(blob)
  PROVE  Single(NewRow(t, role, member, from).permissions)
<1> DEFINE type == thread[t].type
           got == Inherited(from, type)
           keys == IF member THEN RolePermissions(type, role) ELSE {}
<1>1. Single(got)
  <2>1. CASE from = NoPermissions
    <3>1. DOMAIN got = {}  BY <2>1 DEF Inherited, NoPermissions
    <3> QED BY <3>1 DEF Single
  <2>2. CASE from # NoPermissions  BY <2>2, InheritedIsSingle
  <2> QED BY <2>1, <2>2
<1>2. keys \in {{}, RolePermissions(type, role)}  OBVIOUS
<1>3. NewRow(t, role, member, from).permissions = WithRole(got, keys, t)
  BY PermissionsOf
<1> HIDE DEF got, keys, type
<1> QED BY <1>1, <1>2, <1>3, WithRoleIsSingle

\* the blob a is the blob q with what t has granted
Overlaid(t, a, q) ==
  /\ DOMAIN q \subseteq DOMAIN a
  /\ \A k \in DOMAIN a : a[k] = t \/ (k \in DOMAIN q /\ q[k] = a[k])

\* What several keys have become is from the thread t, if one of them was.
LEMMA LastIsLower ==
  ASSUME NEW blob, IsTreeBlob(blob), NEW type, NEW permission, NEW t, t # Root,
         t \in Grantors(blob, type, permission)
  PROVE  LastSource(Grantors(blob, type, permission)) = t
<1> DEFINE S == Grantors(blob, type, permission)
<1>1. ASSUME NEW s \in S, s # Root PROVE s = t
  <2>1. PICK j \in Passing(blob, type) : j[3] = permission /\ s = blob[j]
    BY DEF Grantors
  <2>2. PICK k \in Passing(blob, type) : k[3] = permission /\ t = blob[k]
    BY DEF Grantors
  <2> QED BY <1>1, <2>1, <2>2 DEF Passing, IsTreeBlob, Single
<1>2. t \in S  OBVIOUS
<1> HIDE DEF S
<1>3. S # {Root}  BY <1>2
<1>4. (CHOOSE s \in S : s # Root) = t  BY <1>1, <1>2
<1> QED BY <1>3, <1>4 DEF LastSource, S

\* A child inherits one over the other.
LEMMA OverlaidInherited ==
  ASSUME NEW t, t # Root, NEW a, IsTreeBlob(a), NEW q, IsTreeBlob(q), Overlaid(t, a, q),
         NEW type, NEW ga, ga = Inherited(PermissionsForChildren(a), type),
         NEW gq, gq = Inherited(PermissionsForChildren(q), type)
  PROVE  Overlaid(t, ga, gq)
<1>1. Inherits(ga, a, type) /\ Inherits(gq, q, type)
  BY TreeBlobHandsOn, InheritedIs
<1>2. /\ \A k \in Passing(q, type) : k \in Passing(a, type)
      /\ \A k \in Passing(a, type) :
           a[k] = t \/ (k \in Passing(q, type) /\ q[k] = a[k])
  BY DEF Overlaid, Passing
<1>3. ASSUME NEW x \in DOMAIN gq PROVE x \in DOMAIN ga
  <2>1. PICK k \in Passing(q, type) :
          x = <<"", "", k[3]>> \/ (x = k /\ k[1] = "descendant")
    BY <1>1 DEF Inherits
  <2>2. k \in Passing(a, type)  BY <1>2
  <2> QED BY <1>1, <2>1, <2>2 DEF Inherits
<1>4. ASSUME NEW x \in DOMAIN ga, ga[x] # t
      PROVE  x \in DOMAIN gq /\ gq[x] = ga[x]
  <2>1. PICK k \in Passing(a, type) :
          x = <<"", "", k[3]>> \/ (x = k /\ k[1] = "descendant")
    BY <1>1 DEF Inherits
  <2>2. CASE x = k /\ k[1] = "descendant"
    <3>1. ga[x] = a[k]  BY <1>1, <2>2 DEF Inherits
    <3>2. k \in Passing(q, type) /\ q[k] = a[k]  BY <1>2, <1>4, <3>1
    <3> QED BY <1>1, <2>2, <3>1, <3>2 DEF Inherits
  <2>3. CASE x = <<"", "", k[3]>>
    <3> DEFINE A == Grantors(a, type, k[3])  Q == Grantors(q, type, k[3])
    <3>1. ga[x] = LastSource(A)  BY <1>1, <2>3 DEF Inherits
    <3>2. t \notin A  BY <1>4, <3>1, LastIsLower
    <3>3. \A j \in Passing(a, type) : j[3] = k[3] =>
            j \in Passing(q, type) /\ q[j] = a[j]
      <4>1. \A j \in Passing(a, type) : j[3] = k[3] => a[j] \in A
        BY DEF Grantors
      <4> QED BY <1>2, <3>2, <4>1
    <3>4. A = Q
      <4>1. ASSUME NEW s \in A PROVE s \in Q
        <5>1. PICK j \in Passing(a, type) : j[3] = k[3] /\ s = a[j]
          BY DEF Grantors
        <5>2. j \in Passing(q, type) /\ q[j] = a[j]  BY <3>3, <5>1
        <5> QED BY <5>1, <5>2 DEF Grantors
      <4>2. ASSUME NEW s \in Q PROVE s \in A
        <5>1. PICK j \in Passing(q, type) : j[3] = k[3] /\ s = q[j]
          BY DEF Grantors
        <5>2. j \in Passing(a, type)  BY <1>2
        <5>3. q[j] = a[j]  BY <3>3, <5>1, <5>2
        <5> QED BY <5>1, <5>2, <5>3 DEF Grantors
      <4> HIDE DEF A, Q
      <4> QED BY <4>1, <4>2
    <3>5. k \in Passing(q, type)  BY <3>3
    <3>6. x \in DOMAIN gq /\ gq[x] = LastSource(Q)
      BY <1>1, <2>3, <3>5 DEF Inherits
    <3> HIDE DEF A, Q
    <3> QED BY <3>1, <3>4, <3>6
  <2> QED BY <2>1, <2>2, <2>3
<1> QED BY <1>3, <1>4 DEF Overlaid

\* a blob with a role's permissions
Plus(blob, from, keys, t) ==
  /\ DOMAIN blob = keys \cup DOMAIN from
  /\ \A k \in keys : blob[k] = t
  /\ \A k \in DOMAIN from \ keys : blob[k] = from[k]

\* WithRole adds a role's permissions where its owner knows of the thread.
LEMMA WithRoleIs ==
  ASSUME NEW from, NEW keys, NEW t, NEW blob, blob = WithRole(from, keys, t),
         KnowOf \in keys \/ KnowOf \in DOMAIN from
  PROVE  Plus(blob, from, keys, t)
<1> DEFINE some == [k \in keys |-> t]
<1>1. DOMAIN some = keys /\ \A k \in keys : some[k] = t  OBVIOUS
<1>2. blob = Over(some, from)  BY DEF WithRole
<1> HIDE DEF some
<1>3. /\ DOMAIN Over(some, from) = DOMAIN some \cup DOMAIN from
      /\ \A x \in DOMAIN some : Over(some, from)[x] = some[x]
      /\ \A x \in DOMAIN from \ DOMAIN some : Over(some, from)[x] = from[x]
  BY OverIs
<1> QED BY <1>1, <1>2, <1>3 DEF Plus

\* The same role adds the same to both.
LEMMA OverlaidWithRole ==
  ASSUME NEW t, NEW ga, NEW gq, Overlaid(t, ga, gq), NEW keys, NEW c,
         keys = {} \/ KnowOf \in keys \cup DOMAIN gq,
         NEW a, a = WithRole(ga, keys, c), NEW q, q = WithRole(gq, keys, c)
  PROVE  Overlaid(t, a, q)
<1>1. CASE keys = {}  BY <1>1, WithNone
<1>2. CASE KnowOf \in keys \cup DOMAIN gq
  <2>1. KnowOf \in keys \cup DOMAIN ga  BY <1>2 DEF Overlaid
  <2>2. Plus(a, ga, keys, c)  BY <2>1, WithRoleIs
  <2>3. Plus(q, gq, keys, c)  BY <1>2, WithRoleIs
  <2> QED BY <2>2, <2>3 DEF Overlaid, Plus
<1> QED BY <1>1, <1>2

\* A role in t adds what t grants.
LEMMA OverlaidByRole ==
  ASSUME NEW t, NEW q, NEW keys, NEW a, a = WithRole(q, keys, t)
  PROVE  Overlaid(t, a, q)
<1>1. CASE KnowOf \in keys \cup DOMAIN q
  <2>1. Plus(a, q, keys, t)  BY <1>1, WithRoleIs
  <2> QED BY <2>1 DEF Overlaid, Plus
<1>2. CASE KnowOf \notin keys \cup DOMAIN q
  BY <1>2 DEF WithRole, Overlaid
<1> QED BY <1>1, <1>2

\* a blob is nothing but its entries
IsFunction(f) == f = [x \in DOMAIN f |-> f[x]]

\* The blob of a new row is nothing but its entries.
LEMMA NewRowIsFunction ==
  ASSUME NEW t, NEW role, NEW member, NEW from
  PROVE  IsFunction(NewRow(t, role, member, from).permissions)
<1> DEFINE keys == IF member THEN RolePermissions(thread[t].type, role) ELSE {}
           got == Inherited(from, thread[t].type)
           some == [k \in keys |-> t]
<1>1. NewRow(t, role, member, from).permissions = WithRole(got, keys, t)
  BY PermissionsOf
<1>2. IsFunction(got)  BY DEF Inherited, IsFunction
<1> HIDE DEF keys, got
<1>3. IsFunction(Over(some, got))
  <2>1. CASE some = << >>  BY <1>2, <2>1 DEF Over
  <2>2. CASE some # << >>
    <3> HIDE DEF some
    <3> QED BY <2>2 DEF Over, IsFunction
  <2> QED BY <2>1, <2>2
<1>4. WithRole(got, keys, t) = Over(some, got) \/ WithRole(got, keys, t) = got
  BY DEF WithRole
<1> HIDE DEF some
<1> QED BY <1>1, <1>2, <1>3, <1>4

\* Where t has granted nothing the two are the same.
LEMMA NothingOverlaid ==
  ASSUME NEW t, NEW a, IsFunction(a), NEW q, IsFunction(q), Overlaid(t, a, q),
         \A k \in DOMAIN a : a[k] # t
  PROVE  a = q
<1>1. DOMAIN a = DOMAIN q /\ \A k \in DOMAIN a : a[k] = q[k]
  BY DEF Overlaid
<1>2. a = [k \in DOMAIN a |-> a[k]] /\ q = [k \in DOMAIN q |-> q[k]]
  BY DEF IsFunction
<1>3. [k \in DOMAIN a |-> a[k]] = [k \in DOMAIN q |-> q[k]]
  BY <1>1
<1> QED BY <1>2, <1>3

-----------------------------------------------------------------------------
(* Down the tree.                                                          *)

\* What holds of the root, and of every thread if it holds of its parent and
\* of the thread that contains it, holds of all.
LEMMA DownTheTree ==
  ASSUME Tree, ~misplaced, NEW S, Root \in S,
         \A c \in Created \ {Root} :
           thread[c].parent \in S /\ Container(c) \in S => c \in S
  PROVE  Created \subseteq S
<1> DEFINE D == {d \in 0 .. MaxDepth : \A c \in Created : thread[c].depth <= d => c \in S}
<1>1. \A c \in Created : c \in Threads /\ thread[c].depth \in 0 .. MaxDepth
  BY DEF Created, Tree
<1>2. \A c \in Created \ {Root} :
        \A a \in {thread[c].parent, Container(c)} :
          a \in Created /\ thread[a].depth < thread[c].depth
  BY ParentAbove
<1>3. 0 \in D
  <2>1. \A c \in Created : thread[c].depth <= 0 => c = Root
    <3> SUFFICES ASSUME NEW c \in Created \ {Root} PROVE ~(thread[c].depth <= 0)
      OBVIOUS
    <3>1. thread[c].parent \in Created /\ thread[thread[c].parent].depth < thread[c].depth
      BY <1>2
    <3> QED BY <1>1, <3>1, BoundsAssumption
  <2> QED BY <2>1, BoundsAssumption
<1>4. ASSUME NEW d \in 1 .. MaxDepth, d - 1 \in D PROVE d \in D
  <2>1. ASSUME NEW c \in Created \ {Root}, thread[c].depth <= d PROVE c \in S
    <3>1. ASSUME NEW a \in {thread[c].parent, Container(c)} PROVE a \in S
      <4>1. a \in Created /\ thread[a].depth < thread[c].depth  BY <1>2
      <4>2. thread[a].depth <= d - 1  BY <1>1, <2>1, <4>1, BoundsAssumption
      <4> QED BY <1>4, <4>1, <4>2
    <3> QED BY <3>1
  <2> QED BY <2>1, BoundsAssumption
<1> HIDE DEF D
<1>5. 0 .. MaxDepth \subseteq D  BY <1>3, <1>4, UpTo, BoundsAssumption
<1>6. MaxDepth \in D  BY <1>5, BoundsAssumption
<1> QED BY <1>1, <1>6, BoundsAssumption DEF D

-----------------------------------------------------------------------------
(* Who knows of a thread.                                                  *)

\* Who has a role in a thread is in the one that contains it, and knows of
\* the thread by the role or by what is inherited.
LEMMA MembersKnow ==
  ASSUME NEW t, NEW role \in Roles, NEW member \in BOOLEAN, NEW from,
         NewRow(t, role, member, from).role > 0
  PROVE  /\ member /\ role > 0
         /\ NewRow(t, role, member, from).role = role
         /\ \/ KnowOf \in RolePermissions(thread[t].type, role)
            \/ KnowOf \in DOMAIN Inherited(from, thread[t].type)
<1>1. role > 0 /\ member
  <2>1. ~(NewRow(t, role, member, from).role <= 0)
    BY NewRoleIsRole DEF Roles, Ghost, Visitor, Members, Admins
  <2>2. ~(role <= 0) /\ member  BY <2>1, Outsider
  <2> QED BY <2>2 DEF Roles, Ghost, Visitor, Members, Admins
<1> DEFINE keys == RolePermissions(thread[t].type, role)
           got == Inherited(from, thread[t].type)
           blob == WithRole(got, keys, t)
<1>2. NewRow(t, role, member, from) = RowOf(role, blob)
  BY <1>1 DEF NewRow, MakePermissionsBlob
<1> HIDE DEF blob
<1>3. RowOf(role, blob).role = RoleForPermissions(role, blob)  BY DEF RowOf
<1>4. RoleForPermissions(role, blob) > 0  BY <1>2, <1>3
<1>5. Lookup(blob, "know_of")  BY <1>4 DEF RoleForPermissions, Ghost
<1>6. KnowOf \in DOMAIN blob  BY <1>5 DEF Lookup
<1>7. KnowOf \in keys \/ KnowOf \in DOMAIN got
  BY <1>6 DEF blob, WithRole
<1>8. RoleForPermissions(role, blob) = role
  BY <1>1, <1>5 DEF RoleForPermissions, Roles, Ghost, Visitor, Members, Admins
<1> QED BY <1>1, <1>2, <1>3, <1>7, <1>8

\* knowing of all threads below, as members of channels and admins do
KnowsBelow(blob) == OpenKnow \in DOMAIN blob \/ AllKnow \in DOMAIN blob

\* Members of the containing thread who have a role keep it, and know of all
\* below: from the role, or in a sidebar from one who knows of all below.
LEMMA RoleIsKept ==
  ASSUME NEW t, NEW role \in Roles, role > 0, NEW from,
         \/ thread[t].type # "sidebar"
         \/ \E blob : HandsOn(blob) /\ KnowsBelow(blob)
                      /\ from = PermissionsForChildren(blob)
  PROVE  /\ NewRow(t, role, TRUE, from).role = role
         /\ KnowsBelow(NewRow(t, role, TRUE, from).permissions)
<1> DEFINE type == thread[t].type
           keys == RolePermissions(type, role)
           got == Inherited(from, type)
           blob == WithRole(got, keys, t)
<1>1. NewRow(t, role, TRUE, from) = RowOf(role, blob)
  BY DEF NewRow, MakePermissionsBlob
<1>2. \/ KnowOf \in keys /\ (OpenKnow \in keys \/ AllKnow \in keys)
      \/ KnowOf \in DOMAIN got /\ KnowsBelow(got)
  <2>1. CASE role = Admins
    <3>1. keys = AdminPermissions  BY <2>1 DEF RolePermissions, Members, Admins
    <3> HIDE DEF keys
    <3> QED BY <3>1 DEF AdminPermissions, AllKnow
  <2>2. CASE role # Admins /\ type # "sidebar"
    <3>1. role = Members  BY <2>2 DEF Roles, Ghost, Visitor, Members, Admins
    <3>2. keys = MemberPermissions(type)
      BY <3>1 DEF RolePermissions, Members, Admins
    <3>3. KnowOf \in MemberPermissions(type) /\ OpenToDescendants \subseteq MemberPermissions(type)
      BY <2>2, ZenonT(30) DEF MemberPermissions
    <3>4. OpenKnow \in OpenToDescendants  BY DEF OpenKnow, OpenToDescendants
    <3> HIDE DEF keys
    <3> QED BY <3>2, <3>3, <3>4
  <2>3. CASE type = "sidebar"
    <3>1. PICK b : HandsOn(b) /\ KnowsBelow(b) /\ from = PermissionsForChildren(b)
      BY <2>3
    <3>2. Inherits(got, b, type)
      <4>1. got = Inherited(PermissionsForChildren(b), type)  BY <3>1
      <4> HIDE DEF got, type
      <4> QED BY <3>1, <4>1, InheritedIs
    <3>3. ASSUME NEW k \in {OpenKnow, AllKnow}, k \in DOMAIN b
          PROVE  KnowOf \in DOMAIN got /\ k \in DOMAIN got
      <4>1. k[1] = "descendant" /\ k[3] = "know_of" /\ k[2] \in {"open", ""}
        <5>1. /\ OpenKnow[1] = "descendant" /\ OpenKnow[2] = "open"
              /\ OpenKnow[3] = "know_of"
          BY DEF OpenKnow
        <5>2. /\ AllKnow[1] = "descendant" /\ AllKnow[2] = ""
              /\ AllKnow[3] = "know_of"
          BY DEF AllKnow
        <5> QED BY <5>1, <5>2
      <4>2. k \in Passing(b, type)
        BY <2>3, <3>3, <4>1 DEF Passing, Propagates, Included
      <4>3. <<"", "", k[3]>> = KnowOf  BY <4>1 DEF KnowOf
      <4> HIDE DEF got, type
      <4> QED BY <3>2, <4>1, <4>2, <4>3 DEF Inherits
    <3> HIDE DEF got
    <3> QED BY <3>1, <3>3 DEF KnowsBelow
  <2> QED BY <2>1, <2>2, <2>3
<1>3. Plus(blob, got, keys, t)
  <2>1. blob = WithRole(got, keys, t)  OBVIOUS
  <2> HIDE DEF blob, got, keys
  <2> QED BY <1>2, <2>1, WithRoleIs
<1> HIDE DEF blob, got, keys
<1>4. KnowOf \in DOMAIN blob /\ KnowsBelow(blob)
  BY <1>2, <1>3 DEF Plus, KnowsBelow
<1>5. Lookup(blob, "know_of")  BY <1>4 DEF Lookup, KnowOf
<1>6. RowOf(role, blob).role = RoleForPermissions(role, blob)
      /\ RowOf(role, blob).permissions = blob
  BY DEF RowOf
<1>7. RoleForPermissions(role, blob) = role
  BY <1>5 DEF RoleForPermissions, Roles, Ghost, Visitor, Members, Admins
<1> QED BY <1>1, <1>4, <1>6, <1>7

-----------------------------------------------------------------------------
(* Rows that follow their parents.                                         *)

\* a row of a changeset or of the table
LEMMA AtIsRow ==
  ASSUME Table, NEW R, AreRows(R), NEW c \in Created, NEW u \in Users
  PROVE  IsRow(At(R, c, u), c)
<1>1. c \in Threads  BY DEF Created
<1>2. IsRow(row[c][u], c)  BY <1>1 DEF Table
<1>3. <<c, u>> \in DOMAIN R => IsRow(R[<<c, u>>], c)
  <2>1. <<c, u>>[1] = c  OBVIOUS
  <2> QED BY <2>1 DEF AreRows, IsNewRow
<1> QED BY <1>2, <1>3 DEF At

\* Where there is no row, there is nothing; who has a role has a row.
LEMMA NoRowNothing ==
  ASSUME Table, NEW c \in Created, NEW u \in Users
  PROVE  /\ row[c][u].role \in Roles
         /\ row[c][u].role = Admins => c = Root
         /\ ~HasRows(c) => row[c][u].permissions = NoPermissions /\ row[c][u].role <= 0
<1>1. c \in Threads  BY DEF Created
<1> QED BY <1>1 DEF Table, HasRows, IsRow, Fits, Ghost

\* All rows but those of t follow from what is above them: those of the
\* table, and those of the rows R.
Follows(R, t, u) ==
  \A c \in Created \ {t} :
    IF HasRows(c) THEN Right(NoRows, c, u) /\ Kept(R, c, u)
    ELSE At(R, c, u) = row[c][u]

\* a row with the permissions of some role, or none
Derived(R, c, u) ==
  \/ At(R, c, u).permissions = NoPermissions
  \/ \E role, member :
       /\ role = Admins => c = Root
       /\ At(R, c, u).permissions = NewRow(c, role, member, Grants(R, c, u)).permissions

\* Rows that follow are computed from what is above them.
LEMMA FollowsIsDerived ==
  ASSUME Table, NEW t, NEW u \in Users, NEW R, Follows(R, t, u), NEW c \in Created \ {t}
  PROVE  Derived(R, c, u)
<1>1. /\ row[c][u].role = Admins => c = Root
      /\ ~HasRows(c) => row[c][u].permissions = NoPermissions
  BY NoRowNothing
<1>2. CASE HasRows(c)
  <2>1. Kept(R, c, u)  BY <1>2 DEF Follows
  <2> QED BY <1>1, <2>1 DEF Kept, Unchanged, Derived
<1>3. CASE ~HasRows(c)
  <2>1. At(R, c, u) = row[c][u]  BY <1>3 DEF Follows
  <2> QED BY <1>1, <1>3, <2>1 DEF Derived
<1> QED BY <1>2, <1>3

\* Such blobs are those of a tree.
LEMMA TreeBlobs ==
  ASSUME Tree, ~misplaced, Table, NEW t \in Created, NEW u \in Users, NEW R, AreRows(R),
         Follows(R, t, u), Derived(R, t, u)
  PROVE  \A c \in Created : IsTreeBlob(At(R, c, u).permissions)
<1> DEFINE S == {c \in Created : IsTreeBlob(At(R, c, u).permissions)}
<1>1. \A c \in Created : Derived(R, c, u)  BY FollowsIsDerived
<1>2. \A c \in Created : DOMAIN At(R, c, u).permissions \subseteq Keys
  BY AtIsRow DEF IsRow, IsBlob
<1>3. IsTreeBlob(NoPermissions)
  <2>1. DOMAIN NoPermissions = {}  BY DEF NoPermissions
  <2> QED BY <2>1 DEF IsTreeBlob, Single
<1>4. ASSUME NEW c \in Created,
             \/ Grants(R, c, u) = NoPermissions
             \/ \E blob : IsTreeBlob(blob) /\ Grants(R, c, u) = PermissionsForChildren(blob)
      PROVE  c \in S
  <2>1. CASE At(R, c, u).permissions = NoPermissions  BY <1>3, <2>1
  <2>2. CASE At(R, c, u).permissions # NoPermissions
    <3>1. PICK role, member :
            /\ role = Admins => c = Root
            /\ At(R, c, u).permissions = NewRow(c, role, member, Grants(R, c, u)).permissions
      BY <1>1, <2>2 DEF Derived
    <3> DEFINE from == Grants(R, c, u)
    <3>2. \/ from = NoPermissions
          \/ \E blob : IsTreeBlob(blob) /\ from = PermissionsForChildren(blob)
      BY <1>4
    <3> HIDE DEF from
    <3>3. Single(NewRow(c, role, member, from).permissions)
      BY <3>1, <3>2, NewRowIsSingle
    <3>4. Single(At(R, c, u).permissions)  BY <3>1, <3>3 DEF from
    <3> QED BY <1>2, <3>4 DEF IsTreeBlob
  <2> QED BY <2>1, <2>2
<1>5. Root \in S
  <2>1. Root \in Created /\ Grants(R, Root, u) = NoPermissions  BY DEF Tree, Grants
  <2> QED BY <1>4, <2>1
<1>6. ASSUME NEW c \in Created \ {Root}, thread[c].parent \in S PROVE c \in S
  <2>1. Grants(R, c, u) = PermissionsForChildren(At(R, thread[c].parent, u).permissions)
    BY DEF Grants
  <2>2. IsTreeBlob(At(R, thread[c].parent, u).permissions)  BY <1>6
  <2> QED BY <1>4, <2>1, <2>2
<1> HIDE DEF S
<1>7. Created \subseteq S  BY <1>5, <1>6, DownTheTree
<1> QED BY <1>7 DEF S

\* Where the user has no role in t, the user's roles elsewhere are kept.
KeepsRole(R, c, u) ==
  row[c][u].role > 0 =>
    /\ At(R, c, u).role = row[c][u].role
    /\ Joined(R, c, u)
    /\ KnowsBelow(At(R, c, u).permissions)

\* Down the tree, from the container to what it contains.
LEMMA KeepsRoles ==
  ASSUME Tree, ~misplaced, Table, NEW t \in Created \ {Root}, NEW u \in Users, NEW R,
         Follows(R, t, u), \A c \in Created : IsTreeBlob(At(R, c, u).permissions),
         row[t][u].role <= 0
  PROVE  \A c \in Created \ {t} : KeepsRole(R, c, u)
<1> DEFINE S == {c \in Created : c # t => KeepsRole(R, c, u)}
\* by the table, who has a role in c is in the thread that contains c
<1>1. ASSUME NEW c \in Created \ {t}, row[c][u].role > 0
      PROVE  /\ HasRows(c) /\ InContainer(c, u) /\ Kept(R, c, u)
             /\ row[c][u].role \in Roles
  <2>1. row[c][u].role \in Roles
        /\ (~HasRows(c) => row[c][u].role <= 0)
    BY NoRowNothing
  <2>2. ~(row[c][u].role <= 0)
    BY <1>1, <2>1 DEF Roles, Ghost, Visitor, Members, Admins
  <2>3. HasRows(c)  BY <2>1, <2>2
  <2>4. Right(NoRows, c, u) /\ Kept(R, c, u)  BY <2>3 DEF Follows
  <2> DEFINE role == row[c][u].role  in == InContainer(c, u)  from == FromParent(c, u)
  <2>5. NewRow(c, role, in, from).role = role
    BY <2>4, RightOfTable DEF Unchanged
  <2>6. role \in Roles /\ in \in BOOLEAN /\ role > 0  BY <1>1, <2>1 DEF InContainer
  <2> HIDE DEF role, in, from
  <2>7. in
    <3>1. NewRow(c, role, in, from).role > 0  BY <2>5, <2>6
    <3> QED BY <2>6, <3>1, MembersKnow
  <2> QED BY <2>1, <2>3, <2>4, <2>7 DEF in
\* and keeps it with what the parent grants
<1>2. ASSUME NEW c \in Created \ {t}, row[c][u].role > 0, Joined(R, c, u),
             \/ thread[c].type # "sidebar"
             \/ KnowsBelow(At(R, thread[c].parent, u).permissions)
                /\ c # Root /\ thread[c].parent \in Created
      PROVE  KeepsRole(R, c, u)
  <2> DEFINE role == row[c][u].role  from == Grants(R, c, u)
             blob == At(R, thread[c].parent, u).permissions
             new == NewRow(c, role, TRUE, from)
  <2>1. role \in Roles /\ role > 0 /\ Kept(R, c, u)  BY <1>1, <1>2
  <2>2. Joined(R, c, u) = TRUE  BY <1>2 DEF Joined
  <2>3. Unchanged(At(R, c, u), new)  BY <2>1, <2>2 DEF Kept
  <2>4. \/ thread[c].type # "sidebar"
        \/ \E b : HandsOn(b) /\ KnowsBelow(b) /\ from = PermissionsForChildren(b)
    <3>1. CASE thread[c].type = "sidebar"
      <4>1. HandsOn(blob)  BY <1>2, <3>1, TreeBlobHandsOn
      <4>2. KnowsBelow(blob)  BY <1>2, <3>1
      <4>3. from = PermissionsForChildren(blob)  BY <1>2, <3>1 DEF Grants
      <4> HIDE DEF blob, from
      <4> QED BY <4>1, <4>2, <4>3
    <3> QED BY <3>1
  <2> HIDE DEF role, from
  <2>5. new.role = role /\ KnowsBelow(new.permissions)
    BY <2>1, <2>4, RoleIsKept
  <2> HIDE DEF new
  <2> QED BY <1>2, <2>3, <2>5 DEF KeepsRole, Unchanged, role
<1>3. Root \in S
  <2>1. Root \in Created \ {t} /\ thread[Root].type # "sidebar" /\ Joined(R, Root, u)
    BY DEF Tree, Joined
  <2>2. KeepsRole(R, Root, u)
    <3>1. CASE row[Root][u].role > 0  BY <1>2, <2>1, <3>1
    <3> QED BY <3>1 DEF KeepsRole
  <2> QED BY <2>1, <2>2
<1>4. ASSUME NEW c \in Created \ {Root}, thread[c].parent \in S, Container(c) \in S
      PROVE  c \in S
  <2> SUFFICES ASSUME c # t, row[c][u].role > 0 PROVE KeepsRole(R, c, u)
    BY DEF KeepsRole
  <2> DEFINE k == Container(c)
  <2>1. InContainer(c, u)  BY <1>1
  <2>2. row[k][u].role > 0  BY <1>4, <2>1 DEF InContainer
  <2>3. k \in Created  BY <1>4
  <2>4. k # t
    <3>1. row[k][u].role \in Roles  BY <2>3, NoRowNothing
    <3>2. ~(row[k][u].role <= 0)
      BY <2>2, <3>1 DEF Roles, Ghost, Visitor, Members, Admins
    <3> QED BY <3>2
  <2>5. KeepsRole(R, k, u)  BY <1>4, <2>4
  <2>6. Joined(R, c, u)  BY <1>4, <2>2, <2>5 DEF Joined, KeepsRole
  <2>7. \/ thread[c].type # "sidebar"
        \/ KnowsBelow(At(R, thread[c].parent, u).permissions)
           /\ c # Root /\ thread[c].parent \in Created
    <3>1. CASE thread[c].type = "sidebar"
      <4>1. k = thread[c].parent  BY <3>1 DEF Container
      <4>2. KnowsBelow(At(R, k, u).permissions)  BY <2>2, <2>5 DEF KeepsRole
      <4> QED BY <1>4, <2>3, <4>1, <4>2
    <3> QED BY <3>1
  <2> HIDE DEF k
  <2> QED BY <1>2, <2>6, <2>7
<1> HIDE DEF S
<1>5. Created \subseteq S  BY <1>3, <1>4, DownTheTree
<1> QED BY <1>5 DEF S

-----------------------------------------------------------------------------
(* Two changesets of one thread.                                           *)

\* A: the user becomes a member of t; Q: t is recalculated, where the user
\* has no role.
Rivals(A, Q, t, u) ==
  /\ t \in Created \ {Root} /\ row[t][u].role <= 0
  /\ AreRows(A) /\ Follows(A, t, u) /\ Grants(A, t, u) = FromParent(t, u)
  /\ \E m \in BOOLEAN : At(A, t, u) = NewRow(t, Members, m, FromParent(t, u))
  /\ AreRows(Q) /\ Follows(Q, t, u) /\ Grants(Q, t, u) = FromParent(t, u)
  /\ Kept(Q, t, u)

\* One who has no role in a thread has there what is inherited.
LEMMA RivalsBlobs ==
  ASSUME Tree, ~misplaced, Table, NEW t, NEW u \in Users, NEW A, NEW Q, Rivals(A, Q, t, u)
  PROVE  /\ \A c \in Created : /\ IsTreeBlob(At(A, c, u).permissions)
                               /\ IsTreeBlob(At(Q, c, u).permissions)
         /\ \A c \in Created \ {t} : KeepsRole(A, c, u) /\ KeepsRole(Q, c, u)
<1>1. t \in Created \ {Root} /\ row[t][u].role <= 0  BY DEF Rivals
<1>2. Derived(A, t, u)
  <2>1. Members # Admins  BY DEF Members, Admins
  <2> QED BY <2>1 DEF Rivals, Derived
<1>3. Derived(Q, t, u)
  <2>1. row[t][u].role = Admins => t = Root  BY <1>1, NoRowNothing
  <2>2. Kept(Q, t, u)  BY DEF Rivals
  <2> QED BY <2>1, <2>2 DEF Kept, Unchanged, Derived
<1>4. AreRows(A) /\ Follows(A, t, u) /\ AreRows(Q) /\ Follows(Q, t, u)  BY DEF Rivals
<1>5. \A c \in Created : IsTreeBlob(At(A, c, u).permissions)
  BY <1>1, <1>2, <1>4, TreeBlobs
<1>6. \A c \in Created : IsTreeBlob(At(Q, c, u).permissions)
  BY <1>1, <1>3, <1>4, TreeBlobs
<1>7. \A c \in Created \ {t} : KeepsRole(A, c, u)  BY <1>1, <1>4, <1>5, KeepsRoles
<1>8. \A c \in Created \ {t} : KeepsRole(Q, c, u)  BY <1>1, <1>4, <1>6, KeepsRoles
<1> QED BY <1>5, <1>6, <1>7, <1>8

\* All that membership of t adds is granted by t.
LEMMA RivalsOverlay ==
  ASSUME Tree, ~misplaced, Table, NEW t, NEW u \in Users, NEW A, NEW Q, Rivals(A, Q, t, u)
  PROVE  \A c \in Created : Overlaid(t, At(A, c, u).permissions, At(Q, c, u).permissions)
<1> DEFINE S == {c \in Created : Overlaid(t, At(A, c, u).permissions, At(Q, c, u).permissions)}
<1>1. /\ \A c \in Created : /\ IsTreeBlob(At(A, c, u).permissions)
                            /\ IsTreeBlob(At(Q, c, u).permissions)
      /\ \A c \in Created \ {t} : KeepsRole(A, c, u) /\ KeepsRole(Q, c, u)
  BY RivalsBlobs
<1>2. /\ t \in Created \ {Root} /\ row[t][u].role <= 0
      /\ Follows(A, t, u) /\ Follows(Q, t, u)
  BY DEF Rivals
<1>3. \A b : Overlaid(t, b, b)  BY DEF Overlaid
<1>4. ASSUME NEW c \in Created \ {t}, ~HasRows(c) PROVE c \in S
  <2>1. At(A, c, u) = row[c][u] /\ At(Q, c, u) = row[c][u]
    BY <1>2, <1>4 DEF Follows
  <2> QED BY <1>3, <2>1
<1>5. ASSUME NEW c \in Created \ {t}, HasRows(c)
      PROVE  Kept(A, c, u) /\ Kept(Q, c, u)
  BY <1>2, <1>5 DEF Follows
<1>6. Root \in S
  <2>1. Root \in Created \ {t}  BY <1>2 DEF Tree
  <2>2. CASE HasRows(Root)
    <3>1. Kept(A, Root, u) /\ Kept(Q, Root, u)  BY <1>5, <2>1, <2>2
    <3>2. /\ Joined(A, Root, u) = TRUE /\ Joined(Q, Root, u) = TRUE
          /\ Grants(A, Root, u) = NoPermissions /\ Grants(Q, Root, u) = NoPermissions
      BY DEF Joined, Grants
    <3>3. At(A, Root, u).permissions = At(Q, Root, u).permissions
      BY <3>1, <3>2 DEF Kept, Unchanged
    <3> QED BY <1>3, <2>1, <3>3
  <2> QED BY <1>4, <2>1, <2>2
<1>7. t \in S
  <2> DEFINE from == FromParent(t, u)
             got == Inherited(from, thread[t].type)
             a == At(A, t, u).permissions
             q == At(Q, t, u).permissions
  <2>1. PICK m \in BOOLEAN : At(A, t, u) = NewRow(t, Members, m, from)
    BY DEF Rivals
  <2> DEFINE keys == IF m THEN RolePermissions(thread[t].type, Members) ELSE {}
  <2>2. a = WithRole(got, keys, t)  BY <2>1, PermissionsOf
  <2>3. q = got
    <3> DEFINE joined == Joined(Q, t, u)  role == row[t][u].role
               none == IF joined THEN RolePermissions(thread[t].type, role) ELSE {}
    <3>1. Kept(Q, t, u) /\ Grants(Q, t, u) = from  BY DEF Rivals
    <3>2. q = NewRow(t, role, joined, from).permissions  BY <3>1 DEF Kept, Unchanged
    <3>3. none = {}
      BY <1>2 DEF RolePermissions, Members, Admins
    <3>4. NewRow(t, role, joined, from).permissions = WithRole(got, none, t)
      BY PermissionsOf
    <3> HIDE DEF none, joined, role, q, got, from
    <3> QED BY <3>2, <3>3, <3>4, WithNone
  <2> HIDE DEF a, q, got, keys
  <2>4. a = WithRole(q, keys, t)  BY <2>2, <2>3
  <2>5. Overlaid(t, a, q)  BY <2>4, OverlaidByRole
  <2> QED BY <1>2, <2>5 DEF a, q
<1>8. ASSUME NEW c \in Created \ {Root}, thread[c].parent \in S PROVE c \in S
  <2> SUFFICES ASSUME c # t, HasRows(c) PROVE c \in S
    BY <1>4, <1>7
  <2> DEFINE p == thread[c].parent  role == row[c][u].role  type == thread[c].type
             pa == At(A, p, u).permissions  pq == At(Q, p, u).permissions
             ga == Inherited(PermissionsForChildren(pa), type)
             gq == Inherited(PermissionsForChildren(pq), type)
             keys == IF role > 0 THEN RolePermissions(type, role) ELSE {}
             a == At(A, c, u).permissions  q == At(Q, c, u).permissions
  <2>1. Overlaid(t, pa, pq) /\ IsTreeBlob(pa) /\ IsTreeBlob(pq)  BY <1>1, <1>8
  <2>2. Overlaid(t, ga, gq)
    <3>1. ga = Inherited(PermissionsForChildren(pa), type)
          /\ gq = Inherited(PermissionsForChildren(pq), type)
      OBVIOUS
    <3> HIDE DEF ga, gq, pa, pq, type
    <3> QED BY <1>2, <2>1, <3>1, OverlaidInherited
  <2>3. Kept(A, c, u) /\ Kept(Q, c, u)  BY <1>5
  <2>4. KeepsRole(A, c, u) /\ KeepsRole(Q, c, u)  BY <1>1
  <2>5. role \in Roles  BY NoRowNothing
  <2>6. Grants(A, c, u) = PermissionsForChildren(pa) /\ Grants(Q, c, u) = PermissionsForChildren(pq)
    BY DEF Grants
  <2>7. ASSUME NEW m, role > 0 => m
        PROVE  (IF m THEN RolePermissions(type, role) ELSE {}) = keys
    <3>1. CASE role > 0  BY <2>7, <3>1
    <3>2. CASE ~(role > 0)
      <4>1. role # Members /\ role # Admins  BY <3>2 DEF Members, Admins
      <4>2. RolePermissions(type, role) = {}  BY <4>1 DEF RolePermissions
      <4> QED BY <3>2, <4>2
    <3> QED BY <3>1, <3>2
  <2>8. a = WithRole(ga, keys, c)
    <3> DEFINE m == Joined(A, c, u)
               some == IF m THEN RolePermissions(type, role) ELSE {}
    <3>1. a = NewRow(c, role, m, PermissionsForChildren(pa)).permissions
      BY <2>3, <2>6 DEF Kept, Unchanged
    <3>2. some = keys  BY <2>4, <2>7 DEF KeepsRole
    <3>3. NewRow(c, role, m, PermissionsForChildren(pa)).permissions = WithRole(ga, some, c)
      BY PermissionsOf
    <3> HIDE DEF some, keys, m, ga, pa, role, a
    <3> QED BY <3>1, <3>2, <3>3
  <2>9. q = WithRole(gq, keys, c)
    <3> DEFINE m == Joined(Q, c, u)
               some == IF m THEN RolePermissions(type, role) ELSE {}
    <3>1. q = NewRow(c, role, m, PermissionsForChildren(pq)).permissions
      BY <2>3, <2>6 DEF Kept, Unchanged
    <3>2. some = keys  BY <2>4, <2>7 DEF KeepsRole
    <3>3. NewRow(c, role, m, PermissionsForChildren(pq)).permissions = WithRole(gq, some, c)
      BY PermissionsOf
    <3> HIDE DEF some, keys, m, gq, pq, role, q
    <3> QED BY <3>1, <3>2, <3>3
  <2>10. keys = {} \/ KnowOf \in keys \cup DOMAIN gq
    <3>1. CASE role > 0
      <4> DEFINE from == PermissionsForChildren(pq)  yes == Joined(Q, c, u)
      <4>1. yes = TRUE /\ At(Q, c, u).role = role
        BY <2>4, <3>1 DEF KeepsRole, Joined
      <4>2. NewRow(c, role, yes, from).role = role
        BY <2>3, <2>6, <4>1 DEF Kept, Unchanged
      <4>3. KnowOf \in RolePermissions(type, role) \/ KnowOf \in DOMAIN Inherited(from, type)
        <5>1. yes \in BOOLEAN  BY <4>1
        <5> HIDE DEF yes, from, role
        <5>2. NewRow(c, role, yes, from).role > 0  BY <3>1, <4>2
        <5> QED BY <2>5, <5>1, <5>2, MembersKnow
      <4> QED BY <3>1, <4>3
    <3>2. CASE ~(role > 0)  BY <3>2
    <3> QED BY <3>1, <3>2
  <2> HIDE DEF ga, gq, keys, a, q
  <2>11. Overlaid(t, a, q)  BY <2>2, <2>8, <2>9, <2>10, OverlaidWithRole
  <2> QED BY <2>11 DEF a, q
<1> HIDE DEF S
<1>9. Created \subseteq S  BY <1>6, <1>8, DownTheTree
<1> QED BY <1>9 DEF S

\* t has granted the user nothing in the table
NoSource(t, u) ==
  \A c \in Created : \A k \in DOMAIN row[c][u].permissions :
    row[c][u].permissions[k] # t

\* Then a row that membership of t leaves alone is one the recalculation of
\* t leaves alone.
LEMMA RivalsAgree ==
  ASSUME Tree, ~misplaced, Table, NEW t, NEW u \in Users, NEW A, NEW Q, Rivals(A, Q, t, u),
         NoSource(t, u), NEW c \in Created \ {t}, <<c, u>> \notin DOMAIN A
  PROVE  Unchanged(At(A, c, u), At(Q, c, u))
<1>1. At(A, c, u) = row[c][u]  BY DEF At
<1>2. Follows(Q, t, u)  BY DEF Rivals
<1>3. CASE ~HasRows(c)
  BY <1>1, <1>2, <1>3 DEF Follows, Unchanged
<1>4. CASE HasRows(c)
  <2> DEFINE a == row[c][u].permissions  q == At(Q, c, u).permissions
             role == row[c][u].role
             inA == InContainer(c, u)  inQ == Joined(Q, c, u)
             fromA == FromParent(c, u)  fromQ == Grants(Q, c, u)
             newA == NewRow(c, role, inA, fromA)
             newQ == NewRow(c, role, inQ, fromQ)
  <2>1. Right(NoRows, c, u) /\ Kept(Q, c, u)  BY <1>2, <1>4 DEF Follows
  <2>2. Unchanged(row[c][u], newA)  BY <2>1, RightOfTable
  <2>3. Unchanged(At(Q, c, u), newQ)  BY <2>1 DEF Kept
  <2>4. a = q
    <3>1. IsFunction(a)  BY <2>2, NewRowIsFunction DEF Unchanged
    <3>2. IsFunction(q)  BY <2>3, NewRowIsFunction DEF Unchanged
    <3>3. Overlaid(t, a, q)  BY <1>1, RivalsOverlay
    <3>4. \A k \in DOMAIN a : a[k] # t  BY DEF NoSource
    <3> HIDE DEF a, q
    <3> QED BY <3>1, <3>2, <3>3, <3>4, NothingOverlaid
  <2>5. role \in Roles /\ inA \in BOOLEAN /\ inQ \in BOOLEAN
    BY NoRowNothing DEF InContainer, Joined
  <2>6. At(Q, c, u).role = role
    <3>1. CASE role > 0
      <4>1. KeepsRole(Q, c, u)  BY RivalsBlobs
      <4> QED BY <3>1, <4>1 DEF KeepsRole
    <3>2. CASE ~(role > 0)
      <4>1. role <= 0  BY <2>5, <3>2 DEF Roles, Ghost, Visitor, Members, Admins
      <4> DEFINE blobA == MakePermissionsBlob({}, fromA, c)
                 blobQ == MakePermissionsBlob({}, fromQ, c)
      <4>2. newA = RowOf(Ghost, blobA)
        <5> HIDE DEF role, inA, fromA
        <5> QED BY <2>5, <4>1, Outsider
      <4>3. newQ = RowOf(Ghost, blobQ)
        <5> HIDE DEF role, inQ, fromQ
        <5> QED BY <2>5, <4>1, Outsider
      <4>4. newA.permissions = blobA /\ newA.role = RoleForPermissions(Ghost, blobA)
        BY <4>2 DEF RowOf
      <4>5. newQ.permissions = blobQ /\ newQ.role = RoleForPermissions(Ghost, blobQ)
        BY <4>3 DEF RowOf
      <4> HIDE DEF newA, newQ, blobA, blobQ
      <4>6. blobA = blobQ  BY <2>2, <2>3, <2>4, <4>4, <4>5 DEF Unchanged
      <4> QED BY <2>2, <2>3, <4>4, <4>5, <4>6 DEF Unchanged
    <3> QED BY <3>1, <3>2
  <2> QED BY <1>1, <2>4, <2>6 DEF Unchanged
<1> QED BY <1>3, <1>4

-----------------------------------------------------------------------------
(* Who grants.                                                             *)

\* nothing in a blob was granted by t
Without(blob, t) == \A k \in DOMAIN blob : blob[k] # t

\* A blob that t is no source of hands on nothing from t.
LEMMA InheritedWithout ==
  ASSUME NEW t, NEW blob, Without(blob, t), NEW type
  PROVE  Without(Inherited(PermissionsForChildren(blob), type), t)
<1> DEFINE keys  == {k \in DOMAIN blob : Propagates(k)}
           short == {<<"", k[2], k[3]>> : k \in keys}
           pick(c) == CHOOSE k \in keys : <<"", k[2], k[3]>> = c
           plain == [c \in short |-> blob[pick(c)]]
           long  == {j \in keys : j[1] = "descendant"}
           deep  == [k \in long |-> blob[k]]
           from  == PermissionsForChildren(blob)
           kept == {k \in DOMAIN from : Included(k, type)}
           of(key) == {from[k] : k \in {j \in kept : InChild(j) = key}}
<1>1. from = Over(deep, plain)
  BY DEF PermissionsForChildren
<1>2. Without(deep, t)  BY DEF Without
<1>3. Without(plain, t)
  <2> SUFFICES ASSUME NEW c \in short PROVE blob[pick(c)] # t
    BY DEF Without
  <2>1. pick(c) \in keys  OBVIOUS
  <2> HIDE DEF pick
  <2> QED BY <2>1 DEF Without
<1> HIDE DEF deep, plain
<1>4. Without(from, t)  BY <1>1, <1>2, <1>3, OverKeeps DEF Without
<1>5. Inherited(from, type) = [key \in {InChild(k) : k \in kept} |-> LastSource(of(key))]
  BY DEF Inherited
<1> HIDE DEF from
<1>6. ASSUME NEW s, s # {}, t \notin s PROVE LastSource(s) # t
  <2>1. s # {Root} => \E x \in s : x # Root  BY <1>6
  <2>2. LastSource(s) \in s  BY <1>6, <2>1 DEF LastSource
  <2> QED BY <1>6, <2>2
<1>7. ASSUME NEW k \in kept PROVE LastSource(of(InChild(k))) # t
  <2>1. from[k] \in of(InChild(k))  OBVIOUS
  <2>2. t \notin of(InChild(k))  BY <1>4 DEF Without
  <2> HIDE DEF of
  <2> QED BY <1>6, <2>1, <2>2
<1> DEFINE got == Inherited(from, type)
           D == {InChild(k) : k \in kept}
<1>8. got = [key \in D |-> LastSource(of(key))]  BY <1>5
<1>9. \A key \in D : LastSource(of(key)) # t
  <2> HIDE DEF of, kept
  <2> QED BY <1>7
<1> HIDE DEF of, D, got
<1>10. Without(got, t)  BY <1>8, <1>9 DEF Without
<1> QED BY <1>10 DEF got, from

\* a row of one without a role in t has nothing from t, unless its parent has
LEMMA NewRowWithout ==
  ASSUME NEW t, NEW c, NEW role \in Roles, c = t => role <= 0, NEW member, NEW from,
         Without(Inherited(from, thread[c].type), t)
  PROVE  Without(NewRow(c, role, member, from).permissions, t)
<1> DEFINE keys == IF member THEN RolePermissions(thread[c].type, role) ELSE {}
           got == Inherited(from, thread[c].type)
           some == [k \in keys |-> c]
<1>1. NewRow(c, role, member, from).permissions = WithRole(got, keys, c)
  BY PermissionsOf
<1>2. c = t => keys = {}
  BY DEF RolePermissions, Members, Admins
<1>3. Without(some, t)  BY <1>2 DEF Without
<1>4. WithRole(got, keys, c) = Over(some, got) \/ WithRole(got, keys, c) = got
  BY DEF WithRole
<1>5. Without(got, t)  OBVIOUS
<1> HIDE DEF some, got, keys
<1>6. Without(Over(some, got), t)  BY <1>3, <1>5, OverKeeps DEF Without
<1> QED BY <1>1, <1>4, <1>5, <1>6

\* Where all rows are right, one without a role in a thread has nothing that
\* the thread has granted.
LEMMA RightHasNoSource ==
  ASSUME Tree, ~misplaced, Table, NEW t \in Created \ {Root}, NEW u \in Users, row[t][u].role <= 0,
         \A c \in Created : HasRows(c) => Settled(c, u)
  PROVE  NoSource(t, u)
<1> DEFINE S == {c \in Created : Without(row[c][u].permissions, t)}
<1>1. ASSUME NEW c \in Created, Without(Inherited(FromParent(c, u), thread[c].type), t)
      PROVE  c \in S
  <2>1. /\ row[c][u].role \in Roles
        /\ ~HasRows(c) => row[c][u].permissions = NoPermissions
    BY NoRowNothing
  <2>2. CASE HasRows(c)
    <3> DEFINE role == row[c][u].role  in == InContainer(c, u)  from == FromParent(c, u)
    <3>1. row[c][u].permissions = NewRow(c, role, in, from).permissions
      BY <2>2 DEF Settled, Unchanged
    <3>2. role \in Roles /\ (c = t => role <= 0)  BY <2>1
    <3>3. Without(Inherited(from, thread[c].type), t)  BY <1>1
    <3> HIDE DEF role, in, from
    <3>4. Without(NewRow(c, role, in, from).permissions, t)
      BY <3>2, <3>3, NewRowWithout
    <3> QED BY <3>1, <3>4
  <2>3. CASE ~HasRows(c)
    <3>1. DOMAIN NoPermissions = {}  BY DEF NoPermissions
    <3> QED BY <2>1, <2>3, <3>1 DEF Without
  <2> QED BY <2>2, <2>3
<1>2. Root \in S
  <2>1. FromParent(Root, u) = NoPermissions /\ Root \in Created  BY DEF FromParent, Tree
  <2>2. Inherited(NoPermissions, thread[Root].type) = NoPermissions
    BY DEF Inherited, NoPermissions
  <2>3. Without(NoPermissions, t)
    <3>1. DOMAIN NoPermissions = {}  BY DEF NoPermissions
    <3> QED BY <3>1 DEF Without
  <2> QED BY <1>1, <2>1, <2>2, <2>3
<1>3. ASSUME NEW c \in Created \ {Root}, thread[c].parent \in S PROVE c \in S
  <2>1. FromParent(c, u) = PermissionsForChildren(row[thread[c].parent][u].permissions)
    BY DEF FromParent
  <2>2. Without(row[thread[c].parent][u].permissions, t)  BY <1>3
  <2> QED BY <1>1, <2>1, <2>2, InheritedWithout
<1> HIDE DEF S
<1>4. Created \subseteq S  BY <1>2, <1>3, DownTheTree
<1> QED BY <1>4 DEF S, Without, NoSource

-----------------------------------------------------------------------------
(* Changesets that agree.                                                  *)

\* the rows of u are the same with the rows R as with the rows X
Agree(R, X, u) == \A c \in Created : Unchanged(At(R, c, u), At(X, c, u))

\* A row is right with one as it is with the other.
LEMMA AgreeRight ==
  ASSUME Tree, ~misplaced, NEW R, NEW X, NEW u, Agree(R, X, u), NEW c \in Created, Right(X, c, u)
  PROVE  Right(R, c, u)
<1>1. c # Root => thread[c].parent \in Created /\ Container(c) \in Created
  BY ParentAbove
<1>2. Grants(R, c, u) = Grants(X, c, u) /\ Joined(R, c, u) = Joined(X, c, u)
  BY <1>1 DEF Agree, Unchanged, Grants, Joined
<1>3. Unchanged(At(R, c, u), At(X, c, u))  BY DEF Agree
<1> QED BY <1>2, <1>3 DEF Right, Unchanged

\* Where nothing hangs below t, all rows but those of t stay the same.
LEMMA NothingBelow ==
  ASSUME Tree, ~misplaced, Table, NEW t \in Created \ {Root}, Below(t) = {}, NEW u \in Users, NEW X,
         Follows(X, t, u)
  PROVE  \A c \in Created \ {t} : Unchanged(At(X, c, u), row[c][u])
<1> DEFINE S == {c \in Created : c # t => Unchanged(At(X, c, u), row[c][u])}
<1>1. ASSUME NEW c \in Created \ {t}, Grants(X, c, u) = FromParent(c, u),
             Joined(X, c, u) = InContainer(c, u)
      PROVE  Unchanged(At(X, c, u), row[c][u])
  <2>1. CASE HasRows(c)
    <3>1. Right(NoRows, c, u) /\ Kept(X, c, u)  BY <2>1 DEF Follows
    <3>2. Unchanged(row[c][u], NewRow(c, row[c][u].role, InContainer(c, u), FromParent(c, u)))
      BY <3>1, RightOfTable
    <3> QED BY <1>1, <3>1, <3>2 DEF Kept, Unchanged
  <2>2. CASE ~HasRows(c)  BY <2>2 DEF Follows, Unchanged
  <2> QED BY <2>1, <2>2
<1>2. Root \in S
  <2>1. Grants(X, Root, u) = FromParent(Root, u) /\ Joined(X, Root, u) = InContainer(Root, u)
    BY DEF Grants, FromParent, Joined, InContainer
  <2> QED BY <1>1, <2>1 DEF Tree
<1>3. ASSUME NEW c \in Created \ {Root}, thread[c].parent \in S, Container(c) \in S
      PROVE  c \in S
  <2>1. thread[c].parent # t /\ Container(c) # t  BY DEF Below
  <2>2. Unchanged(At(X, thread[c].parent, u), row[thread[c].parent][u])
        /\ Unchanged(At(X, Container(c), u), row[Container(c)][u])
    BY <1>3, <2>1
  <2>3. Grants(X, c, u) = FromParent(c, u) /\ Joined(X, c, u) = InContainer(c, u)
    BY <2>2 DEF Unchanged, Grants, FromParent, Joined, InContainer
  <2> QED BY <1>1, <2>3
<1> HIDE DEF S
<1>4. Created \subseteq S  BY <1>2, <1>3, DownTheTree
<1> QED BY <1>4 DEF S

-----------------------------------------------------------------------------
(* Plans.                                                                  *)

\* the rows X of a changeset by which users are added to t, or of none
Adds(X, t, u) ==
  /\ Follows(X, t, u)
  /\ Grants(X, t, u) = FromParent(t, u)
  /\ Right(NoRows, t, u) => Right(X, t, u)
  /\ <<t, u>> \in DOMAIN X =>
       /\ Right(X, t, u)
       /\ \E m \in BOOLEAN : At(X, t, u) = NewRow(t, Members, m, FromParent(t, u))
  /\ <<t, u>> \notin DOMAIN X => \A c \in Created : <<c, u>> \notin DOMAIN X

\* all rows but those of t are right
RightBut(t) ==
  \A c \in Created \ {t} : HasRows(c) => \A u \in Users : Right(NoRows, c, u)

\* rows of t and of threads that have rows
Reaches(X, t) ==
  AreRows(X) /\ \A x \in DOMAIN X : x[1] = t \/ HasRows(x[1])

\* Nobody is added where there is nobody to add.
LEMMA NoneAdd ==
  ASSUME Table, NEW t \in Created, RightBut(t), NEW X, DOMAIN X = {}
  PROVE  Reaches(X, t) /\ \A u \in Users : Adds(X, t, u)
<1>1. Reaches(X, t)  BY DEF Reaches, AreRows
<1>2. ASSUME NEW u \in Users PROVE Adds(X, t, u)
  <2>1. \A c : /\ At(X, c, u) = row[c][u] /\ Grants(X, c, u) = FromParent(c, u)
               /\ Joined(X, c, u) = InContainer(c, u)
    BY TableSays
  <2>2. \A c : Right(NoRows, c, u) => Right(X, c, u) /\ Kept(X, c, u)
    BY <2>1, RightOfTable DEF Right, Kept
  <2>3. Follows(X, t, u)  BY <2>1, <2>2 DEF Follows, RightBut
  <2> QED BY <2>1, <2>2, <2>3 DEF Adds
<1> QED BY <1>1, <1>2

\* changeRole adds members.
LEMMA ChangeRoleAdds ==
  ASSUME Tree, ~misplaced, Table, NEW t \in Created, RightBut(t), NEW users \in SUBSET Users,
         NEW onlyNew \in BOOLEAN, NEW X, X = Rows(ChangeRole(t, users, Members, onlyNew))
  PROVE  /\ Reaches(X, t) /\ \A u \in Users : Adds(X, t, u)
         /\ onlyNew => Newcomers(X, t)
<1> DEFINE changeset == ChangeRole(t, users, Members, onlyNew)
           role == Members
<1>1. role \in Roles /\ role # Admins  BY DEF Roles, Members, Admins
<1>2. changeset = ChangeRole(t, users, role, onlyNew) /\ X = Rows(changeset)  OBVIOUS
<1> HIDE DEF changeset, role
<1>3. AreRows(X)
  <2>1. IsChangeset(changeset)  BY <1>1, <1>2, ChangeRoleIsChangeset
  <2> QED BY <1>2, <2>1, RowsAreRows
<1>4. ChangesRole(X, t, users, role) /\ (onlyNew => Newcomers(X, t))
  BY <1>1, <1>2, ChangeRoleIsEnough
<1>5. Reaches(X, t)  BY <1>3, <1>4 DEF Reaches, ChangesRole
<1>6. ASSUME NEW u \in Users PROVE Adds(X, t, u)
  <2>1. Follows(X, t, u)
    <3> SUFFICES ASSUME NEW c \in Created \ {t}
                 PROVE  IF HasRows(c) THEN Right(NoRows, c, u) /\ Kept(X, c, u)
                        ELSE At(X, c, u) = row[c][u]
      BY DEF Follows
    <3>1. CASE HasRows(c)  BY <1>4, <3>1 DEF RightBut, ChangesRole
    <3>2. CASE ~HasRows(c)
      <4>1. <<c, u>>[1] = c  OBVIOUS
      <4>2. <<c, u>> \notin DOMAIN X  BY <1>5, <3>2, <4>1 DEF Reaches
      <4> QED BY <3>2, <4>2 DEF At
    <3> QED BY <3>1, <3>2
  <2>2. ASSUME <<t, u>> \in DOMAIN X
        PROVE  /\ Right(X, t, u)
               /\ \E m \in BOOLEAN : At(X, t, u) = NewRow(t, Members, m, FromParent(t, u))
    <3> DEFINE m == IF role > 0 THEN InContainer(t, u) ELSE t = Root
    <3>1. m \in BOOLEAN  BY DEF InContainer
    <3>2. Right(X, t, u) /\ X[<<t, u>>] = NewRow(t, role, m, FromParent(t, u))
      BY <1>4, <2>2 DEF ChangesRole
    <3> HIDE DEF m
    <3> QED BY <2>2, <3>1, <3>2 DEF At, role
  <2>3. ASSUME <<t, u>> \notin DOMAIN X, NEW c \in Created
        PROVE  <<c, u>> \notin DOMAIN X
    <3>1. <<c, u>>[2] = u  OBVIOUS
    <3> QED BY <1>4, <2>3, <3>1 DEF ChangesRole
  <2> QED BY <1>4, <2>1, <2>2, <2>3 DEF Adds, ChangesRole
<1> QED BY <1>4, <1>5, <1>6

\* the rows X of a changeset by which t is recalculated
Recalculated(X, t, u) ==
  Follows(X, t, u) /\ Grants(X, t, u) = FromParent(t, u) /\ Kept(X, t, u)

\* recalculateThreadPermissions does what is meant by it.
LEMMA RecalculateDoes ==
  ASSUME Tree, ~misplaced, Table, NEW t \in Created, RightBut(t), NEW X, X = Rows(Recalculate(t))
  PROVE  Reaches(X, t) /\ \A u \in Users : Recalculated(X, t, u)
<1> DEFINE changeset == Recalculate(t)
<1>1. AreRows(X)
  <2>1. IsChangeset(changeset)  BY RecalculateIsChangeset
  <2> HIDE DEF changeset
  <2>2. AreRows(Rows(changeset))  BY <2>1, RowsAreRows
  <2> QED BY <2>2 DEF changeset
<1>2. /\ \A x \in DOMAIN X : /\ x \in Created \X Users
                             /\ x[1] = t \/ HasRows(x[1])
      /\ \A u \in Users : Kept(X, t, u) /\ Grants(X, t, u) = FromParent(t, u)
      /\ \A c \in Created \ {t}, u \in Users :
           HasRows(c) /\ Right(NoRows, c, u) => Kept(X, c, u)
  BY RecalculateIsEnough
<1>3. Reaches(X, t)  BY <1>1, <1>2 DEF Reaches
<1>4. ASSUME NEW u \in Users PROVE Follows(X, t, u)
  <2> SUFFICES ASSUME NEW c \in Created \ {t}
               PROVE  IF HasRows(c) THEN Right(NoRows, c, u) /\ Kept(X, c, u)
                      ELSE At(X, c, u) = row[c][u]
    BY DEF Follows
  <2>1. CASE HasRows(c)  BY <1>2, <2>1 DEF RightBut
  <2>2. CASE ~HasRows(c)
    <3>1. <<c, u>>[1] = c  OBVIOUS
    <3>2. <<c, u>> \notin DOMAIN X  BY <1>2, <2>2, <3>1
    <3> QED BY <2>2, <3>2 DEF At
  <2> QED BY <2>1, <2>2
<1> QED BY <1>2, <1>3, <1>4 DEF Recalculated

\* The rows R of three changesets in one, of the rows F, Q and A.
Merged(R, F, Q, A) ==
  /\ DOMAIN R = DOMAIN F \cup DOMAIN Q \cup DOMAIN A
  /\ \A x \in DOMAIN R : \/ x \in DOMAIN F /\ R[x] = F[x]
                         \/ x \in DOMAIN Q /\ R[x] = Q[x]
                         \/ x \in DOMAIN A /\ R[x] = A[x]
  /\ DOMAIN F = {} => \A x \in DOMAIN A : R[x] = A[x]

\* the parts of two changesets committed as one
LEMMA TogetherParts ==
  ASSUME NEW f, NEW s, NEW c, c = Together(f, s)
  PROVE  /\ Lies(c.intended, f.intended, s.intended)
         /\ Lies(c.other, s.other, f.other)
         /\ (f.refused \/ s.refused) => c.refused
<1> DEFINE intended == Over(f.intended, s.intended)
           other == Over(s.other, f.other)
           refused == f.refused \/ s.refused
           failed == f.failed \/ s.failed
<1>1. c = [intended |-> intended, other |-> other, refused |-> refused,
           failed |-> failed]
  BY DEF Together
<1>2. Lies(intended, f.intended, s.intended) /\ Lies(other, s.other, f.other)
  BY OverLies
<1> HIDE DEF intended, other, refused, failed
<1>3. c.intended = intended /\ c.other = other /\ c.refused = refused
  BY <1>1, Parts
<1> QED BY <1>2, <1>3 DEF refused

\* The rows of a plan are those of its three changesets: the rows with an
\* intent before the ones without, and these with the later ones first.
LEMMA RowsMerge ==
  ASSUME NEW f, NEW s, NEW l, DOMAIN s.intended = {},
         NEW F, F = Rows(f), NEW Q, Q = Rows(s), NEW A, A = Rows(l),
         NEW R, R = Rows(Together(Together(f, s), l))
  PROVE  Merged(R, F, Q, A)
<1> DEFINE b == Together(f, s)
           c == Together(b, l)
           fi == f.intended  fo == f.other  si == s.intended  so == s.other
           li == l.intended  lo == l.other  bi == b.intended  bo == b.other
           ci == c.intended  co == c.other
<1>1. Lies(bi, fi, si) /\ Lies(bo, so, fo)  BY TogetherParts
<1>2. Lies(ci, bi, li) /\ Lies(co, lo, bo)
  <2> HIDE DEF b
  <2> QED BY TogetherParts
<1>3. Lies(R, ci, co)  BY OverLies DEF Rows
<1>4. Lies(F, fi, fo) /\ Lies(Q, si, so) /\ Lies(A, li, lo)  BY OverLies DEF Rows
<1>5. DOMAIN si = {}  OBVIOUS
<1> HIDE DEF b, c, fi, fo, si, so, li, lo, bi, bo, ci, co
<1>6. DOMAIN R = DOMAIN F \cup DOMAIN Q \cup DOMAIN A
  BY <1>1, <1>2, <1>3, <1>4 DEF Lies
<1>7. ASSUME NEW x \in DOMAIN R
      PROVE  \/ x \in DOMAIN F /\ R[x] = F[x]
             \/ x \in DOMAIN Q /\ R[x] = Q[x]
             \/ x \in DOMAIN A /\ R[x] = A[x]
  <2>1. CASE x \in DOMAIN fi  BY <1>1, <1>2, <1>3, <1>4, <2>1 DEF Lies
  <2>2. CASE x \in DOMAIN li \ DOMAIN fi
    BY <1>1, <1>2, <1>3, <1>4, <1>5, <2>2 DEF Lies
  <2>3. CASE x \in DOMAIN lo \ (DOMAIN fi \cup DOMAIN li)
    BY <1>1, <1>2, <1>3, <1>4, <1>5, <2>3 DEF Lies
  <2>4. CASE x \in DOMAIN so \ (DOMAIN fi \cup DOMAIN li \cup DOMAIN lo)
    BY <1>1, <1>2, <1>3, <1>4, <1>5, <2>4 DEF Lies
  <2>5. CASE x \in DOMAIN fo \ (DOMAIN fi \cup DOMAIN li \cup DOMAIN lo \cup DOMAIN so)
    BY <1>1, <1>2, <1>3, <1>4, <1>5, <2>5 DEF Lies
  <2>6. x \in DOMAIN fi \cup DOMAIN li \cup DOMAIN lo \cup DOMAIN so \cup DOMAIN fo
    BY <1>1, <1>2, <1>3, <1>5 DEF Lies
  <2> QED BY <2>1, <2>2, <2>3, <2>4, <2>5, <2>6
<1>8. ASSUME DOMAIN F = {}, NEW x \in DOMAIN A PROVE R[x] = A[x]
  <2>1. DOMAIN fi = {} /\ DOMAIN fo = {}  BY <1>4, <1>8 DEF Lies
  <2>2. CASE x \in DOMAIN li  BY <1>1, <1>2, <1>3, <1>4, <1>5, <2>1, <2>2 DEF Lies
  <2>3. CASE x \in DOMAIN lo \ DOMAIN li
    BY <1>1, <1>2, <1>3, <1>4, <1>5, <2>1, <2>3 DEF Lies
  <2> QED BY <1>4, <2>2, <2>3 DEF Lies
<1> QED BY <1>6, <1>7, <1>8 DEF Merged

\* the rows R of a changeset make all of a user's rows right
RightAfter(R, u) ==
  \A c \in Created : HasRows(c) \/ (\E x \in DOMAIN R : x[1] = c) => Right(R, c, u)

\* a changeset of its own rows, or of none
LEMMA NoneWritten ==
  /\ DOMAIN Rows(NoChanges) = {}
  /\ DOMAIN NoChanges.intended = {}
<1> DEFINE none == << >>
<1>1. NoChanges.intended = none /\ NoChanges.other = none  BY DEF NoChanges
<1>2. DOMAIN none = {}  OBVIOUS
<1> HIDE DEF none
<1>3. Rows(NoChanges) = Over(none, none)  BY <1>1 DEF Rows
<1>4. DOMAIN Over(none, none) \subseteq DOMAIN none \cup DOMAIN none  BY OverIs
<1> QED BY <1>1, <1>2, <1>3, <1>4

\* A recalculation writes rows without an intent.
LEMMA NoIntent ==
  ASSUME NEW t
  PROVE  DOMAIN Recalculate(t).intended = {}
<1> DEFINE rows == Changing([x \in {t} \X Users |->
                          NewRow(t, row[t][x[2]].role, InContainer(t, x[2]),
                                 FromParent(t, x[2]))])
           none == << >>  no == FALSE  before == NoChanges
           c == [before EXCEPT !.other = rows]
           below == Descend(rows)
           fails == below.failed  under == below.rows
           b == AndBelow(c, below)
<1>1. Recalculate(t) = b
  BY DEF Recalculate
<1>2. before = [intended |-> none, other |-> none, refused |-> no, failed |-> no]
  BY DEF NoChanges
<1>3. DOMAIN none = {}  OBVIOUS
<1>4. b = [c EXCEPT !.other = Over(under, c.other), !.failed = fails]
  BY DEF AndBelow
<1>5. c = [before EXCEPT !.other = rows]  OBVIOUS
<1> HIDE DEF none, no, before, rows, fails, under, b, c
<1>6. c = [intended |-> none, other |-> rows, refused |-> no, failed |-> no]
  BY <1>2, <1>5
<1>7. b.intended = none  BY <1>4, <1>6
<1> QED BY <1>1, <1>3, <1>7

\* A thread is created: nothing hangs below it, so that only its own rows are
\* written, each of them computed from what the table holds.
LEMMA PlanOfCreation ==
  ASSUME Tree, ~misplaced, Table, NEW t \in Created \ {Root}, Below(t) = {}, RightBut(t),
         NEW F, Reaches(F, t), NEW Q, Reaches(Q, t), NEW A, Reaches(A, t),
         NEW u \in Users, Adds(F, t, u), Recalculated(Q, t, u), Adds(A, t, u),
         NEW R, Merged(R, F, Q, A)
  PROVE  RightAfter(R, u)
<1>1. Follows(F, t, u) /\ Follows(Q, t, u) /\ Follows(A, t, u)
  BY DEF Adds, Recalculated
<1>2. \A c \in Created \ {t} : Unchanged(At(F, c, u), row[c][u])  BY <1>1, NothingBelow
<1>3. \A c \in Created \ {t} : Unchanged(At(Q, c, u), row[c][u])  BY <1>1, NothingBelow
<1>4. \A c \in Created \ {t} : Unchanged(At(A, c, u), row[c][u])  BY <1>1, NothingBelow
<1>5. ASSUME NEW c \in Created \ {t} PROVE Unchanged(At(R, c, u), row[c][u])
  <2>1. CASE <<c, u>> \in DOMAIN R
    BY <1>2, <1>3, <1>4, <2>1 DEF Merged, At
  <2>2. CASE <<c, u>> \notin DOMAIN R  BY <2>2 DEF At, Unchanged
  <2> QED BY <2>1, <2>2
<1>6. ASSUME NEW X, \A c \in Created \ {t} : Unchanged(At(X, c, u), row[c][u]),
             At(R, t, u) = At(X, t, u)
      PROVE  Agree(R, X, u)
  <2>1. \A c \in Created \ {t} : Unchanged(At(R, c, u), At(X, c, u))
    BY <1>5, <1>6 DEF Unchanged
  <2>2. Unchanged(At(R, t, u), At(X, t, u))  BY <1>6 DEF Unchanged
  <2> QED BY <2>1, <2>2 DEF Agree
<1>7. Right(R, t, u)
  <2>1. Right(Q, t, u)
    <3>1. t \in Threads /\ Kept(Q, t, u)  BY DEF Recalculated, Created
    <3> QED BY <3>1, KeptIsRight
  <2>2. CASE <<t, u>> \in DOMAIN F /\ R[<<t, u>>] = F[<<t, u>>] /\ <<t, u>> \in DOMAIN R
    <3>1. At(R, t, u) = At(F, t, u)  BY <2>2 DEF At
    <3>2. Agree(R, F, u)  BY <1>2, <1>6, <3>1
    <3>3. Right(F, t, u)  BY <2>2 DEF Adds
    <3> QED BY <3>2, <3>3, AgreeRight
  <2>3. CASE <<t, u>> \in DOMAIN A /\ R[<<t, u>>] = A[<<t, u>>] /\ <<t, u>> \in DOMAIN R
    <3>1. At(R, t, u) = At(A, t, u)  BY <2>3 DEF At
    <3>2. Agree(R, A, u)  BY <1>4, <1>6, <3>1
    <3>3. Right(A, t, u)  BY <2>3 DEF Adds
    <3> QED BY <3>2, <3>3, AgreeRight
  <2>4. CASE \/ <<t, u>> \in DOMAIN Q /\ R[<<t, u>>] = Q[<<t, u>>] /\ <<t, u>> \in DOMAIN R
             \/ <<t, u>> \notin DOMAIN R
    <3>1. At(R, t, u) = At(Q, t, u)  BY <2>4 DEF At, Merged
    <3>2. Agree(R, Q, u)  BY <1>3, <1>6, <3>1
    <3> QED BY <2>1, <3>2, AgreeRight
  <2> QED BY <2>2, <2>3, <2>4 DEF Merged
<1>8. ASSUME NEW c \in Created \ {t}, HasRows(c) PROVE Right(R, c, u)
  <2>1. Right(NoRows, c, u)  BY <1>8 DEF RightBut
  <2>2. \A a \in Created : At(NoRows, a, u) = row[a][u]  BY DEF At, NoRows
  <2>3. Grants(R, c, u) = Grants(NoRows, c, u) /\ Joined(R, c, u) = Joined(NoRows, c, u)
    <3>1. CASE c = Root  BY <3>1 DEF Grants, Joined
    <3>2. CASE c # Root
      <4>1. \A a \in {thread[c].parent, Container(c)} : a \in Created \ {t}
        BY <3>2, ParentAbove DEF Below
      <4>2. /\ Unchanged(At(R, thread[c].parent, u), At(NoRows, thread[c].parent, u))
            /\ Unchanged(At(R, Container(c), u), At(NoRows, Container(c), u))
        BY <1>5, <2>2, <4>1
      <4> QED BY <3>2, <4>2 DEF Unchanged, Grants, Joined
    <3> QED BY <3>1, <3>2
  <2>4. Unchanged(At(R, c, u), At(NoRows, c, u))  BY <1>5, <2>2
  <2> QED BY <2>1, <2>3, <2>4 DEF Right, Unchanged
<1>9. ASSUME NEW c \in Created, \E x \in DOMAIN R : x[1] = c PROVE c = t \/ HasRows(c)
  BY <1>9 DEF Merged, Reaches
<1> QED BY <1>7, <1>8, <1>9 DEF RightAfter

\* A thread is recalculated and users are added: what the recalculation
\* writes gives way to what their additions write.
LEMMA PlanOfMove ==
  ASSUME Tree, ~misplaced, Table, NEW t \in Created \ {Root}, RightBut(t), HasRows(t),
         NEW F, DOMAIN F = {}, NEW Q, Reaches(Q, t), NEW A, Reaches(A, t), Newcomers(A, t),
         NEW u \in Users, Recalculated(Q, t, u), Adds(A, t, u),
         row[t][u].role <= 0 => NoSource(t, u),
         NEW R, Merged(R, F, Q, A)
  PROVE  RightAfter(R, u)
<1>1. \A c \in Created : (\E x \in DOMAIN R : x[1] = c) => HasRows(c)
  BY DEF Merged, Reaches
<1>2. Follows(Q, t, u) /\ Follows(A, t, u)
  BY DEF Adds, Recalculated
<1>3. SUFFICES ASSUME NEW c \in Created, HasRows(c) PROVE Right(R, c, u)
  BY <1>1 DEF RightAfter
<1>4. CASE <<t, u>> \notin DOMAIN A
  <2>1. \A a \in Created : <<a, u>> \notin DOMAIN A  BY <1>4 DEF Adds
  <2>2. \A a \in Created : At(R, a, u) = At(Q, a, u)  BY <2>1 DEF Merged, At
  <2>3. Agree(R, Q, u)  BY <2>2 DEF Agree, Unchanged
  <2>4. Kept(Q, c, u)  BY <1>2, <1>3 DEF Follows, Recalculated
  <2>5. Right(Q, c, u)
    <3>1. c \in Threads  BY DEF Created
    <3> QED BY <2>4, <3>1, KeptIsRight
  <2> QED BY <2>3, <2>5, AgreeRight
<1>5. CASE <<t, u>> \in DOMAIN A
  <2>1. row[t][u].role <= 0
    <3>1. row[t][u].role \in Roles  BY NoRowNothing
    <3> QED BY <1>5, <3>1 DEF Newcomers, Roles, Ghost, Visitor, Members, Admins
  <2>2. Rivals(A, Q, t, u)
    BY <1>5, <2>1 DEF Rivals, Adds, Recalculated, Reaches
  <2>3. ASSUME NEW a \in Created PROVE Unchanged(At(R, a, u), At(A, a, u))
    <3>1. CASE <<a, u>> \in DOMAIN A
      BY <3>1 DEF Merged, At, Unchanged
    <3>2. CASE <<a, u>> \notin DOMAIN A
      <4>1. a # t  BY <1>5, <3>2
      <4>2. Unchanged(At(A, a, u), At(Q, a, u))
        BY <2>1, <2>2, <3>2, <4>1, RivalsAgree
      <4>3. At(R, a, u) = At(Q, a, u)  BY <3>2 DEF Merged, At
      <4> QED BY <4>2, <4>3 DEF Unchanged
    <3> QED BY <3>1, <3>2
  <2>4. Agree(R, A, u)  BY <2>3 DEF Agree
  <2>5. Right(A, c, u)
    <3>1. CASE c = t  BY <1>5, <3>1 DEF Adds
    <3>2. CASE c # t
      <4>1. Kept(A, c, u) /\ c \in Threads  BY <1>2, <1>3, <3>2 DEF Follows, Created
      <4> QED BY <4>1, KeptIsRight
    <3> QED BY <3>1, <3>2
  <2> QED BY <2>4, <2>5, AgreeRight
<1> QED BY <1>4, <1>5

\* Users are added and nothing else.
LEMMA PlanOfAddition ==
  ASSUME Tree, ~misplaced, Table, NEW t \in Created, RightBut(t), HasRows(t),
         NEW F, DOMAIN F = {}, NEW Q, DOMAIN Q = {}, NEW A, Reaches(A, t),
         NEW u \in Users, Right(NoRows, t, u), Adds(A, t, u),
         NEW R, Merged(R, F, Q, A)
  PROVE  RightAfter(R, u)
<1>1. \A c \in Created : (\E x \in DOMAIN R : x[1] = c) => HasRows(c)
  BY DEF Merged, Reaches
<1>2. SUFFICES ASSUME NEW c \in Created, HasRows(c) PROVE Right(R, c, u)
  BY <1>1 DEF RightAfter
<1>3. \A a \in Created : At(R, a, u) = At(A, a, u)  BY DEF Merged, At
<1>4. Agree(R, A, u)  BY <1>3 DEF Agree, Unchanged
<1>5. Right(A, c, u)
  <2>1. CASE c = t  BY <2>1 DEF Adds
  <2>2. CASE c # t
    <3>1. Kept(A, c, u) /\ c \in Threads  BY <1>2, <2>2 DEF Adds, Follows, Created
    <3> QED BY <3>1, KeptIsRight
  <2> QED BY <2>1, <2>2
<1> QED BY <1>4, <1>5, AgreeRight

\* What createThread and updateThread leave to be computed: where they add
\* users only, all rows are right; where a thread is to be recalculated, all
\* rows are but its own, and it is new or has granted nothing to those
\* without a role in it.
PlanOK(p) ==
  LET t == p.thread
  IN /\ \A c \in Created : HasRows(c) /\ (c # t \/ ~p.recalculate) =>
          \A u \in Users : Settled(c, u)
     /\ p.recalculate => t # Root
     /\ ~p.recalculate => HasRows(t)
     /\ p.creator # {} => p.recalculate /\ Below(t) = {}
     /\ p.recalculate /\ p.creator = {} =>
          HasRows(t) /\ \A u \in Users : row[t][u].role <= 0 => NoSource(t, u)

\* A plan makes all rows right.
LEMMA PlanIsEnough ==
  ASSUME Tree, ~misplaced, Table, NEW p \in Plans, PlanOK(p), NEW R, R = Rows(PlanChangeset(p)),
         NEW u \in Users
  PROVE  RightAfter(R, u)
<1> DEFINE t == p.thread
           add(users, onlyNew) ==
             IF users = {} THEN NoChanges
             ELSE ChangeRole(t, users, Members, onlyNew)
           f == add(p.creator, FALSE)
           s == IF p.recalculate THEN Recalculate(t) ELSE NoChanges
           l == add(p.added, TRUE)
           F == Rows(f)  Q == Rows(s)  A == Rows(l)
<1>1. R = Rows(Together(Together(f, s), l))
  BY DEF PlanChangeset
<1>2. /\ t \in Created /\ p.creator \in SUBSET Users /\ p.added \in SUBSET Users
      /\ p.recalculate \in BOOLEAN
  BY DEF Plans
<1>3. RightBut(t)
  BY RightOfTable DEF PlanOK, RightBut
<1>4. DOMAIN Rows(NoChanges) = {} /\ DOMAIN NoChanges.intended = {}
  BY NoneWritten
<1>5. Reaches(F, t) /\ Adds(F, t, u) /\ (p.creator = {} => DOMAIN F = {})
  <2>1. CASE p.creator = {}
    <3>1. DOMAIN F = {}  BY <1>4, <2>1
    <3> HIDE DEF F, t
    <3>2. Reaches(F, t) /\ \A v \in Users : Adds(F, t, v)  BY <1>2, <1>3, <3>1, NoneAdd
    <3> QED BY <3>1, <3>2
  <2>2. CASE p.creator # {}
    <3> DEFINE users == p.creator  no == FALSE
    <3>1. F = Rows(ChangeRole(t, users, Members, no))  BY <2>2
    <3>2. no \in BOOLEAN /\ users \in SUBSET Users  BY <1>2
    <3> HIDE DEF F, t, no, users
    <3>3. Reaches(F, t) /\ \A v \in Users : Adds(F, t, v)
      BY <1>2, <1>3, <3>1, <3>2, ChangeRoleAdds
    <3> QED BY <2>2, <3>3
  <2> QED BY <2>1, <2>2
<1>6. Reaches(A, t) /\ Adds(A, t, u) /\ Newcomers(A, t)
  <2>1. CASE p.added = {}
    <3>1. DOMAIN A = {}  BY <1>4, <2>1
    <3> HIDE DEF A, t
    <3>2. Reaches(A, t) /\ \A v \in Users : Adds(A, t, v)  BY <1>2, <1>3, <3>1, NoneAdd
    <3> QED BY <3>1, <3>2 DEF Newcomers
  <2>2. CASE p.added # {}
    <3> DEFINE users == p.added  yes == TRUE
    <3>1. A = Rows(ChangeRole(t, users, Members, yes))  BY <2>2
    <3>2. yes \in BOOLEAN /\ users \in SUBSET Users /\ yes  BY <1>2
    <3> HIDE DEF A, t, yes, users
    <3>3. /\ Reaches(A, t) /\ \A v \in Users : Adds(A, t, v)
          /\ yes => Newcomers(A, t)
      BY <1>2, <1>3, <3>1, <3>2, ChangeRoleAdds
    <3> QED BY <3>2, <3>3
  <2> QED BY <2>1, <2>2
<1>7. /\ p.recalculate => Reaches(Q, t) /\ Recalculated(Q, t, u)
      /\ ~p.recalculate => DOMAIN Q = {}
      /\ DOMAIN s.intended = {}
  <2>1. CASE p.recalculate
    <3>1. s = Recalculate(t)  BY <2>1
    <3> HIDE DEF s, t
    <3>2. Q = Rows(Recalculate(t))  BY <3>1
    <3> HIDE DEF Q
    <3>3. Reaches(Q, t) /\ \A v \in Users : Recalculated(Q, t, v)
      BY <1>2, <1>3, <3>2, RecalculateDoes
    <3> QED BY <2>1, <3>1, <3>3, NoIntent
  <2>2. CASE ~p.recalculate  BY <1>4, <2>2
  <2> QED BY <2>1, <2>2
<1>8. Merged(R, F, Q, A)
  <2> HIDE DEF f, s, l
  <2> QED BY <1>1, <1>7, RowsMerge
<1> HIDE DEF F, Q, A, f, s, l
<1>9. CASE p.creator # {}
  <2>1. p.recalculate /\ Below(t) = {} /\ t \in Created \ {Root}
    BY <1>2, <1>9 DEF PlanOK
  <2> HIDE DEF t
  <2> QED BY <1>3, <1>5, <1>6, <1>7, <1>8, <2>1, PlanOfCreation
<1>10. CASE p.creator = {} /\ p.recalculate
  <2>1. /\ t \in Created \ {Root} /\ HasRows(t)
        /\ row[t][u].role <= 0 => NoSource(t, u)
    BY <1>2, <1>10 DEF PlanOK
  <2> HIDE DEF t
  <2> QED BY <1>3, <1>5, <1>6, <1>7, <1>8, <1>10, <2>1, PlanOfMove
<1>11. CASE p.creator = {} /\ ~p.recalculate
  <2>1. HasRows(t) /\ Right(NoRows, t, u)
    BY <1>2, <1>11, RightOfTable DEF PlanOK
  <2> HIDE DEF t
  <2> QED BY <1>2, <1>3, <1>5, <1>6, <1>7, <1>8, <1>11, <2>1, PlanOfAddition
<1> QED BY <1>9, <1>10, <1>11

-----------------------------------------------------------------------------
(* Right at rest.                                                          *)

\* A changeset concerns the rows of its users, of threads there are rows of
\* unless it is the only one.
IsOrderly(j) ==
  /\ j.users # {} /\ j.users \subseteq Users
  /\ \A x \in DOMAIN j.rows : x[2] \in j.users /\ (HasRows(x[1]) \/ j.users = Users)
  /\ j.plan # {} => j.users = Users

Orderly ==
  /\ \A j \in jobs : IsOrderly(j)
  /\ \A j, k \in jobs : j = k \/ j.users \cap k.users = {}

\* A changeset will make all rows of its users right.
WillDo(j) ==
  /\ j.plan = {} => \A u \in j.users : RightAfter(j.rows, u)
  /\ \A p \in j.plan : PlanOK(p)

\* no changeset concerns the user
Idle(u) == \A j \in jobs : u \notin j.users

\* all rows of the user are right
AllSettled(u) == \A c \in Created : HasRows(c) => Settled(c, u)

\* Every row is right or will be, but for what handlers that died have left.
Good ==
  ~damaged => /\ \A j \in jobs : WillDo(j)
              /\ \A u \in Users : Idle(u) => AllSettled(u)

Cover == Orderly /\ Good

\* Both tables are left alone.
LEMMA NothingMoves ==
  ASSUME thread' = thread, row' = row
  PROVE  /\ Created' = Created
         /\ \A c : HasRows(c)' <=> HasRows(c)
         /\ \A c, u : Settled(c, u)' <=> Settled(c, u)
         /\ \A u : AllSettled(u)' <=> AllSettled(u)
         /\ \A R, u : RightAfter(R, u)' <=> RightAfter(R, u)
         /\ \A p : PlanOK(p)' <=> PlanOK(p)
         /\ \A j : IsOrderly(j)' <=> IsOrderly(j)
         /\ \A j : WillDo(j)' <=> WillDo(j)
<1>1. Created' = Created  BY DEF Created
<1>2. \A c : HasRows(c)' <=> HasRows(c)  BY DEF HasRows
<1>3. \A c, u : Settled(c, u)' <=> Settled(c, u)
  BY DEF Settled, NewRow, MakePermissionsBlob, InContainer, Container, FromParent
<1>4. \A R, c, u : Right(R, c, u)' <=> Right(R, c, u)
  BY DEF Right, At, Joined, Grants, NewRow, MakePermissionsBlob, Container
<1>5. \A u : AllSettled(u)' <=> AllSettled(u)  BY <1>1, <1>2, <1>3 DEF AllSettled
<1>6. \A R, u : RightAfter(R, u)' <=> RightAfter(R, u)
  BY <1>1, <1>2, <1>4 DEF RightAfter
<1>7. \A t, u : NoSource(t, u)' <=> NoSource(t, u)  BY <1>1 DEF NoSource
<1>8. \A t : Below(t)' = Below(t)  BY <1>1 DEF Below, Container
<1>9. \A p : PlanOK(p)' <=> PlanOK(p)
  BY <1>1, <1>2, <1>3, <1>7, <1>8 DEF PlanOK
<1>10. \A j : IsOrderly(j)' <=> IsOrderly(j)  BY <1>2 DEF IsOrderly
<1>11. \A j : WillDo(j)' <=> WillDo(j)  BY <1>6, <1>9 DEF WillDo
<1> QED BY <1>1, <1>2, <1>3, <1>5, <1>6, <1>9, <1>10, <1>11

\* Rows are written, none is taken away.
LEMMA MoreRows ==
  ASSUME thread' = thread, NEW rows, AreRows(rows), Write(rows)
  PROVE  /\ Created' = Created
         /\ \A c \in Threads : HasRows(c) => HasRows(c)'
         /\ \A c \in Threads : HasRows(c)' => HasRows(c) \/ \E x \in DOMAIN rows : x[1] = c
         /\ \A x \in DOMAIN rows : HasRows(x[1])'
<1>1. \A c \in Threads, u \in Users :
        row'[c][u] = IF <<c, u>> \in DOMAIN rows THEN rows[<<c, u>>] ELSE row[c][u]
  BY DEF Write
<1>2. \A x \in DOMAIN rows : /\ x[1] \in Threads /\ x[2] \in Users
                             /\ x = <<x[1], x[2]>> /\ rows[x].exists
  BY DEF AreRows, IsNewRow, Created
<1>3. ASSUME NEW c \in Threads, HasRows(c) PROVE HasRows(c)'
  <2>1. PICK u \in Users : row[c][u].exists  BY <1>3 DEF HasRows
  <2>2. row'[c][u].exists  BY <1>1, <1>2, <2>1
  <2> QED BY <2>2 DEF HasRows
<1>4. ASSUME NEW c \in Threads, HasRows(c)'
      PROVE  HasRows(c) \/ \E x \in DOMAIN rows : x[1] = c
  <2>1. PICK u \in Users : row'[c][u].exists  BY <1>4 DEF HasRows
  <2>2. CASE <<c, u>> \in DOMAIN rows
    <3>1. <<c, u>>[1] = c  OBVIOUS
    <3> QED BY <2>2, <3>1
  <2>3. CASE <<c, u>> \notin DOMAIN rows  BY <1>1, <2>1, <2>3 DEF HasRows
  <2> QED BY <2>2, <2>3
<1>5. ASSUME NEW x \in DOMAIN rows PROVE HasRows(x[1])'
  <2>1. row'[x[1]][x[2]].exists  BY <1>1, <1>2
  <2> QED BY <1>2, <2>1 DEF HasRows
<1>6. Created' = Created  BY DEF Created
<1> QED BY <1>3, <1>4, <1>5, <1>6

\* What concerns a user whose rows are left alone stays as it is.
LEMMA SameUser ==
  ASSUME Tree, ~misplaced, thread' = thread, NEW u, \A a \in Created : row'[a][u] = row[a][u]
  PROVE  /\ \A c \in Created : Settled(c, u)' <=> Settled(c, u)
         /\ \A R : \A c \in Created : Right(R, c, u)' <=> Right(R, c, u)
<1>1. \A c \in Created : c # Root => thread[c].parent \in Created /\ Container(c) \in Created
  BY ParentAbove
<1>2. \A c : Container(c)' = Container(c)  BY DEF Container
<1>3. \A R : \A c \in Created : At(R, c, u)' = At(R, c, u)  BY DEF At
<1>4. \A R : \A c \in Created :
        Grants(R, c, u)' = Grants(R, c, u) /\ Joined(R, c, u)' = Joined(R, c, u)
  BY <1>1, <1>2, <1>3 DEF Grants, Joined
<1>5. \A R : \A c \in Created : Right(R, c, u)' <=> Right(R, c, u)
  BY <1>3, <1>4 DEF Right, NewRow, MakePermissionsBlob
<1>6. \A c \in Created : Settled(c, u)' <=> Settled(c, u)
  BY <1>1, <1>2 DEF Settled, NewRow, MakePermissionsBlob, InContainer, FromParent
<1> QED BY <1>5, <1>6

\* A changeset is added that concerns no user of another.
LEMMA JobCovers ==
  ASSUME Cover, thread' = thread, row' = row, damaged' = damaged,
         NEW job, jobs \subseteq jobs', jobs' \subseteq jobs \cup {job},
         IsOrderly(job), \A j \in jobs : j.users \cap job.users = {},
         ~damaged => WillDo(job)
  PROVE  Cover'
<1>1. Orderly /\ Good  BY DEF Cover
<1>2. /\ \A u : AllSettled(u)' <=> AllSettled(u)
      /\ \A j : IsOrderly(j)' <=> IsOrderly(j)
      /\ \A j : WillDo(j)' <=> WillDo(j)
  BY NothingMoves
<1>3. Orderly'
  <2>1. \A j \in jobs' : IsOrderly(j)'  BY <1>1, <1>2 DEF Orderly
  <2>2. \A j, k \in jobs' : j = k \/ j.users \cap k.users = {}  BY <1>1 DEF Orderly
  <2> QED BY <2>1, <2>2 DEF Orderly
<1>4. Good'
  <2> SUFFICES ASSUME ~damaged'
               PROVE  /\ \A j \in jobs' : WillDo(j)'
                      /\ \A u \in Users : Idle(u)' => AllSettled(u)'
    BY DEF Good
  <2>1. \A j \in jobs' : WillDo(j)'  BY <1>1, <1>2 DEF Good
  <2>2. \A u : Idle(u)' => Idle(u)  BY DEF Idle
  <2>3. \A u \in Users : Idle(u)' => AllSettled(u)'  BY <1>1, <1>2, <2>2 DEF Good
  <2> QED BY <2>1, <2>3
<1> QED BY <1>3, <1>4 DEF Cover

\* The rows that changeRole writes for an idle user make the user's rows right.
LEMMA ChangeMakesRight ==
  ASSUME Tree, ~misplaced, Table, NEW t \in Created, HasRows(t), NEW u \in Users, AllSettled(u),
         NEW users, NEW role, NEW R, ChangesRole(R, t, users, role)
  PROVE  RightAfter(R, u)
<1> SUFFICES ASSUME NEW c \in Created, HasRows(c) \/ \E x \in DOMAIN R : x[1] = c
             PROVE  Right(R, c, u)
  BY DEF RightAfter
<1>1. HasRows(c)  BY DEF ChangesRole
<1>2. Right(NoRows, c, u)  BY <1>1, RightOfTable DEF AllSettled
<1>3. CASE c = t  BY <1>2, <1>3 DEF ChangesRole
<1>4. CASE c # t
  <2>1. Kept(R, c, u)  BY <1>1, <1>2, <1>4 DEF ChangesRole
  <2>2. c \in Threads  BY DEF Created
  <2> QED BY <2>1, <2>2, KeptIsRight
<1> QED BY <1>3, <1>4

\* joins, departures, removals and changes of role
LEMMA ChangeCovers ==
  ASSUME Inv, ~misplaced, Cover, NEW t \in Created, HasRows(t), NEW u \in Users,
         NEW role \in Roles, t = Root \/ role # Admins, NEW onlyNew \in BOOLEAN,
         Free({u}), Change(ChangeRole(t, {u}, role, onlyNew), u)
  PROVE  Cover'
<1> DEFINE users == {u}  none == {}
           c == ChangeRole(t, users, role, onlyNew)
           R == Rows(c)
           job == [users |-> users, plan |-> none, rows |-> R]
<1>1. /\ thread' = thread /\ row' = row /\ damaged' = damaged
      /\ jobs' = IF c.refused \/ c.failed THEN jobs ELSE jobs \cup {job}
  BY DEF Change
<1>2. \A j \in jobs : j.users \cap users = {}  BY DEF Free
<1>3. users \in SUBSET Users /\ Tree /\ Table  BY DEF Inv
<1>4. \A v \in users : v = u  OBVIOUS
<1>5. u \in users /\ \A j : j \notin none  OBVIOUS
<1> HIDE DEF users, none
<1>6. /\ job.users = users /\ job.plan = none /\ job.rows = R
      /\ jobs' \subseteq jobs \cup {job} /\ jobs \subseteq jobs'
  BY <1>1
<1> HIDE DEF c, R, job
<1>7. ChangesRole(R, t, users, role)
  <2>1. c = ChangeRole(t, users, role, onlyNew) /\ R = Rows(c)  BY DEF c, R
  <2> QED BY <1>3, <2>1, ChangeRoleIsEnough
<1>8. IsOrderly(job)
  <2>1. \A x \in DOMAIN R : x[2] \in users /\ HasRows(x[1])
    BY <1>7 DEF ChangesRole
  <2> QED BY <1>3, <1>5, <1>6, <2>1 DEF IsOrderly
<1>9. ASSUME ~damaged PROVE WillDo(job)
  <2>1. Idle(u)  BY <1>2, <1>5 DEF Idle
  <2>2. AllSettled(u)  BY <1>9, <2>1 DEF Cover, Good
  <2>3. RightAfter(R, u)  BY <1>3, <1>7, <2>2, ChangeMakesRight
  <2> QED BY <1>4, <1>5, <1>6, <2>3 DEF WillDo
<1>10. \A j \in jobs : j.users \cap job.users = {}  BY <1>2, <1>6
<1> QED BY <1>1, <1>6, <1>8, <1>9, <1>10, JobCovers

\* A request that concerns every user finds no changeset uncommitted.
LEMMA NobodyElse ==
  ASSUME Orderly, Free(Users)
  PROVE  jobs = {}
BY DEF Orderly, IsOrderly, Free

\* A changeset of all users is the only one.
LEMMA OnlyOne ==
  ASSUME Orderly, NEW j \in jobs, j.users = Users
  PROVE  jobs = {j}
<1>1. \A k \in jobs : k = j  BY DEF Orderly, IsOrderly
<1> QED BY <1>1

\* what is left to be computed after a thread has been written
LEMMA PlanCovers ==
  ASSUME Cover, NEW t, NEW new, NEW creator, NEW added, NEW recalculate,
         Free(Users), Users # {}, WriteThread(t, new, creator, added, recalculate),
         NEW plan, plan = [thread |-> t, creator |-> creator, added |-> added,
                           recalculate |-> recalculate],
         ~damaged => PlanOK(plan)'
  PROVE  Cover'
<1> DEFINE none == << >>  plans == {plan}
           job == [users |-> Users, rows |-> none, plan |-> plans]
<1>1. jobs = {}  BY NobodyElse DEF Cover
<1>2. jobs' = {job} /\ damaged' = damaged
  BY <1>1 DEF WriteThread
<1>3. DOMAIN none = {} /\ plans # {} /\ \A p \in plans : p = plan  OBVIOUS
<1> HIDE DEF none, plans
<1>4. job.users = Users /\ job.rows = none /\ job.plan = plans  OBVIOUS
<1> HIDE DEF job
<1>5. IsOrderly(job)'  BY <1>3, <1>4 DEF IsOrderly
<1>6. Orderly'  BY <1>2, <1>5 DEF Orderly
<1>7. ~damaged' => WillDo(job)'  BY <1>2, <1>3, <1>4 DEF WillDo
<1>8. \A u \in Users : ~Idle(u)'  BY <1>2, <1>4 DEF Idle
<1>9. Good'  BY <1>2, <1>7, <1>8 DEF Good
<1> QED BY <1>6, <1>9 DEF Cover

\* the plan of a thread becomes a changeset, or an error
LEMMA ComputeCovers ==
  ASSUME Inv, ~misplaced, Cover, NEW j \in jobs, Compute(j)
  PROVE  Cover'
<1>1. Tree /\ Table /\ IsJob(j) /\ Orderly /\ Good  BY DEF Inv, Jobs, Cover
<1>2. PICK p \in j.plan :
        LET changeset == PlanChangeset(p)
            error == changeset.refused \/ changeset.failed
        IN /\ jobs' = (jobs \ {j}) \cup
                         (IF error THEN {}
                          ELSE {[j EXCEPT !.plan = {}, !.rows = Rows(changeset)]})
           /\ damaged' = (damaged \/ error)
  BY DEF Compute
<1> DEFINE c == PlanChangeset(p)
           R == Rows(c)
           none == {}
           users == j.users
           job == [users |-> users, plan |-> none, rows |-> R]
           error == c.refused \/ c.failed
<1>3. thread' = thread /\ row' = row  BY DEF Compute
<1>4. users = Users /\ Users # {} /\ jobs = {j}
  <2>1. users = Users /\ Users # {}  BY <1>1 DEF Orderly, IsOrderly
  <2> QED BY <1>1, <2>1, OnlyOne
<1>5. p \in Plans  BY <1>1, <1>2 DEF IsJob
<1>6. AreRows(R)
  <2>1. IsChangeset(c)  BY <1>1, <1>5, PlanIsChangeset
  <2> HIDE DEF c
  <2> QED BY <2>1, RowsAreRows
<1>7. /\ error => damaged' /\ jobs' = {}
      /\ ~error => jobs' = {job}
      /\ damaged => damaged'
  <2> DEFINE other == [j EXCEPT !.plan = none, !.rows = R]
  <2>1. j = [users |-> j.users, plan |-> j.plan, rows |-> j.rows]  BY <1>1 DEF IsJob
  <2>2. /\ jobs' = (jobs \ {j}) \cup (IF error THEN {} ELSE {other})
        /\ damaged' = (damaged \/ error)
    BY <1>2
  <2>3. other = [j EXCEPT !.plan = none, !.rows = R]  OBVIOUS
  <2> HIDE DEF c, R, none, other, error
  <2>4. other = job  BY <2>1, <2>3
  <2> HIDE DEF job
  <2> QED BY <1>4, <2>2, <2>4
<1>8. \A k : k \notin none  OBVIOUS
<1> HIDE DEF c, none, users
<1>9. job.users = users /\ job.plan = none /\ job.rows = R  OBVIOUS
<1>10. R = Rows(PlanChangeset(p))  BY DEF c
<1> HIDE DEF job, error, R
<1>11. /\ \A k : IsOrderly(k)' <=> IsOrderly(k)
       /\ \A k : WillDo(k)' <=> WillDo(k)
  BY <1>3, NothingMoves
<1>12. IsOrderly(job)
  <2>1. \A x \in DOMAIN R : x[2] \in Users  BY <1>6 DEF AreRows
  <2> QED BY <1>4, <1>8, <1>9, <2>1 DEF IsOrderly
<1>13. ASSUME ~damaged PROVE WillDo(job)
  <2>1. PlanOK(p)  BY <1>1, <1>2, <1>13 DEF Good, WillDo
  <2>2. \A u \in Users : RightAfter(R, u)
    BY <1>1, <1>5, <1>10, <2>1, PlanIsEnough
  <2> QED BY <1>4, <1>8, <1>9, <2>2 DEF WillDo
<1>14. CASE error
  BY <1>7, <1>14 DEF Cover, Orderly, Good
<1>15. CASE ~error
  <2>1. (damaged => damaged') /\ jobs' = {job}  BY <1>7, <1>15
  <2>2. Orderly'  BY <1>11, <1>12, <2>1 DEF Orderly
  <2>3. \A u \in Users : ~Idle(u)'  BY <1>4, <1>9, <2>1 DEF Idle
  <2>4. Good'  BY <1>11, <1>13, <2>1, <2>3 DEF Good
  <2> QED BY <2>2, <2>4 DEF Cover
<1> QED BY <1>14, <1>15

\* Jobs that go leave the others orderly, whatever they have written.
LEMMA StaysOrderly ==
  ASSUME Orderly, Jobs, thread' = thread, NEW rows, AreRows(rows), Write(rows),
         jobs' \subseteq jobs
  PROVE  Orderly'
<1>1. \A c \in Threads : HasRows(c) => HasRows(c)'  BY MoreRows
<1>2. ASSUME NEW j \in jobs' PROVE IsOrderly(j)'
  <2>1. IsOrderly(j) /\ AreRows(j.rows)  BY DEF Orderly, Jobs, IsJob
  <2>2. \A x \in DOMAIN j.rows : x[1] \in Threads  BY <2>1 DEF AreRows, Created
  <2> QED BY <1>1, <2>1, <2>2 DEF IsOrderly
<1> QED BY <1>2 DEF Orderly

\* commitMembershipChangeset makes the rows of its users right, and leaves
\* those of the others alone.
LEMMA CommitCovers ==
  ASSUME Inv, ~misplaced, Cover, NEW j \in jobs, Commit(j)
  PROVE  Cover'
<1> DEFINE R == j.rows
<1>1. Tree /\ Table /\ Jobs /\ IsJob(j) /\ Orderly /\ Good  BY DEF Inv, Jobs, Cover
<1>2. AreRows(R) /\ Write(R)  BY <1>1 DEF IsJob, Commit
<1>3. thread' = thread /\ damaged' = damaged /\ jobs' = jobs \ {j} /\ j.plan = {}
  BY DEF Commit
<1>4. /\ j.users # {} /\ j.users \subseteq Users
      /\ \A x \in DOMAIN R : x[2] \in j.users /\ (HasRows(x[1]) \/ j.users = Users)
  BY <1>1 DEF Orderly, IsOrderly
<1> HIDE DEF R
<1>5. Orderly'
  <2>1. jobs' \subseteq jobs  BY <1>3
  <2> QED BY <1>1, <1>2, <1>3, <2>1, StaysOrderly
<1>6. /\ Created' = Created
      /\ \A c \in Threads : HasRows(c) => HasRows(c)'
      /\ \A c \in Threads : HasRows(c)' => HasRows(c) \/ \E x \in DOMAIN R : x[1] = c
  BY <1>2, <1>3, MoreRows
<1>7. Created \subseteq Threads  BY DEF Created
<1>8. ASSUME ~damaged, NEW u \in j.users PROVE AllSettled(u)'
  <2>1. RightAfter(R, u)  BY <1>1, <1>3, <1>8 DEF Good, WillDo, R
  <2>2. ASSUME NEW c \in Created, HasRows(c)' PROVE Settled(c, u)'
    <3>1. HasRows(c) \/ \E x \in DOMAIN R : x[1] = c  BY <1>6, <1>7, <2>2
    <3>2. Right(R, c, u)  BY <2>1, <3>1 DEF RightAfter
    <3>3. u \in Users  BY <1>4, <1>8
    <3> QED BY <1>1, <1>2, <1>3, <3>2, <3>3, WrittenIsRight
  <2> QED BY <1>6, <2>2 DEF AllSettled
<1>9. ASSUME NEW u \in Users \ j.users
      PROVE  /\ \A a \in Created : row'[a][u] = row[a][u]
             /\ \A c \in Created : HasRows(c)' <=> HasRows(c)
  <2>1. ASSUME NEW a \in Created PROVE row'[a][u] = row[a][u]
    <3>1. <<a, u>>[2] = u  OBVIOUS
    <3>2. <<a, u>> \notin DOMAIN R  BY <1>4, <3>1
    <3> QED BY <1>2, <1>7, <3>2 DEF Write
  <2>2. \A x \in DOMAIN R : HasRows(x[1])  BY <1>4
  <2> QED BY <1>6, <1>7, <2>1, <2>2
<1>10. ASSUME NEW u \in Users \ j.users
       PROVE  /\ AllSettled(u) => AllSettled(u)'
              /\ \A X : RightAfter(X, u) => RightAfter(X, u)'
  <2>1. /\ \A a \in Created : row'[a][u] = row[a][u]
        /\ \A c \in Created : HasRows(c)' <=> HasRows(c)
    BY <1>9
  <2>2. /\ \A c \in Created : Settled(c, u)' <=> Settled(c, u)
        /\ \A X : \A c \in Created : Right(X, c, u)' <=> Right(X, c, u)
    BY <1>1, <1>3, <2>1, SameUser
  <2> QED BY <1>6, <2>1, <2>2 DEF AllSettled, RightAfter
<1>11. ASSUME ~damaged', NEW k \in jobs' PROVE WillDo(k)'
  <2>1. k \in jobs /\ k # j /\ WillDo(k)  BY <1>1, <1>3, <1>11 DEF Good
  <2>2. k.users \subseteq Users /\ k.users # {} /\ k.users \cap j.users = {}
        /\ (k.plan # {} => k.users = Users)
    BY <1>1, <2>1 DEF Orderly, IsOrderly
  <2>3. k.plan = {}  BY <1>4, <2>2
  <2>4. \A u \in k.users : RightAfter(k.rows, u)'
    BY <1>10, <2>1, <2>2, <2>3 DEF WillDo
  <2> QED BY <2>3, <2>4 DEF WillDo
<1>12. ASSUME ~damaged', NEW u \in Users, Idle(u)' PROVE AllSettled(u)'
  <2>1. CASE u \in j.users  BY <1>3, <1>8, <1>12, <2>1
  <2>2. CASE u \notin j.users
    <3>1. Idle(u)  BY <1>3, <1>12, <2>2 DEF Idle
    <3>2. AllSettled(u)  BY <1>1, <1>3, <1>12, <3>1 DEF Good
    <3> QED BY <1>10, <2>2, <3>2
  <2> QED BY <2>1, <2>2
<1>13. Good'  BY <1>11, <1>12 DEF Good
<1> QED BY <1>5, <1>13 DEF Cover

\* A handler that dies leaves to the script what it has not written.
LEMMA DeathCovers ==
  ASSUME Inv, ~misplaced, Cover, NEW j \in jobs, NEW written \in SUBSET DOMAIN j.rows,
         Die(j, written)
  PROVE  Cover'
<1> DEFINE rows == [x \in written |-> j.rows[x]]
<1>1. AreRows(j.rows) /\ Jobs /\ Orderly  BY DEF Inv, Jobs, IsJob, Cover
<1>2. written \subseteq DOMAIN j.rows  OBVIOUS
<1>3. AreRows(rows)  BY <1>1, <1>2 DEF AreRows
<1>4. Write(rows) /\ thread' = thread /\ jobs' \subseteq jobs /\ damaged'
  BY DEF Die
<1> HIDE DEF rows
<1>5. Orderly'  BY <1>1, <1>3, <1>4, StaysOrderly
<1> QED BY <1>4, <1>5 DEF Cover, Good

\* Once the script has been to every thread, all rows are right.
LEMMA RepairCovers ==
  ASSUME Inv, ~misplaced, Cover, Alone, RepairedIsRight, NEW t \in toRecalculate, Repair(t)
  PROVE  Cover'
<1>1. /\ thread' = thread /\ jobs' = jobs /\ toRecalculate' = toRecalculate \ {t}
      /\ damaged' = (toRecalculate' # {}) /\ jobs = {} /\ Created' = Created
  <2>1. ~Recalculate(t).failed
    BY RecalculateIsChangeset DEF IsChangeset, Inv
  <2> QED BY <2>1 DEF Repair, Alone, Created
<1>2. ASSUME ~damaged', NEW u \in Users, NEW c \in Created, HasRows(c)'
      PROVE  Settled(c, u)'
  <2>1. toRecalculate = {t}  BY <1>1, <1>2
  <2>2. c = t \/ (HasRows(c) /\ Settled(c, u))
    <3>1. c # t => HasRows(c)  BY <1>2, RepairIsEnough
    <3> QED BY <2>1, <3>1 DEF RepairedIsRight
  <2> QED BY <2>2, RepairIsEnough
<1>3. Good'  BY <1>1, <1>2 DEF Good, AllSettled
<1>4. Orderly'  BY <1>1 DEF Orderly
<1> QED BY <1>3, <1>4 DEF Cover

\* The thread that is written is the only one whose rows must be looked at.
LEMMA ElsewhereTheSame ==
  ASSUME NEW t, NEW c \in Threads \ {t}, thread'[c] = thread[c], row' = row
  PROVE  /\ HasRows(c)' <=> HasRows(c)
         /\ \A u : Settled(c, u)' <=> Settled(c, u)
<1>1. HasRows(c)' <=> HasRows(c)  BY DEF HasRows
<1>2. Container(c)' = Container(c)  BY DEF Container
<1>3. \A u : FromParent(c, u)' = FromParent(c, u) /\ InContainer(c, u)' = InContainer(c, u)
  BY <1>2 DEF FromParent, InContainer
<1> QED BY <1>1, <1>3 DEF Settled, NewRow, MakePermissionsBlob

\* a created thread has nothing below it
LEMMA CreationCovers ==
  ASSUME Inv, ~misplaced, Cover, NEW t \in Threads, NEW type \in {"open", "secret", "sidebar"},
         NEW parent \in Threads, NEW viewer \in Users, NEW others \in SUBSET Users,
         CreateThread(t, type, parent, viewer, others)
  PROVE  Cover'
<1> DEFINE depth == DepthBelow(parent)
           new == [type |-> type, parent |-> parent, depth |-> depth]
           creator == {viewer}  yes == TRUE
           plan == [thread |-> t, creator |-> creator, added |-> others,
                    recalculate |-> yes]
<1>1. Tree  BY DEF Inv
<1>2. /\ Free(Users) /\ WriteThread(t, new, creator, others, yes)
      /\ t \notin Created /\ parent \in Created
  BY DEF CreateThread, Created
<1>3. thread' = [thread EXCEPT ![t] = new] /\ row' = row  BY <1>2 DEF WriteThread
<1>4. new.type # "none" /\ new.parent = parent  OBVIOUS
<1>5. creator # {} /\ yes  OBVIOUS
<1>6. plan.thread = t /\ plan.creator = creator /\ plan.recalculate = yes  OBVIOUS
<1>7. plan = [thread |-> t, creator |-> creator, added |-> others, recalculate |-> yes]
  OBVIOUS
<1> HIDE DEF depth, new, creator, yes, plan
<1>8. /\ thread'[t] = new
      /\ \A c \in Threads \ {t} : thread'[c] = thread[c]
  BY <1>1, <1>3 DEF Tree
<1>9. Created' = Created \cup {t}
  <2>1. \A c \in Threads : c \in Created' <=> c \in Created \cup {t}
    BY <1>4, <1>8 DEF Created
  <2> QED BY <2>1 DEF Created
<1>10. t # Root  BY <1>1, <1>2 DEF Tree
<1>11. Below(t)' = {}
  <2> SUFFICES ASSUME NEW c \in Created' \ {Root},
                      t = thread'[c].parent \/ t = Container(c)'
               PROVE  FALSE
    BY DEF Below
  <2>1. CASE c = t
    <3>1. thread'[c].parent = parent /\ parent # t  BY <1>2, <1>4, <1>8, <2>1
    <3> QED BY <1>10, <3>1 DEF Container
  <2>2. CASE c # t
    <3>1. c \in Created \ {Root} /\ thread'[c] = thread[c]
      BY <1>8, <1>9, <2>2 DEF Created
    <3>2. thread[c].parent \in Created  BY <1>1, <3>1 DEF Tree
    <3> QED BY <1>2, <1>10, <3>1, <3>2 DEF Container
  <2> QED BY <2>1, <2>2
<1>12. ASSUME ~damaged PROVE PlanOK(plan)'
  <2>1. \A u \in Users : AllSettled(u)
    <3>1. jobs = {}  BY <1>2, NobodyElse DEF Cover
    <3>2. \A u \in Users : Idle(u)  BY <3>1 DEF Idle
    <3> QED BY <1>12, <3>2 DEF Cover, Good
  <2>2. ASSUME NEW c \in Created' \ {t}, HasRows(c)', NEW u \in Users
        PROVE  Settled(c, u)'
    <3>1. c \in Threads \ {t} /\ c \in Created  BY <1>9, <2>2 DEF Created
    <3>2. thread'[c] = thread[c]  BY <1>8, <3>1
    <3>3. /\ HasRows(c)' <=> HasRows(c)
          /\ Settled(c, u)' <=> Settled(c, u)
      BY <1>3, <3>1, <3>2, ElsewhereTheSame
    <3> QED BY <2>1, <2>2, <3>1, <3>3 DEF AllSettled
  <2>3. (plan.thread = t /\ plan.creator = creator /\ plan.recalculate = yes)'
    BY <1>6
  <2>4. \A c \in Created' : HasRows(c)' /\ c # t => \A u \in Users : Settled(c, u)'
    BY <2>2
  <2> QED BY <1>5, <1>6, <1>10, <1>11, <2>4 DEF PlanOK
<1>13. Users # {}  OBVIOUS
<1> QED BY <1>2, <1>7, <1>12, <1>13, PlanCovers

\* Whoever has a permission has a row.
LEMMA HasAndHasRow ==
  ASSUME Table, NEW t \in Threads, NEW u \in Users,
         IsMember(t, u) \/ \E permission : Has(t, u, permission)
  PROVE  HasRows(t)
<1>1. row[t][u].exists
  <2>1. SUFFICES ASSUME ~row[t][u].exists PROVE FALSE
    OBVIOUS
  <2>2. row[t][u].role = Ghost /\ row[t][u].permissions = NoPermissions
    BY <2>1 DEF Table
  <2>3. DOMAIN NoPermissions = {}  BY DEF NoPermissions
  <2> QED BY <2>2, <2>3 DEF IsMember, Has, Lookup, Ghost
<1> QED BY <1>1 DEF HasRows

\* joins, departures, removals and changes of role
LEMMA RequestCovers ==
  ASSUME Inv, ~misplaced, Cover, NEW t \in Threads, NEW u \in Users,
         \/ Join(t, u) \/ Leave(t, u) \/ \E viewer \in Users : Remove(t, u, viewer)
         \/ t = Root /\ \E viewer \in Users, role \in {Members, Admins} :
                            UpdateRole(u, viewer, role)
  PROVE  Cover'
<1>1. Tree /\ Table  BY DEF Inv
<1>2. Members \in Roles /\ Visitor \in Roles /\ Admins \in Roles  BY DEF Roles
<1>3. t \in Created /\ HasRows(t)
  <2>1. IsMember(t, u) \/ Has(t, u, "join_thread")
    BY DEF Join, Leave, Remove, UpdateRole
  <2> QED BY <1>1, <2>1, OnlyCreated, HasAndHasRow
<1>4. PICK role \in Roles, onlyNew \in BOOLEAN :
        /\ Free({u}) /\ Change(ChangeRole(t, {u}, role, onlyNew), u)
        /\ t = Root \/ role # Admins
  <2>1. Members # Admins /\ Visitor # Admins  BY DEF Visitor, Members, Admins
  <2>2. CASE Join(t, u)  BY <1>2, <2>1, <2>2 DEF Join
  <2>3. CASE Leave(t, u)  BY <1>2, <2>1, <2>3 DEF Leave
  <2>4. CASE \E viewer \in Users : Remove(t, u, viewer)
    BY <1>2, <2>1, <2>4 DEF Remove
  <2>5. CASE t = Root /\ \E viewer \in Users, role \in {Members, Admins} :
                            UpdateRole(u, viewer, role)
    BY <1>2, <2>5 DEF UpdateRole
  <2> QED BY <2>2, <2>3, <2>4, <2>5
<1> QED BY <1>3, <1>4, ChangeCovers

\* A thread that is moved or becomes another type has granted nothing to
\* those without a role in it; where only users are added, all stays right.
LEMMA UpdateCovers ==
  ASSUME Inv, ~misplaced, Cover, NEW t \in Threads,
         NEW type \in {"community", "open", "secret", "sidebar"},
         NEW parent \in Threads, NEW viewer \in Users, NEW added \in SUBSET Users,
         UpdateThread(t, type, parent, viewer, added), Created' = Created
  PROVE  Cover'
<1> DEFINE depth == IF t = Root THEN 0 ELSE DepthBelow(parent)
           new == [type |-> type, parent |-> parent, depth |-> depth]
           creator == {}
<1>1. Tree /\ Table  BY DEF Inv
<1>2. PICK recalculate \in BOOLEAN :
        recalculate = (type # thread[t].type \/ parent # thread[t].parent)
  OBVIOUS
<1> DEFINE plan == [thread |-> t, creator |-> creator, added |-> added,
                    recalculate |-> recalculate]
<1>3. /\ Free(Users) /\ WriteThread(t, new, creator, added, recalculate)
      /\ t \in Created
  BY <1>2 DEF UpdateThread
<1>4. thread' = [thread EXCEPT ![t] = new] /\ row' = row  BY <1>3 DEF WriteThread
<1>5. new.type = type /\ new.parent = parent  OBVIOUS
<1>6. plan.thread = t /\ plan.creator = creator /\ plan.recalculate = recalculate
  OBVIOUS
<1>7. plan = [thread |-> t, creator |-> creator, added |-> added,
              recalculate |-> recalculate]
  OBVIOUS
<1>8. creator = {}  OBVIOUS
<1> HIDE DEF depth, new, creator, plan
<1>9. /\ thread'[t] = new
      /\ \A c \in Threads \ {t} : thread'[c] = thread[c]
  BY <1>1, <1>4 DEF Tree
<1>10. HasRows(t) /\ (recalculate => t # Root)
  <2>1. CASE recalculate
    <3>1. Has(t, viewer, "edit_permissions")  BY <1>2, <2>1 DEF UpdateThread
    <3>2. ~Has(Root, viewer, "edit_permissions")
      BY <1>1 DEF Has, Lookup, Table, IsRow, Fits, EditRoot, Tree, Created
    <3> QED BY <1>1, <3>1, <3>2, HasAndHasRow
  <2>2. CASE ~recalculate
    <3>1. \E permission : Has(t, viewer, permission)  BY <1>2, <2>2 DEF UpdateThread
    <3> QED BY <1>1, <2>2, <3>1, HasAndHasRow
  <2> QED BY <2>1, <2>2
<1>11. \A c : HasRows(c)' <=> HasRows(c)  BY <1>4 DEF HasRows
<1>12. ASSUME ~damaged PROVE PlanOK(plan)'
  <2>1. \A u \in Users : AllSettled(u)
    <3>1. jobs = {}  BY <1>3, NobodyElse DEF Cover
    <3>2. \A u \in Users : Idle(u)  BY <3>1 DEF Idle
    <3> QED BY <1>12, <3>2 DEF Cover, Good
  <2>2. ASSUME NEW c \in Created, HasRows(c), c # t \/ ~recalculate, NEW u \in Users
        PROVE  Settled(c, u)'
    <3>1. Settled(c, u) /\ c \in Threads  BY <2>1, <2>2 DEF AllSettled, Created
    <3>2. CASE c # t
      <4>1. c \in Threads \ {t} /\ thread'[c] = thread[c]  BY <1>9, <3>1, <3>2
      <4> QED BY <1>4, <3>1, <4>1, ElsewhereTheSame
    <3>3. CASE c = t
      <4>1. thread'[c].type = thread[c].type /\ thread'[c].parent = thread[c].parent
        BY <1>5, <1>2, <1>9, <2>2, <3>3
      <4>2. Container(c)' = Container(c)  BY <4>1 DEF Container
      <4>3. FromParent(c, u)' = FromParent(c, u) /\ InContainer(c, u)' = InContainer(c, u)
        BY <1>4, <4>1, <4>2 DEF FromParent, InContainer
      <4> QED BY <1>4, <3>1, <4>1, <4>3 DEF Settled, NewRow, MakePermissionsBlob
    <3> QED BY <3>2, <3>3
  <2>3. ASSUME recalculate, NEW u \in Users, row[t][u].role <= 0
        PROVE  NoSource(t, u)'
    <3>1. t \in Created \ {Root}  BY <1>3, <1>10, <2>3
    <3>2. \A c \in Created : HasRows(c) => Settled(c, u)  BY <2>1 DEF AllSettled
    <3>3. NoSource(t, u)  BY <1>1, <2>3, <3>1, <3>2, RightHasNoSource
    <3> QED BY <1>4, <3>3 DEF NoSource
  <2>4. \A c \in Created' : HasRows(c)' /\ (c # t \/ ~recalculate) =>
          \A u \in Users : Settled(c, u)'
    BY <1>11, <2>2
  <2> QED BY <1>4, <1>6, <1>8, <1>10, <1>11, <2>3, <2>4 DEF PlanOK
<1>13. Users # {}  OBVIOUS
<1> QED BY <1>3, <1>7, <1>12, <1>13, PlanCovers

\* Nothing changes that the rows depend on.
LEMMA SameCovers ==
  ASSUME Cover, thread' = thread, row' = row, jobs' = jobs, damaged' = damaged
  PROVE  Cover'
<1>1. /\ \A u : AllSettled(u)' <=> AllSettled(u)
      /\ \A j : IsOrderly(j)' <=> IsOrderly(j)
      /\ \A j : WillDo(j)' <=> WillDo(j)
  BY NothingMoves
<1>2. \A u : Idle(u)' <=> Idle(u)  BY DEF Idle
<1> QED BY <1>1, <1>2 DEF Cover, Orderly, Good

\* An update neither creates a thread nor takes one away.
LEMMA UpdateKeepsCreated ==
  ASSUME Tree, ~misplaced, NEW t \in Threads,
         NEW type \in {"community", "open", "secret", "sidebar"},
         NEW parent, NEW viewer, NEW added, UpdateThread(t, type, parent, viewer, added)
  PROVE  Created' = Created
<1> DEFINE depth == IF t = Root THEN 0 ELSE DepthBelow(parent)
           new == [type |-> type, parent |-> parent, depth |-> depth]
           other == type # thread[t].type \/ parent # thread[t].parent
<1>1. t \in Created /\ WriteThread(t, new, {}, added, other)
  BY DEF UpdateThread
<1>2. thread' = [thread EXCEPT ![t] = new]  BY <1>1 DEF WriteThread
<1>3. new.type # "none"  OBVIOUS
<1> HIDE DEF new
<1>4. /\ thread'[t] = new
      /\ \A c \in Threads \ {t} : thread'[c] = thread[c]
  BY <1>2 DEF Tree
<1>5. \A c \in Threads : c \in Created' <=> c \in Created
  BY <1>1, <1>3, <1>4 DEF Created
<1> QED BY <1>5 DEF Created

\* The rows of the community's root, as roles grant them, are right.
LEMMA RootRowIsRight ==
  ASSUME thread[Root].type = "community", NEW u
  PROVE  LET new == NewRow(Root, FirstRole(u), TRUE, NoPermissions)
         IN new.role = FirstRole(u) /\ new.permissions = RootBlob(u)
<1> DEFINE role == FirstRole(u)
           keys == RolePermissions("community", role)
           some == [k \in keys |-> Root]
           none == NoPermissions
           blob == WithRole(Inherited(none, "community"), keys, Root)
<1>1. NewRow(Root, role, TRUE, none) = RowOf(role, blob)
  BY DEF NewRow, MakePermissionsBlob
<1>2. KnowOf \in keys
  BY DEF FirstRole, RolePermissions, Members, Admins, MemberPermissions, AdminPermissions
<1>3. ~(role <= 0)  BY DEF FirstRole, Members, Admins
<1>4. Inherited(none, "community") = none  BY DEF Inherited, NoPermissions
<1>5. some = RootBlob(u) /\ DOMAIN some = keys /\ DOMAIN none = {}
  BY DEF RootBlob, NoPermissions
<1>6. IsFunction(some)  BY DEF IsFunction
<1> HIDE DEF role, keys, none
<1>7. blob = Over(some, none)  BY <1>2, <1>4 DEF WithRole
<1> HIDE DEF some
<1>8. Over(some, none) = some
  <2>1. some # << >>
    <3>1. DOMAIN << >> = {}  OBVIOUS
    <3> QED BY <1>2, <1>5, <3>1
  <2>2. Over(some, none) = [x \in DOMAIN some |-> some[x]]
    BY <1>5, <2>1 DEF Over
  <2> QED BY <1>6, <2>2 DEF IsFunction
<1> HIDE DEF blob
<1>9. Lookup(blob, "know_of")
  BY <1>2, <1>5, <1>7, <1>8 DEF Lookup, KnowOf
<1>10. RowOf(role, blob).role = role /\ RowOf(role, blob).permissions = blob
  BY <1>3, <1>9 DEF RowOf, RoleForPermissions
<1> QED BY <1>1, <1>5, <1>7, <1>8, <1>10 DEF role, none

\* The rows of the first channel are right, there or not.
LEMMA FirstRowIsRight ==
  ASSUME thread[First].type # "sidebar", NEW u
  PROVE  LET from == PermissionsForChildren(RootBlob(u))
         IN Unchanged(FirstRow(u), NewRow(First, FirstRow(u).role, TRUE, from))
<1> DEFINE from == PermissionsForChildren(RootBlob(u))
           role == IF u = Founder THEN Members ELSE Ghost
           yes == TRUE
           new == NewRow(First, role, yes, from)
<1>1. FirstRow(u) = IF new.permissions = NoPermissions THEN NoRow ELSE new
  BY DEF FirstRow
<1>2. role \in Roles /\ yes \in BOOLEAN
  BY DEF Roles, Members, Ghost
<1>3. role = IF u = Founder THEN Members ELSE Ghost  OBVIOUS
<1>4. new = NewRow(First, role, yes, from)  OBVIOUS
<1>5. yes = TRUE  OBVIOUS
<1> HIDE DEF from, role, yes, new
<1>6. NewRow(First, new.role, yes, from) = new  BY <1>2, <1>4, AgainTheSame
<1>7. CASE new.permissions # NoPermissions
  BY <1>1, <1>5, <1>6, <1>7 DEF Unchanged, from
<1>8. CASE new.permissions = NoPermissions
  <2>1. DOMAIN new.permissions = {}  BY <1>8 DEF NoPermissions
  <2>2. role # Members
    <3> SUFFICES ASSUME role = Members PROVE FALSE
      OBVIOUS
    <3>1. role > 0  BY DEF Members
    <3>2. new = NewRow(First, role, TRUE, from)  BY <1>4, <1>5
    <3>3. KnowsBelow(new.permissions)  BY <1>2, <3>1, <3>2, RoleIsKept
    <3> QED BY <2>1, <3>3 DEF KnowsBelow
  <2>3. role = Ghost  BY <1>3, <2>2
  <2>4. FirstRow(u) = NoRow  BY <1>1, <1>8
  <2>5. new.role = Ghost
    <3>1. \E b : new = RowOf(Ghost, b)  BY <1>4, <2>3 DEF NewRow
    <3>2. PICK blob : new = RowOf(Ghost, blob)  BY <3>1
    <3>3. new.role = RoleForPermissions(Ghost, blob) /\ new.permissions = blob
      BY <3>2 DEF RowOf
    <3>4. ~Lookup(blob, "know_of")  BY <2>1, <3>3 DEF Lookup
    <3> QED BY <3>3, <3>4 DEF RoleForPermissions
  <2>6. NoRow.role = Ghost /\ NoRow.permissions = NoPermissions  BY DEF NoRow
  <2> QED BY <1>4, <1>5, <1>8, <2>3, <2>4, <2>5, <2>6 DEF Unchanged, from
<1> QED BY <1>7, <1>8

\* All rows are right at first.
LEMMA CoversAtFirst == Init => Cover
<1> SUFFICES ASSUME Init PROVE Cover
  OBVIOUS
<1>1. jobs = {} /\ Tree
  <2>1. Inv  BY StartsRight
  <2> QED BY <2>1 DEF Init, Inv
<1>2. PICK type \in {"open", "secret"} :
        thread = [t \in Threads |->
                   CASE t = Root  -> [NoThread EXCEPT !.type = "community"]
                     [] t = First -> [type |-> type, parent |-> Root, depth |-> 1]
                     [] OTHER     -> NoThread]
  BY DEF Init
<1>3. Root \in Threads /\ First \in Threads /\ Root # First
  BY CommunityAssumption DEF Threads
<1>4. /\ thread[Root].type = "community"
      /\ thread[First].type # "sidebar" /\ thread[First].parent = Root
      /\ \A t \in Threads \ {Root, First} : thread[t].type = "none"
  <2> DEFINE new == [type |-> type, parent |-> Root, depth |-> 1]
             root == [NoThread EXCEPT !.type = "community"]
  <2>1. root.type = "community" /\ NoThread.type = "none"  BY DEF NoThread
  <2>2. new.type # "sidebar" /\ new.parent = Root  OBVIOUS
  <2>3. /\ thread[Root] = root /\ thread[First] = new
        /\ \A t \in Threads \ {Root, First} : thread[t] = NoThread
    BY <1>2, <1>3
  <2> HIDE DEF new, root
  <2> QED BY <2>1, <2>2, <2>3
<1>5. \A c \in Created : c = Root \/ c = First  BY <1>4 DEF Created
<1>6. ASSUME NEW u \in Users
      PROVE  /\ row[Root][u].role = FirstRole(u) /\ row[Root][u].permissions = RootBlob(u)
             /\ row[First][u] = FirstRow(u)
  <2>1. ASSUME NEW t \in Threads
        PROVE  row[t][u] = (CASE t = Root  -> [role |-> FirstRole(u),
                                              permissions |-> RootBlob(u), exists |-> TRUE]
                              [] t = First -> FirstRow(u)
                              [] OTHER     -> NoRow)
    BY DEF Init
  <2>2. row[Root][u] = [role |-> FirstRole(u), permissions |-> RootBlob(u), exists |-> TRUE]
    BY <1>3, <2>1
  <2>3. row[First][u] = FirstRow(u)  BY <1>3, <2>1
  <2> QED BY <2>2, <2>3
<1>7. ASSUME NEW u \in Users PROVE Settled(Root, u)
  <2>1. FromParent(Root, u) = NoPermissions /\ InContainer(Root, u) = TRUE
    BY DEF FromParent, InContainer
  <2> DEFINE new == NewRow(Root, FirstRole(u), TRUE, NoPermissions)
  <2>2. new.role = FirstRole(u) /\ new.permissions = RootBlob(u)
    BY <1>4, RootRowIsRight
  <2>3. NewRow(Root, row[Root][u].role, InContainer(Root, u), FromParent(Root, u)) = new
    BY <1>6, <2>1
  <2> HIDE DEF new
  <2> QED BY <1>6, <2>2, <2>3 DEF Settled, Unchanged
<1>8. ASSUME NEW u \in Users PROVE Settled(First, u)
  <2>1. FirstRole(u) > 0  BY DEF FirstRole, Members, Admins
  <2>2. InContainer(First, u) = TRUE
    BY <1>4, <1>6, <2>1 DEF InContainer, Container
  <2> DEFINE from == PermissionsForChildren(RootBlob(u))
  <2>3. FromParent(First, u) = from  BY <1>3, <1>4, <1>6 DEF FromParent
  <2>4. Unchanged(FirstRow(u), NewRow(First, FirstRow(u).role, TRUE, from))
    BY <1>4, FirstRowIsRight
  <2> HIDE DEF from
  <2> QED BY <1>6, <2>2, <2>3, <2>4 DEF Settled
<1>9. \A u \in Users : AllSettled(u)  BY <1>5, <1>7, <1>8 DEF AllSettled
<1> QED BY <1>1, <1>9 DEF Cover, Orderly, Good

\* What has been misplaced is never put right.
LEMMA StaysMisplaced == misplaced /\ [Next]_vars => misplaced'
<1>1. \A c, u : Change(c, u) => misplaced' = misplaced
  BY DEF Change
<1>2. \A t, u, v, r : \/ Join(t, u) \/ Leave(t, u) \/ Remove(t, u, v)
                      \/ UpdateRole(u, v, r)
        => misplaced' = misplaced
  BY <1>1 DEF Join, Leave, Remove, UpdateRole
<1>3. \A t, type, p, v, others : CreateThread(t, type, p, v, others)
        => misplaced' = misplaced
  BY DEF CreateThread
<1>4. ASSUME NEW t, NEW type, NEW p, NEW v, NEW others,
             UpdateThread(t, type, p, v, others), misplaced
      PROVE  misplaced'
  <2> DEFINE moved == thread'[t].depth # thread[t].depth /\ HasChildren(t)'
  <2>1. misplaced' = (misplaced \/ moved)  BY <1>4 DEF UpdateThread
  <2> HIDE DEF moved
  <2> QED BY <1>4, <2>1
<1>5. \A j, w : Compute(j) \/ Commit(j) \/ Die(j, w) => misplaced' = misplaced
  BY DEF Compute, Commit, Die
<1>6. \A t : StartRepair \/ Repair(t) => misplaced' = misplaced
  BY DEF StartRepair, Repair
<1>7. UNCHANGED vars => misplaced' = misplaced
  BY DEF vars
<1> QED BY <1>2, <1>3, <1>4, <1>5, <1>6, <1>7 DEF Next

\* Every step keeps it.
LEMMA StaysCovered ==
  Inv /\ Inv' /\ (Alone /\ RepairedIsRight) /\ (misplaced \/ Cover) /\ [Next]_vars
    => (misplaced \/ Cover)'
<1> SUFFICES ASSUME Inv, Inv', Alone, RepairedIsRight, misplaced \/ Cover,
                    [Next]_vars, ~misplaced'
             PROVE  Cover'
  OBVIOUS
<1>0. ~misplaced /\ Cover  BY StaysMisplaced
<1>1. ASSUME NEW t \in Threads, NEW u \in Users,
             Join(t, u) \/ Leave(t, u) \/ \E viewer \in Users : Remove(t, u, viewer)
      PROVE  Cover'
  BY <1>0, <1>1, RequestCovers
<1>2. ASSUME NEW u \in Users, NEW viewer \in Users, NEW role \in {Members, Admins},
             UpdateRole(u, viewer, role)
      PROVE  Cover'
  <2> DEFINE t == Root
  <2>1. t \in Threads /\ t = Root  BY DEF Threads
  <2> HIDE DEF t
  <2> QED BY <1>0, <1>2, <2>1, RequestCovers
<1>3. ASSUME NEW t \in Threads, NEW parent \in Threads, NEW viewer \in Users,
             NEW others \in SUBSET Users, NEW type \in {"open", "secret", "sidebar"},
             CreateThread(t, type, parent, viewer, others)
      PROVE  Cover'
  BY <1>0, <1>3, CreationCovers
<1>4. ASSUME NEW t \in Threads, NEW parent \in Threads, NEW viewer \in Users,
             NEW others \in SUBSET Users,
             NEW type \in {"community", "open", "secret", "sidebar"},
             UpdateThread(t, type, parent, viewer, others)
      PROVE  Cover'
  <2>1. Tree  BY DEF Inv
  <2>2. Created' = Created  BY <1>0, <1>4, <2>1, UpdateKeepsCreated
  <2> QED BY <1>0, <1>4, <2>2, UpdateCovers
<1>5. ASSUME NEW j \in jobs, Compute(j) PROVE Cover'
  BY <1>0, <1>5, ComputeCovers
<1>6. ASSUME NEW j \in jobs, Commit(j) PROVE Cover'
  BY <1>0, <1>6, CommitCovers
<1>7. ASSUME NEW j \in jobs, NEW written \in SUBSET DOMAIN j.rows,
             Die(j, written)
      PROVE  Cover'
  BY <1>0, <1>7, DeathCovers
<1>8. CASE StartRepair
  <2>1. thread' = thread /\ row' = row /\ jobs' = jobs /\ damaged' = damaged
    BY <1>8 DEF StartRepair
  <2> QED BY <1>0, <2>1, SameCovers
<1>9. ASSUME NEW t \in toRecalculate, Repair(t) PROVE Cover'
  BY <1>0, <1>9, RepairCovers
<1>10. CASE UNCHANGED vars
  <2>1. thread' = thread /\ row' = row /\ jobs' = jobs /\ damaged' = damaged
    BY <1>10 DEF vars
  <2> QED BY <1>0, <2>1, SameCovers
<1>11. ASSUME NEW j \in jobs, NEW saved \in Batches(Saves(j.rows)),
             NEW deleted \in Batches(Deletes(j.rows)), Die(j, saved \cup deleted)
      PROVE  Cover'
  <2> DEFINE written == saved \cup deleted
  <2>1. written \in SUBSET DOMAIN j.rows  BY BatchesAreRows
  <2>2. Die(j, written)  BY <1>11
  <2> HIDE DEF written
  <2> QED BY <1>7, <2>1, <2>2
<1> QED BY <1>0, <1>1, <1>2, <1>3, <1>4, <1>5, <1>6, <1>11, <1>8, <1>9, <1>10 DEF Next

\* At rest every row is right.
LEMMA CoveredIsConsistent == Cover => Consistent
BY DEF Cover, Good, Idle, AllSettled, Consistent, AtRest

-----------------------------------------------------------------------------
(* Who is admitted.                                                        *)

\* Where all rows are right, the blobs of the table are those of a tree.
LEMMA SettledBlobs ==
  ASSUME Tree, ~misplaced, Table, NEW u \in Users, \A c \in Created : HasRows(c) => Settled(c, u)
  PROVE  \A c \in Created : IsTreeBlob(row[c][u].permissions)
<1> DEFINE none == NoRows
<1>1. DOMAIN none = {} /\ AreRows(none)  BY DEF NoRows, AreRows
<1>2. \A c \in Created : HasRows(c) => Right(none, c, u)  BY RightOfTable
<1> HIDE DEF none
<1>3. \A c : /\ At(none, c, u) = row[c][u]
             /\ Right(none, c, u) <=> Kept(none, c, u)
  BY <1>1, TableSays DEF Right, Kept
<1>4. Follows(none, Root, u)
  <2>1. ASSUME NEW c \in Created, HasRows(c)
        PROVE  Right(NoRows, c, u) /\ Kept(none, c, u)
    BY <1>2, <1>3, <2>1, RightOfTable
  <2> QED BY <1>3, <2>1 DEF Follows
<1>5. Root \in Created  BY DEF Tree
<1>6. Derived(none, Root, u)
  <2>1. /\ row[Root][u].role = Admins => Root = Root
        /\ ~HasRows(Root) => row[Root][u].permissions = NoPermissions
    BY <1>5, NoRowNothing
  <2>2. HasRows(Root) => Kept(none, Root, u)  BY <1>2, <1>3, <1>5
  <2> QED BY <1>3, <2>1, <2>2 DEF Derived, Kept, Unchanged
<1>7. \A c \in Created : IsTreeBlob(At(none, c, u).permissions)
  BY <1>1, <1>4, <1>5, <1>6, TreeBlobs
<1> QED BY <1>3, <1>7

\* the keys of knowing of threads
LEMMA KnowKeys ==
  /\ KnowOf[1] = "" /\ KnowOf[2] = "" /\ KnowOf[3] = "know_of"
  /\ OpenKnow[1] = "descendant" /\ OpenKnow[2] = "open" /\ OpenKnow[3] = "know_of"
  /\ AllKnow[1] = "descendant" /\ AllKnow[2] = "" /\ AllKnow[3] = "know_of"
  /\ KnowOf # OpenKnow /\ KnowOf # AllKnow /\ OpenKnow # AllKnow
<1>1. /\ KnowOf[1] = "" /\ KnowOf[2] = "" /\ KnowOf[3] = "know_of"
      /\ OpenKnow[1] = "descendant" /\ OpenKnow[2] = "open" /\ OpenKnow[3] = "know_of"
      /\ AllKnow[1] = "descendant" /\ AllKnow[2] = "" /\ AllKnow[3] = "know_of"
  BY DEF KnowOf, OpenKnow, AllKnow
<1> QED BY <1>1

\* a member of a channel or community lets on what is open below it
Opens(c, u) == IsMember(c, u) /\ thread[c].type # "sidebar"

\* what is open for who knows of the thread above
PassesOn(c) == thread[c].type \in {"open", "sidebar"}

\* Members know of a thread that is no sidebar, and of what is open below it.
LEMMA MembersOpen ==
  ASSUME NEW type, NEW role \in Roles, role # Admins
  PROVE  /\ AllKnow \notin RolePermissions(type, role)
         /\ \A k \in {KnowOf, OpenKnow} :
              k \in RolePermissions(type, role) <=> role > 0 /\ type # "sidebar"
<1>1. CASE role = Members
  <2>1. RolePermissions(type, role) = MemberPermissions(type)
    BY <1>1 DEF RolePermissions
  <2>2. role > 0  BY <1>1 DEF Members
  <2>3. OpenKnow \in OpenToDescendants /\ AllKnow \notin OpenToDescendants
    BY KnowKeys DEF OpenToDescendants, OpenKnow, AllKnow
  <2>4. CASE type = "sidebar"
    <3>1. MemberPermissions(type) = {<<"", "", "edit_permissions">>}
      BY <2>4 DEF MemberPermissions
    <3>2. <<"", "", "edit_permissions">>[3] = "edit_permissions"  OBVIOUS
    <3>3. \A k \in {KnowOf, OpenKnow, AllKnow} : k # <<"", "", "edit_permissions">>
      BY <3>2, KnowKeys
    <3> QED BY <2>1, <2>4, <3>1, <3>3
  <2>5. CASE type # "sidebar"
    <3>1. MemberPermissions(type) \subseteq
            {KnowOf, <<"", "", "create">>, <<"", "", "edit_permissions">>} \cup OpenToDescendants
          /\ {KnowOf} \cup OpenToDescendants \subseteq MemberPermissions(type)
      BY <2>5, ZenonT(30) DEF MemberPermissions
    <3>2. /\ <<"", "", "edit_permissions">>[3] = "edit_permissions"
          /\ <<"", "", "create">>[3] = "create"
      OBVIOUS
    <3>3. AllKnow \notin {KnowOf, <<"", "", "create">>, <<"", "", "edit_permissions">>}
      BY <3>2, KnowKeys
    <3> QED BY <2>1, <2>2, <2>3, <2>5, <3>1, <3>3
  <2> QED BY <2>4, <2>5
<1>2. CASE role # Members
  <2>1. RolePermissions(type, role) = {}  BY <1>2 DEF RolePermissions
  <2>2. ~(role > 0)  BY <1>2 DEF Roles, Ghost, Visitor, Members, Admins
  <2> QED BY <2>1, <2>2
<1> QED BY <1>1, <1>2

\* A child inherits knowing of all, and knowing of what is open if it is open.
LEMMA KnowledgeInherited ==
  ASSUME NEW blob, IsTreeBlob(blob), NEW type,
         NEW got, got = Inherited(PermissionsForChildren(blob), type)
  PROVE  /\ AllKnow \in DOMAIN got <=> AllKnow \in DOMAIN blob
         /\ OpenKnow \in DOMAIN got
              <=> OpenKnow \in DOMAIN blob /\ type \in {"open", "sidebar"}
         /\ KnowOf \in DOMAIN got <=> KnowsBelow(got)
<1>1. Inherits(got, blob, type)  BY TreeBlobHandsOn, InheritedIs
<1>2. \A k : Propagates(k) /\ k[1] = "descendant" =>
        (k \in DOMAIN got <=> k \in Passing(blob, type))
  <2>1. ASSUME NEW k, k[1] = "descendant", k \in DOMAIN got
        PROVE  k \in Passing(blob, type)
    <3>1. PICK j \in Passing(blob, type) :
            k = <<"", "", j[3]>> \/ (k = j /\ j[1] = "descendant")
      BY <1>1, <2>1 DEF Inherits
    <3>2. <<"", "", j[3]>>[1] = ""  OBVIOUS
    <3> QED BY <2>1, <3>1, <3>2
  <2>2. ASSUME NEW k, k[1] = "descendant", k \in Passing(blob, type)
        PROVE  k \in DOMAIN got
    BY <1>1, <2>2 DEF Inherits
  <2> QED BY <2>1, <2>2
<1>3. Propagates(AllKnow) /\ Propagates(OpenKnow)  BY KnowKeys DEF Propagates
<1>4. AllKnow \in Passing(blob, type) <=> AllKnow \in DOMAIN blob
  BY <1>3, KnowKeys DEF Passing, Included
<1>5. OpenKnow \in Passing(blob, type)
        <=> OpenKnow \in DOMAIN blob /\ type \in {"open", "sidebar"}
  BY <1>3, KnowKeys DEF Passing, Included
<1>6. \A k \in {AllKnow, OpenKnow} : k \in DOMAIN got <=> k \in Passing(blob, type)
  BY <1>2, <1>3, KnowKeys
<1>7. ASSUME KnowOf \in DOMAIN got PROVE KnowsBelow(got)
  <2>1. PICK k \in Passing(blob, type) :
          KnowOf = <<"", "", k[3]>> \/ (KnowOf = k /\ k[1] = "descendant")
    BY <1>1, <1>7 DEF Inherits
  <2>2. k[3] = "know_of"
    <3>1. <<"", "", k[3]>>[3] = k[3]  OBVIOUS
    <3> QED BY <2>1, <3>1, KnowKeys
  <2>3. k \in Handed  BY DEF Passing, IsTreeBlob, Single
  <2>4. k = OpenKnow \/ k = AllKnow
    <3>1. \A j \in OpenToDescendants : j[3] = "know_of" => j = OpenKnow
      BY DEF OpenToDescendants, OpenKnow
    <3>2. \A j \in AdminPermissions : j[3] = "know_of" /\ Propagates(j) => j = AllKnow
      <4>1. ~Propagates(KnowOf)  BY KnowKeys DEF Propagates
      <4>2. /\ <<"", "", "create">>[3] # "know_of"
            /\ <<"child", "", "join_thread">>[3] # "know_of"
            /\ <<"descendant", "toplevel", "join_thread">>[3] # "know_of"
            /\ <<"descendant", "toplevel", "create">>[3] # "know_of"
            /\ <<"descendant", "", "edit_permissions">>[3] # "know_of"
        OBVIOUS
      <4>3. AdminPermissions =
              {KnowOf, AllKnow, <<"", "", "create">>, <<"child", "", "join_thread">>,
               <<"descendant", "toplevel", "join_thread">>,
               <<"descendant", "toplevel", "create">>,
               <<"descendant", "", "edit_permissions">>}
        BY DEF AdminPermissions, AllKnow
      <4> QED BY <4>1, <4>2, <4>3, Zenon
    <3> QED BY <2>2, <2>3, <3>1, <3>2 DEF Handed
  <2> QED BY <1>6, <2>4 DEF KnowsBelow
<1>8. ASSUME KnowsBelow(got) PROVE KnowOf \in DOMAIN got
  <2>1. PICK k \in {OpenKnow, AllKnow} : k \in DOMAIN got  BY <1>8 DEF KnowsBelow
  <2>2. k \in Passing(blob, type)  BY <1>6, <2>1
  <2>3. <<"", "", k[3]>> = KnowOf  BY KnowKeys DEF KnowOf
  <2> QED BY <1>1, <2>2, <2>3 DEF Inherits
<1> QED BY <1>4, <1>5, <1>6, <1>7, <1>8

\* Who knows of the root: those with a role.
LEMMA RootKnows ==
  ASSUME Tree, ~misplaced, Table, NEW u \in Users, Settled(Root, u)
  PROVE  LET keys == DOMAIN row[Root][u].permissions
         IN /\ AllKnow \in keys <=> row[Root][u].role = Admins
            /\ row[Root][u].role # Admins => (OpenKnow \in keys <=> Opens(Root, u))
            /\ KnowOf \in keys <=> AllKnow \in keys \/ OpenKnow \in keys
<1> DEFINE role == row[Root][u].role  none == NoPermissions  yes == TRUE
           mine == RolePermissions(thread[Root].type, role)
           got == Inherited(none, thread[Root].type)
           blob == WithRole(got, mine, Root)
           keys == DOMAIN row[Root][u].permissions
<1>1. Root \in Created /\ thread[Root].type = "community"  BY DEF Tree
<1>2. role \in Roles  BY <1>1, NoRowNothing
<1>3. FromParent(Root, u) = none /\ InContainer(Root, u) = yes
  BY DEF FromParent, InContainer
<1>4. row[Root][u].permissions = blob
  <2>1. row[Root][u].permissions = NewRow(Root, role, yes, none).permissions
    BY <1>3 DEF Settled, Unchanged
  <2>2. NewRow(Root, role, yes, none).permissions
          = WithRole(Inherited(none, thread[Root].type),
                     IF yes THEN RolePermissions(thread[Root].type, role) ELSE {}, Root)
    BY PermissionsOf
  <2> QED BY <2>1, <2>2
<1>5. DOMAIN got = {}  BY DEF Inherited, NoPermissions
<1>6. Opens(Root, u) <=> role > 0  BY <1>1 DEF Opens, IsMember
<1>7. CASE role = Admins
  <2>1. mine = AdminPermissions  BY <1>7 DEF RolePermissions, Members, Admins
  <2>2. KnowOf \in mine /\ AllKnow \in mine  BY <2>1 DEF AdminPermissions, AllKnow
  <2> HIDE DEF mine, got
  <2>3. Plus(blob, got, mine, Root)  BY <2>2, WithRoleIs
  <2> HIDE DEF blob
  <2> QED BY <1>4, <1>7, <2>2, <2>3 DEF Plus
<1>8. CASE role # Admins
  <2>1. /\ AllKnow \notin mine
        /\ \A k \in {KnowOf, OpenKnow} : k \in mine <=> role > 0
    BY <1>1, <1>2, <1>8, MembersOpen
  <2> HIDE DEF mine, got
  <2>2. CASE role > 0
    <3>1. Plus(blob, got, mine, Root)  BY <2>1, <2>2, WithRoleIs
    <3> HIDE DEF blob
    <3> QED BY <1>4, <1>5, <1>6, <1>8, <2>1, <2>2, <3>1 DEF Plus
  <2>3. CASE ~(role > 0)
    <3>1. blob = got  BY <1>5, <2>1, <2>3 DEF WithRole
    <3> HIDE DEF blob
    <3> QED BY <1>4, <1>5, <1>6, <1>8, <2>3, <3>1
  <2> QED BY <2>2, <2>3
<1> QED BY <1>7, <1>8

\* Who knows of another thread: its members, if it is no sidebar, and those
\* for whom the thread above is open to it.
LEMMA ChildKnows ==
  ASSUME Tree, ~misplaced, Table, NEW c \in Created \ {Root}, NEW u \in Users, Settled(c, u),
         IsTreeBlob(row[thread[c].parent][u].permissions)
  PROVE  LET keys  == DOMAIN row[c][u].permissions
             above == DOMAIN row[thread[c].parent][u].permissions
         IN /\ AllKnow \in keys <=> AllKnow \in above
            /\ OpenKnow \in keys <=> Opens(c, u) \/ (OpenKnow \in above /\ PassesOn(c))
            /\ KnowOf \in keys <=> AllKnow \in keys \/ OpenKnow \in keys
<1> DEFINE role == row[c][u].role  in == InContainer(c, u)  from == FromParent(c, u)
           type == thread[c].type
           parents == row[thread[c].parent][u].permissions
           mine == IF in THEN RolePermissions(type, role) ELSE {}
           got == Inherited(from, type)
           blob == WithRole(got, mine, c)
           keys == DOMAIN row[c][u].permissions
<1>1. role \in Roles /\ role # Admins /\ in \in BOOLEAN
  BY NoRowNothing DEF InContainer
<1>2. /\ row[c][u].permissions = NewRow(c, role, in, from).permissions
      /\ role = NewRow(c, role, in, from).role
  BY DEF Settled, Unchanged
<1>3. row[c][u].permissions = blob
  <2>1. NewRow(c, role, in, from).permissions = blob  BY PermissionsOf
  <2> QED BY <1>2, <2>1
<1>4. got = Inherited(PermissionsForChildren(parents), type)
  BY DEF FromParent
<1>5. /\ AllKnow \in DOMAIN got <=> AllKnow \in DOMAIN parents
      /\ OpenKnow \in DOMAIN got <=> OpenKnow \in DOMAIN parents /\ PassesOn(c)
      /\ KnowOf \in DOMAIN got <=> AllKnow \in DOMAIN got \/ OpenKnow \in DOMAIN got
  <2> HIDE DEF got
  <2> QED BY <1>4, KnowledgeInherited DEF PassesOn, KnowsBelow
<1>6. role > 0 => in
  <2> HIDE DEF role, in, from
  <2> QED BY <1>1, <1>2, MembersKnow
<1>7. /\ AllKnow \notin mine
      /\ \A k \in {KnowOf, OpenKnow} : k \in mine <=> Opens(c, u)
  <2>1. /\ AllKnow \notin RolePermissions(type, role)
        /\ \A k \in {KnowOf, OpenKnow} :
             k \in RolePermissions(type, role) <=> role > 0 /\ type # "sidebar"
    BY <1>1, MembersOpen
  <2> QED BY <1>6, <2>1 DEF Opens, IsMember
<1> HIDE DEF got, mine, parents
<1>8. CASE KnowOf \in mine \/ KnowOf \in DOMAIN got
  <2>1. Plus(blob, got, mine, c)  BY <1>8, WithRoleIs
  <2> HIDE DEF blob
  <2> QED BY <1>3, <1>5, <1>7, <2>1 DEF Plus, parents
<1>9. CASE ~(KnowOf \in mine \/ KnowOf \in DOMAIN got)
  <2>1. blob = got  BY <1>9 DEF WithRole
  <2> HIDE DEF blob
  <2> QED BY <1>3, <1>5, <1>7, <1>9, <2>1 DEF parents
<1> QED BY <1>8, <1>9

\* f leads up from t, to some height or to the greatest
Rises(f, t, height) ==
  f[0] = t /\ \A n \in 1 .. height : f[n] = thread[f[n - 1]].parent

Upwards(f, t) == Rises(f, t, MaxDepth)

\* There is such a way up, to any height.
LEMMA WayUp ==
  ASSUME NEW t, NEW n \in Nat
  PROVE  \E f : Rises(f, t, n)
<1> DEFINE S == {m \in 0 .. n : \E f : Rises(f, t, m)}
<1>1. 0 \in S
  <2> DEFINE f == [i \in {0} |-> t]
  <2>1. f[0] = t /\ 1 .. 0 = {}  OBVIOUS
  <2> HIDE DEF f
  <2> QED BY <2>1 DEF Rises
<1>2. ASSUME NEW m \in 1 .. n, m - 1 \in S PROVE m \in S
  <2>1. PICK f : f[0] = t /\ \A i \in 1 .. (m - 1) : f[i] = thread[f[i - 1]].parent
    BY <1>2 DEF Rises
  <2> DEFINE g == [i \in 0 .. m |-> IF i = m THEN thread[f[m - 1]].parent ELSE f[i]]
  <2>2. g[0] = t  BY <2>1
  <2>3. ASSUME NEW i \in 1 .. m PROVE g[i] = thread[g[i - 1]].parent
    <3>1. g[i - 1] = f[i - 1]  OBVIOUS
    <3>2. CASE i = m  BY <3>1, <3>2
    <3>3. CASE i # m
      <4>1. i \in 1 .. (m - 1) /\ g[i] = f[i]  BY <3>3
      <4> QED BY <2>1, <3>1, <4>1
    <3> QED BY <3>2, <3>3
  <2> HIDE DEF g
  <2>4. Rises(g, t, m)  BY <2>2, <2>3 DEF Rises
  <2> QED BY <2>4
<1> HIDE DEF S
<1>3. n \in S  BY <1>1, <1>2, UpTo
<1> QED BY <1>3 DEF S

\* who is admitted to t, by a way up
AdmittedBy(f, u) ==
  \/ row[Root][u].role = Admins
  \/ \E n \in 0 .. MaxDepth : Opens(f[n], u) /\ \A m \in 0 .. (n - 1) : PassesOn(f[m])

\* Admitted takes such a way.
LEMMA AdmittedIs ==
  ASSUME NEW t, NEW u
  PROVE  \E f : Upwards(f, t) /\ (Admitted(t, u) <=> AdmittedBy(f, u))
<1> DEFINE above[n \in 0 .. MaxDepth] ==
             IF n = 0 THEN t ELSE thread[above[n - 1]].parent
<1>1. Admitted(t, u) <=> AdmittedBy(above, u)
  <2>1. Admitted(t, u) <=>
          \/ row[Root][u].role = Admins
          \/ \E n \in 0 .. MaxDepth :
               /\ IsMember(above[n], u)
               /\ thread[above[n]].type # "sidebar"
               /\ \A m \in 0 .. (n - 1) : thread[above[m]].type \in {"open", "sidebar"}
    BY DEF Admitted
  <2> HIDE DEF above
  <2> QED BY <2>1 DEF AdmittedBy, Opens, PassesOn
<1>2. \E f : f = [n \in 0 .. MaxDepth |-> IF n = 0 THEN t ELSE thread[f[n - 1]].parent]
  <2>1. PICK g : g[0] = t /\ \A n \in 1 .. MaxDepth : g[n] = thread[g[n - 1]].parent
    <3>1. MaxDepth \in Nat  BY BoundsAssumption
    <3> HIDE DEF above
    <3>2. \E g : Rises(g, t, MaxDepth)  BY <3>1, WayUp
    <3> QED BY <3>2 DEF Rises
  <2> DEFINE f == [n \in 0 .. MaxDepth |-> g[n]]
  <2>2. ASSUME NEW n \in 0 .. MaxDepth
        PROVE  f[n] = IF n = 0 THEN t ELSE thread[f[n - 1]].parent
    <3>1. CASE n = 0  BY <2>1, <3>1
    <3>2. CASE n # 0
      <4>1. n \in 1 .. MaxDepth /\ n - 1 \in 0 .. MaxDepth  BY <3>2, BoundsAssumption
      <4>2. f[n - 1] = g[n - 1]  BY <4>1
      <4> QED BY <2>1, <3>2, <4>1, <4>2
    <3> QED BY <3>1, <3>2
  <2>3. f = [n \in 0 .. MaxDepth |-> IF n = 0 THEN t ELSE thread[f[n - 1]].parent]
    BY <2>2
  <2> HIDE DEF f
  <2> QED BY <2>3
<1>3. above = [n \in 0 .. MaxDepth |-> IF n = 0 THEN t ELSE thread[above[n - 1]].parent]
  BY <1>2
<1> HIDE DEF above
<1>4. above[0] = t  BY <1>3, BoundsAssumption
<1>5. ASSUME NEW n \in 1 .. MaxDepth PROVE above[n] = thread[above[n - 1]].parent
  <2>1. n \in 0 .. MaxDepth /\ n # 0  BY BoundsAssumption
  <2> QED BY <1>3, <2>1
<1> QED BY <1>1, <1>4, <1>5 DEF Upwards, Rises

\* what is open from the n-th thread of a way up to the d-th one
Opened(f, u, n, d) ==
  \E k \in n .. d : Opens(f[k], u) /\ \A m \in n .. (k - 1) : PassesOn(f[m])

\* One knows what is open from the thread itself or from those above.
LEMMA OpenedIs ==
  ASSUME NEW f, NEW u, NEW d \in Nat, NEW n \in 0 .. (d - 1)
  PROVE  Opened(f, u, n, d) <=> Opens(f[n], u) \/ (PassesOn(f[n]) /\ Opened(f, u, n + 1, d))
<1>1. ASSUME Opened(f, u, n, d)
      PROVE  Opens(f[n], u) \/ (PassesOn(f[n]) /\ Opened(f, u, n + 1, d))
  <2>1. PICK k \in n .. d : Opens(f[k], u) /\ \A m \in n .. (k - 1) : PassesOn(f[m])
    BY <1>1 DEF Opened
  <2>2. CASE k = n  BY <2>1, <2>2
  <2>3. CASE k # n
    <3>1. k \in (n + 1) .. d /\ n \in n .. (k - 1)  BY <2>3
    <3>2. \A m \in (n + 1) .. (k - 1) : m \in n .. (k - 1)  OBVIOUS
    <3> QED BY <2>1, <3>1, <3>2 DEF Opened
  <2> QED BY <2>2, <2>3
<1>2. ASSUME Opens(f[n], u) PROVE Opened(f, u, n, d)
  <2>1. n \in n .. d /\ n .. (n - 1) = {}  OBVIOUS
  <2> QED BY <1>2, <2>1 DEF Opened
<1>3. ASSUME PassesOn(f[n]), Opened(f, u, n + 1, d) PROVE Opened(f, u, n, d)
  <2>1. PICK k \in (n + 1) .. d :
          Opens(f[k], u) /\ \A m \in (n + 1) .. (k - 1) : PassesOn(f[m])
    BY <1>3 DEF Opened
  <2>2. k \in n .. d  OBVIOUS
  <2>3. \A m \in n .. (k - 1) : m = n \/ m \in (n + 1) .. (k - 1)  OBVIOUS
  <2> QED BY <1>3, <2>1, <2>2, <2>3 DEF Opened
<1> QED BY <1>1, <1>2, <1>3

\* the threads above one there is have rows
Upheld == \A c \in Created \ {Root}, u \in Users : HasRows(thread[c].parent)

\* The way up from a thread ends at the root.
LEMMA WayEnds ==
  ASSUME Tree, ~misplaced, NEW t \in Created, NEW f, Upwards(f, t)
  PROVE  /\ thread[t].depth \in 0 .. MaxDepth /\ f[thread[t].depth] = Root
         /\ \A n \in 0 .. thread[t].depth :
              /\ f[n] \in Created
              /\ f[n] = Root => n = thread[t].depth
<1> DEFINE d == thread[t].depth
           S == {n \in 0 .. d : f[n] \in Created /\ thread[f[n]].depth = d - n}
<1>1. d \in 0 .. MaxDepth  BY DEF Tree, Created
<1>2. /\ Root \in Created /\ thread[Root].depth = 0
      /\ \A c \in Created : thread[c].depth \in Nat
      /\ \A c \in Created \ {Root} :
           /\ thread[c].parent \in Created
           /\ thread[c].depth = thread[thread[c].parent].depth + 1
  BY BoundsAssumption DEF Tree, Created
<1>3. 0 \in S  BY <1>1 DEF Upwards, Rises
<1>4. ASSUME NEW n \in 1 .. d, n - 1 \in S PROVE n \in S
  <2>1. f[n - 1] \in Created /\ thread[f[n - 1]].depth = d - (n - 1)  BY <1>4
  <2>2. f[n - 1] # Root  BY <1>1, <1>2, <2>1
  <2>3. f[n] = thread[f[n - 1]].parent  BY <1>1, BoundsAssumption DEF Upwards, Rises
  <2>4. f[n] \in Created /\ thread[f[n]].depth + 1 = d - (n - 1)
    BY <1>2, <2>1, <2>2, <2>3
  <2>5. thread[f[n]].depth \in Nat /\ d \in Nat  BY <1>1, <1>2, <2>4
  <2> QED BY <2>4, <2>5
<1> HIDE DEF S
<1>5. 0 .. d \subseteq S
  <2>1. d \in Nat  BY <1>1, BoundsAssumption
  <2> HIDE DEF d
  <2> QED BY <2>1, <1>3, <1>4, UpTo
<1>6. \A n \in 0 .. d : f[n] \in Created /\ thread[f[n]].depth = d - n
  BY <1>5 DEF S
<1>7. f[d] = Root
  <2>1. f[d] \in Created /\ thread[f[d]].depth = 0  BY <1>1, <1>6
  <2> QED BY <1>2, <2>1
<1>8. \A n \in 0 .. d : f[n] = Root => n = d  BY <1>1, <1>2, <1>6
<1> QED BY <1>1, <1>6, <1>7, <1>8

\* Where all rows are right, the root's admins know of all threads.
LEMMA AdminsKnowAll ==
  ASSUME Tree, ~misplaced, Table, Upheld, NEW u \in Users,
         \A c \in Created : HasRows(c) => Settled(c, u), HasRows(Root)
  PROVE  \A c \in Created : HasRows(c) =>
           (AllKnow \in DOMAIN row[c][u].permissions <=> row[Root][u].role = Admins)
<1> DEFINE Told(c) == HasRows(c) =>
             (AllKnow \in DOMAIN row[c][u].permissions <=> row[Root][u].role = Admins)
           S == {c \in Created : Told(c)}
<1>1. Root \in Created  BY DEF Tree
<1>2. Root \in S  BY <1>1, RootKnows
<1>3. ASSUME NEW c \in Created \ {Root}, thread[c].parent \in S PROVE c \in S
  <2>1. HasRows(thread[c].parent)  BY DEF Upheld
  <2>2. thread[c].parent \in Created  BY DEF Tree
  <2>3. IsTreeBlob(row[thread[c].parent][u].permissions)  BY <2>2, SettledBlobs
  <2>4. HasRows(c) => (AllKnow \in DOMAIN row[c][u].permissions
                        <=> AllKnow \in DOMAIN row[thread[c].parent][u].permissions)
    BY <2>3, ChildKnows
  <2> QED BY <1>3, <2>1, <2>4
<1> HIDE DEF S
<1>4. Created \subseteq S  BY <1>2, <1>3, DownTheTree
<1> QED BY <1>4 DEF S

\* Where all rows are right, those admitted know of a thread, and nobody else.
LEMMA RightIsAdmitted ==
  ASSUME Tree, ~misplaced, Table, Upheld, NEW t \in Created, NEW u \in Users, HasRows(t),
         \A c \in Created : HasRows(c) => Settled(c, u)
  PROVE  Has(t, u, "know_of") <=> Admitted(t, u)
<1>1. PICK f : Upwards(f, t) /\ (Admitted(t, u) <=> AdmittedBy(f, u))
  BY AdmittedIs
<1> DEFINE d == thread[t].depth  keys(c) == DOMAIN row[c][u].permissions
<1>2. /\ d \in 0 .. MaxDepth /\ d \in Nat /\ f[d] = Root
      /\ \A n \in 0 .. d : f[n] \in Created /\ (f[n] = Root => n = d)
  BY <1>1, WayEnds, BoundsAssumption
<1>3. /\ f[0] = t
      /\ \A n \in 0 .. (d - 1) : f[n + 1] = thread[f[n]].parent
  <2>1. ASSUME NEW n \in 0 .. (d - 1) PROVE f[n + 1] = thread[f[n]].parent
    <3>1. n + 1 \in 1 .. MaxDepth /\ (n + 1) - 1 = n  BY <1>2, BoundsAssumption
    <3> QED BY <1>1, <3>1 DEF Upwards, Rises
  <2> QED BY <1>1, <2>1 DEF Upwards, Rises
<1> HIDE DEF d
\* all threads on the way have rows
<1>4. ASSUME NEW n \in 0 .. d PROVE HasRows(f[n])
  <2>1. CASE n = 0  BY <1>3, <2>1
  <2>2. CASE n # 0
    <3>1. n - 1 \in 0 .. (d - 1) /\ n - 1 \in 0 .. d /\ n - 1 # d /\ (n - 1) + 1 = n
      BY <1>2, <2>2
    <3>2. f[n - 1] \in Created \ {Root} /\ f[n] = thread[f[n - 1]].parent
      BY <1>2, <1>3, <3>1
    <3> QED BY <3>2 DEF Upheld
  <2> QED BY <2>1, <2>2
<1>5. HasRows(Root) /\ Settled(Root, u) /\ Root \in Created /\ ~PassesOn(Root)
  <2>1. HasRows(Root)  BY <1>2, <1>4
  <2> QED BY <2>1 DEF Tree, PassesOn
<1>6. /\ AllKnow \in keys(Root) <=> row[Root][u].role = Admins
      /\ row[Root][u].role # Admins => (OpenKnow \in keys(Root) <=> Opens(Root, u))
      /\ KnowOf \in keys(Root) <=> AllKnow \in keys(Root) \/ OpenKnow \in keys(Root)
  BY <1>5, RootKnows
<1>7. ASSUME NEW c \in Created \ {Root}, HasRows(c)
      PROVE  /\ OpenKnow \in keys(c)
                  <=> Opens(c, u) \/ (OpenKnow \in keys(thread[c].parent) /\ PassesOn(c))
             /\ KnowOf \in keys(c) <=> AllKnow \in keys(c) \/ OpenKnow \in keys(c)
  <2>1. thread[c].parent \in Created  BY DEF Tree
  <2>2. IsTreeBlob(row[thread[c].parent][u].permissions)  BY <2>1, SettledBlobs
  <2> QED BY <1>7, <2>2, ChildKnows
<1>8. AllKnow \in keys(t) <=> row[Root][u].role = Admins
  BY <1>5, AdminsKnowAll
<1>9. Has(t, u, "know_of") <=> KnowOf \in keys(t)
  BY DEF Has, Lookup, KnowOf
<1>10. Has(t, u, "know_of") <=> AllKnow \in keys(t) \/ OpenKnow \in keys(t)
  BY <1>6, <1>7, <1>9
\* and from the root down to t it is open what has been opened above
<1>11. ASSUME row[Root][u].role # Admins
       PROVE  OpenKnow \in keys(t) <=> Opened(f, u, 0, d)
  <2> DEFINE Known(n) == OpenKnow \in keys(f[n]) <=> Opened(f, u, n, d)
             S == {e \in 0 .. d : Known(d - e)}
  <2>1. 0 \in S
    <3>1. Opened(f, u, d, d) <=> Opens(Root, u)
      <4>1. \A k : k \in d .. d <=> k = d  BY <1>2
      <4>2. d .. (d - 1) = {}  BY <1>2
      <4> QED BY <1>2, <4>1, <4>2 DEF Opened
    <3>2. d - 0 = d /\ 0 \in 0 .. d  BY <1>2
    <3>3. Known(d)  BY <1>2, <1>6, <1>11, <3>1
    <3> HIDE DEF Known
    <3> QED BY <3>2, <3>3
  <2>2. ASSUME NEW e \in 1 .. d, e - 1 \in S PROVE e \in S
    <3> DEFINE n == d - e
    <3>1. n \in 0 .. (d - 1) /\ n \in 0 .. d /\ n # d /\ d - (e - 1) = n + 1 /\ e \in 0 .. d
      BY <1>2
    <3>2. Known(n + 1)
      <4> HIDE DEF Known, n
      <4> QED BY <2>2, <3>1
    <3> HIDE DEF n
    <3>3. Opened(f, u, n, d)
            <=> Opens(f[n], u) \/ (PassesOn(f[n]) /\ Opened(f, u, n + 1, d))
      BY <1>2, <3>1, OpenedIs
    <3>4. f[n] \in Created \ {Root} /\ HasRows(f[n]) /\ f[n + 1] = thread[f[n]].parent
      BY <1>2, <1>3, <1>4, <3>1
    <3>5. Known(n)  BY <1>7, <3>2, <3>3, <3>4
    <3> HIDE DEF Known
    <3> QED BY <3>1, <3>5 DEF n
  <2> HIDE DEF S, Known
  <2>3. d \in S
    <3>1. 0 .. d \subseteq S  BY <1>2, <2>1, <2>2, UpTo
    <3> QED BY <1>2, <3>1
  <2>4. Known(0)
    <3>1. d - d = 0  BY <1>2
    <3> QED BY <2>3, <3>1 DEF S
  <2> QED BY <1>3, <2>4 DEF Known
\* what is opened further up than the root is nothing
<1>12. AdmittedBy(f, u) <=> row[Root][u].role = Admins \/ Opened(f, u, 0, d)
  <2>1. ASSUME NEW n \in 0 .. MaxDepth, \A m \in 0 .. (n - 1) : PassesOn(f[m])
        PROVE  n \in 0 .. d
    <3>1. d \notin 0 .. (n - 1)  BY <1>2, <1>5, <2>1
    <3> QED BY <1>2, <3>1, BoundsAssumption
  <2>2. \A n \in 0 .. d : n \in 0 .. MaxDepth  BY <1>2, BoundsAssumption
  <2> QED BY <2>1, <2>2 DEF AdmittedBy, Opened
<1> QED BY <1>1, <1>8, <1>10, <1>11, <1>12

-----------------------------------------------------------------------------
(* Threads above have rows.                                                *)

\* A row that is written is not deleted again.
LEMMA RowsAreLeft ==
  ASSUME NEW rows, AreRows(rows), Write(rows), NEW c \in Threads, HasRows(c)
  PROVE  HasRows(c)'
<1>1. PICK u \in Users : row[c][u].exists  BY DEF HasRows
<1>2. \/ <<c, u>> \in DOMAIN rows /\ row'[c][u] = rows[<<c, u>>]
      \/ row'[c][u] = row[c][u]
  BY DEF Write
<1>3. <<c, u>> \in DOMAIN rows => rows[<<c, u>>].exists  BY DEF AreRows, IsNewRow
<1> QED BY <1>1, <1>2, <1>3 DEF HasRows

\* Rows that are written leave the threads above as they are.
LEMMA WriteUpholds ==
  ASSUME Inv, Upheld, thread' = thread, NEW rows, AreRows(rows),
         Write(rows) \/ row' = row
  PROVE  Upheld'
<1>1. Created' = Created  BY DEF Created
<1>2. \A c \in Created : thread[c].parent \in Threads  BY DEF Inv, Tree, Created
<1>3. \A c \in Threads : HasRows(c) => HasRows(c)'
  <2>1. row' = row => \A c \in Threads : HasRows(c) => HasRows(c)'  BY DEF HasRows
  <2> QED BY <2>1, RowsAreLeft
<1> QED BY <1>1, <1>2, <1>3 DEF Upheld

\* A thread that is created or moved comes below one that has rows.
LEMMA ThreadUpheld ==
  ASSUME Inv, Upheld, NEW t \in Threads, NEW new, thread' = [thread EXCEPT ![t] = new],
         row' = row, Created' \subseteq Created \cup {t},
         t = Root \/ HasRows(new.parent)
  PROVE  Upheld'
<1>1. /\ thread'[t] = new
      /\ \A c \in Threads \ {t} : thread'[c] = thread[c]
  BY DEF Inv, Tree
<1>2. \A c : HasRows(c)' <=> HasRows(c)  BY DEF HasRows
<1>3. ASSUME NEW c \in Created' \ {Root}, NEW u \in Users
      PROVE  HasRows(thread'[c].parent)
  <2>1. CASE c = t  BY <1>1, <2>1
  <2>2. CASE c # t
    <3>1. c \in Created \ {Root} /\ c \in Threads \ {t}  BY <2>2 DEF Created
    <3> QED BY <1>1, <3>1 DEF Upheld
  <2> QED BY <2>1, <2>2
<1>4. \A c : HasRows(thread'[c].parent) <=> HasRows(thread[c].parent)'
  BY DEF HasRows
<1> QED BY <1>3, <1>4 DEF Upheld

\* createThread asks for a permission in the thread above.
LEMMA CreationUpholds ==
  ASSUME Inv, Upheld, NEW t \in Threads, NEW type \in {"open", "secret", "sidebar"},
         NEW parent \in Threads, NEW viewer \in Users, NEW others \in SUBSET Users,
         CreateThread(t, type, parent, viewer, others)
  PROVE  Upheld'
<1> DEFINE depth == DepthBelow(parent)
           new == [type |-> type, parent |-> parent, depth |-> depth]
<1>1. thread' = [thread EXCEPT ![t] = new] /\ row' = row
  BY DEF CreateThread, WriteThread
<1>2. HasRows(parent)
  <2>1. Has(parent, viewer, "create")  BY DEF CreateThread
  <2> QED BY <2>1, HasAndHasRow DEF Inv
<1>3. new.parent = parent  OBVIOUS
<1> HIDE DEF new
<1>4. Created' \subseteq Created \cup {t}
  <2>1. \A c \in Threads \ {t} : thread'[c] = thread[c]  BY <1>1 DEF Inv, Tree
  <2> QED BY <2>1 DEF Created
<1> QED BY <1>1, <1>2, <1>3, <1>4, ThreadUpheld

\* So does updateThread, of a thread that moves.
LEMMA UpdateUpholds ==
  ASSUME Inv, Upheld, NEW t \in Threads,
         NEW type \in {"community", "open", "secret", "sidebar"},
         NEW parent \in Threads, NEW viewer \in Users, NEW added \in SUBSET Users,
         UpdateThread(t, type, parent, viewer, added)
  PROVE  Upheld'
<1> DEFINE depth == IF t = Root THEN 0 ELSE DepthBelow(parent)
           new == [type |-> type, parent |-> parent, depth |-> depth]
<1>1. thread' = [thread EXCEPT ![t] = new] /\ row' = row /\ t \in Created
  BY DEF UpdateThread, WriteThread
<1>2. ASSUME t # Root PROVE HasRows(parent)
  <2>1. CASE parent = thread[t].parent  BY <1>1, <1>2, <2>1 DEF Upheld
  <2>2. CASE parent # thread[t].parent
    <3>1. Has(parent, viewer, "create")  BY <2>2 DEF UpdateThread
    <3> QED BY <3>1, HasAndHasRow DEF Inv
  <2> QED BY <2>1, <2>2
<1>3. new.parent = parent  OBVIOUS
<1> HIDE DEF new
<1>4. Created' \subseteq Created \cup {t}
  <2>1. \A c \in Threads \ {t} : thread'[c] = thread[c]  BY <1>1 DEF Inv, Tree
  <2> QED BY <2>1 DEF Created
<1> QED BY <1>1, <1>2, <1>3, <1>4, ThreadUpheld

\* The first channel lies below the root, of which all have rows.
LEMMA UpheldAtFirst == Init => Upheld
<1> SUFFICES ASSUME Init, NEW c \in Created \ {Root}, NEW u \in Users
             PROVE  HasRows(thread[c].parent)
  BY DEF Upheld
<1>1. thread[c].parent = Root
  <2>1. PICK type \in {"open", "secret"} :
          thread = [t \in Threads |->
                     CASE t = Root  -> [NoThread EXCEPT !.type = "community"]
                       [] t = First -> [type |-> type, parent |-> Root, depth |-> 1]
                       [] OTHER     -> NoThread]
    BY DEF Init
  <2>2. c \in Threads /\ c # Root  BY DEF Created
  <2>3. CASE c = First
    <3>1. thread[c] = [type |-> type, parent |-> Root, depth |-> 1]  BY <2>1, <2>2, <2>3
    <3> QED BY <3>1
  <2>4. CASE c # First
    <3>1. thread[c] = NoThread  BY <2>1, <2>2, <2>4
    <3> QED BY <3>1 DEF NoThread
  <2> QED BY <2>3, <2>4
<1>2. row[Root][u].exists
  <2>1. row[Root][u] = [role |-> FirstRole(u), permissions |-> RootBlob(u), exists |-> TRUE]
    <3>1. Root \in Threads  BY DEF Threads
    <3>2. ASSUME NEW t \in Threads
          PROVE  row[t][u] = (CASE t = Root  -> [role |-> FirstRole(u),
                                                permissions |-> RootBlob(u), exists |-> TRUE]
                                [] t = First -> FirstRow(u)
                                [] OTHER     -> NoRow)
      BY DEF Init
    <3> QED BY <3>1, <3>2, CommunityAssumption
  <2> QED BY <2>1
<1> QED BY <1>1, <1>2 DEF HasRows

\* Every step keeps the rows above every thread.
LEMMA StaysUpheld == Inv /\ Upheld /\ [Next]_vars => Upheld'
<1> SUFFICES ASSUME Inv, Upheld, [Next]_vars PROVE Upheld'
  OBVIOUS
<1> DEFINE none == NoRows
<1>1. AreRows(none)  BY DEF NoRows, AreRows
<1> HIDE DEF none
<1>2. ASSUME thread' = thread, row' = row PROVE Upheld'
  BY <1>1, <1>2, WriteUpholds
<1>3. ASSUME NEW t \in Threads, NEW u \in Users,
             Join(t, u) \/ Leave(t, u) \/ \E viewer \in Users : Remove(t, u, viewer)
      PROVE  Upheld'
  <2>1. \E c, v : Change(c, v)  BY <1>3 DEF Join, Leave, Remove
  <2> QED BY <1>2, <2>1 DEF Change
<1>4. ASSUME NEW u \in Users, NEW viewer \in Users, NEW role \in {Members, Admins},
             UpdateRole(u, viewer, role)
      PROVE  Upheld'
  BY <1>2, <1>4 DEF UpdateRole, Change
<1>5. ASSUME NEW t \in Threads, NEW parent \in Threads, NEW viewer \in Users,
             NEW others \in SUBSET Users, NEW type \in {"open", "secret", "sidebar"},
             CreateThread(t, type, parent, viewer, others)
      PROVE  Upheld'
  BY <1>5, CreationUpholds
<1>6. ASSUME NEW t \in Threads, NEW parent \in Threads, NEW viewer \in Users,
             NEW others \in SUBSET Users,
             NEW type \in {"community", "open", "secret", "sidebar"},
             UpdateThread(t, type, parent, viewer, others)
      PROVE  Upheld'
  BY <1>6, UpdateUpholds
<1>7. ASSUME NEW j \in jobs, Compute(j) PROVE Upheld'
  BY <1>2, <1>7 DEF Compute
<1>8. ASSUME NEW j \in jobs, Commit(j) PROVE Upheld'
  <2> DEFINE rows == j.rows
  <2>1. AreRows(rows)  BY DEF Inv, Jobs, IsJob
  <2>2. Write(rows) /\ thread' = thread  BY <1>8 DEF Commit
  <2> HIDE DEF rows
  <2> QED BY <2>1, <2>2, WriteUpholds
<1>9. ASSUME NEW j \in jobs, NEW written \in SUBSET DOMAIN j.rows,
             Die(j, written)
      PROVE  Upheld'
  <2> DEFINE rows == [x \in written |-> j.rows[x]]
  <2>1. AreRows(j.rows)  BY DEF Inv, Jobs, IsJob
  <2>2. written \subseteq DOMAIN j.rows  OBVIOUS
  <2>3. AreRows(rows)  BY <2>1, <2>2 DEF AreRows
  <2>4. Write(rows) /\ thread' = thread  BY <1>9 DEF Die
  <2> HIDE DEF rows
  <2> QED BY <2>3, <2>4, WriteUpholds
<1>10. CASE StartRepair
  BY <1>2, <1>10 DEF StartRepair
<1>11. ASSUME NEW t \in toRecalculate, Repair(t) PROVE Upheld'
  <2> DEFINE c == Recalculate(t)
             rows == Rows(c)
  <2>1. (row' = row \/ Write(rows)) /\ thread' = thread  BY <1>11 DEF Repair
  <2>2. IsChangeset(c)
    <3>1. t \in Created  BY DEF Inv
    <3> QED BY <3>1, RecalculateIsChangeset DEF Inv
  <2> HIDE DEF c
  <2>3. AreRows(rows)  BY <2>2, RowsAreRows
  <2> HIDE DEF rows
  <2> QED BY <2>1, <2>3, WriteUpholds
<1>12. CASE UNCHANGED vars
  BY <1>2, <1>12 DEF vars
<1>13. ASSUME NEW j \in jobs, NEW saved \in Batches(Saves(j.rows)),
             NEW deleted \in Batches(Deletes(j.rows)), Die(j, saved \cup deleted)
      PROVE  Upheld'
  <2> DEFINE written == saved \cup deleted
  <2>1. written \in SUBSET DOMAIN j.rows  BY BatchesAreRows
  <2>2. Die(j, written)  BY <1>13
  <2> HIDE DEF written
  <2> QED BY <1>9, <2>1, <2>2
<1> QED BY <1>3, <1>4, <1>5, <1>6, <1>7, <1>8, <1>13, <1>10, <1>11, <1>12 DEF Next

\* At rest those admitted know of a thread, and nobody else.
LEMMA ConsistentIsAdmitted == Inv /\ Upheld /\ Consistent => KnownToAdmitted
<1> SUFFICES ASSUME Inv, Upheld, Consistent, AtRest, ~misplaced,
                    NEW t \in Created, HasRows(t), NEW u \in Users
             PROVE  Has(t, u, "know_of") <=> Admitted(t, u)
  BY DEF KnownToAdmitted
<1>1. \A c \in Created : HasRows(c) => Settled(c, u)  BY DEF Consistent
<1> QED BY <1>1, RightIsAdmitted DEF Inv

-----------------------------------------------------------------------------
\* It holds always.
LEMMA AlwaysInv == Spec => []Inv
BY StartsRight, NextKeepsInv, PTL DEF Spec

\* In every community, whatever the requests, their interleavings and the
\* handlers that die, the table holds blobs of known keys whose sources are
\* threads there are, and the root is the only thread of depth 0.
THEOREM TypeCorrect == Spec => []TypeOK
BY AlwaysInv, InvIsEnough, PTL

\* The DepthQueue of updateDescendantPermissions refuses no thread as long as
\* none has changed its depth while others lay below it: until then a thread
\* that is found below another, as its child or as contained in it, has the
\* greater depth.
THEOREM ThrowsMisplaced == Spec => []ThrowsOnlyMisplaced
BY AlwaysInv, InvIsEnough, PTL

\* the repair script runs alone, and has made right what it has been to
LEMMA AlwaysScript == Spec => [](Alone /\ RepairedIsRight)
<1> DEFINE Script == Alone /\ RepairedIsRight
<1>1. Init => Script
  BY DEF Init, Alone, RepairedIsRight
<1>2. Inv /\ Script /\ [Next]_vars => Script'
  BY ScriptGoesOn
<1> HIDE DEF Script
<1>3. Spec => []Script  BY <1>1, <1>2, AlwaysInv, PTL DEF Spec
<1> QED BY <1>3 DEF Script

\* As long as no thread has been misplaced, each visit of the repair script
\* makes the rows of a thread right and breaks none elsewhere, in whatever
\* order it goes and whatever dead handlers have left: the walk down, which
\* stops where a row does not change, writes all there is to write.
THEOREM RepairSettles == Spec => []RepairedIsRight
<1>1. Alone /\ RepairedIsRight => RepairedIsRight  OBVIOUS
<1> QED BY <1>1, AlwaysScript, PTL

\* Whatever has been joined, left, removed, promoted, created, moved, made
\* secret or extended with members, in whatever order, as long as no thread
\* has changed its depth while others lay below it, every row there is
\* when all is committed is the one that computing it from its parent and
\* its containing thread gives: changesets of different users that are
\* computed before others are committed, and rows of recalculations that
\* give way to rows of additions, do no harm.
THEOREM AlwaysConsistent == Spec => []Consistent
<1> DEFINE Covered == misplaced \/ Cover
<1>1. Inv /\ Inv' /\ (Alone /\ RepairedIsRight) /\ Covered /\ [Next]_vars => Covered'
  BY StaysCovered
<1>2. Init => Covered  BY CoversAtFirst
<1>3. Covered => Consistent  BY CoveredIsConsistent DEF Consistent
<1> HIDE DEF Covered
<1> QED BY <1>1, <1>2, <1>3, AlwaysInv, AlwaysScript, PTL DEF Spec

\* When all is committed, and no thread has changed its depth while others
\* lay below it, whoever is an admin of the community or a member of a thread
\* from which all is open down to this one knows of the thread, and
\* nobody else does: no blob of a removed member, of a thread that has moved
\* or of a channel that has become secret is left below.
THEOREM OnlyTheAdmittedKnow == Spec => []KnownToAdmitted
<1>1. Init => Upheld  BY UpheldAtFirst
<1>2. Inv /\ Upheld /\ [Next]_vars => Upheld'  BY StaysUpheld
<1>3. Inv /\ Upheld /\ Consistent => KnownToAdmitted  BY ConsistentIsAdmitted
<1> QED BY <1>1, <1>2, <1>3, AlwaysInv, AlwaysConsistent, PTL DEF Spec
=============================================================================
