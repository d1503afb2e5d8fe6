-------------------------- MODULE StateCheckProofs --------------------------
(***************************************************************************)
(* Proofs about StateCheck: its types, that a check under way has a next   *)
(* step (CheckHasNextStep), that there is one conversation at a time       *)
(* (OneCheckAtATime) and that one check repairs everything                 *)
(* (OneCheckRepairsAll).                                                   *)
(*                                                                         *)
(* A socket has one thing at most on its way between the two sides: a      *)
(* handler, a check or an answer (OneToken).  That holds because a check   *)
(* begins only when the session is due again, which it is only once        *)
(* nothing of the last check is left (Quiet).  While nothing is written,   *)
(* what a handler has read is what the database has, and an answer names   *)
(* every key whose content the client will not have (Honest).              *)
(***************************************************************************)
EXTENDS StateCheck, FiniteSetTheorems, SequenceTheorems, WellFoundedInduction,
        TLAPS

Checks == {i \in DOMAIN down : down[i].type = "check"}

\* One handler, check or answer at most.
OneToken ==
  /\ \A i, j \in jobs : i = j
  /\ \A i, j \in Checks : i = j
  /\ \A a, b \in up : a = b
  /\ jobs # {} => Checks = {} /\ up = {}
  /\ Checks # {} => up = {}

NoToken == jobs = {} /\ Checks = {} /\ up = {}

\* A check can only begin when nothing is left of the last one.
Quiet ==
  /\ due /\ ~ongoing => NoToken
  /\ timer => ~ongoing

\* No write has happened since the check under way began.
Current == ongoing /\ writes = began

\* The answer a reports every key whose content the client will not have.
Told(a) ==
  \A k \in Keys : Expected[k] # truth[k] => k \in a.bad \/ (a.whole /\ k \in Threads)

\* A check still to be read: the one hash of all threads, or theirs one by one.
Hashes(m) ==
  IF m.whole
  THEN m.hashes = truth
  ELSE /\ m.narrow
       /\ m.hashes = [t \in {x \in Threads : truth[x] # 0} |-> truth[t]]
       /\ \A k \in Keys : Expected[k] # truth[k] => k \in Threads

\* What the handlers have read, and what is on its way, is the truth.
Truthful ==
  /\ \A j \in jobs : /\ j.read => j.snap = truth
                     /\ j.step = "answer" => Told(j.answer)
  /\ \A a \in up : Told(a)
  /\ \A i \in Checks : i = Len(down)
  /\ \A m \in Message : (\E i \in Checks : m = down[i]) => Hashes(m)

Honest == began <= writes /\ (Current => Truthful)

\* The inductive invariant.
Inv == TypeOK /\ began \in Nat /\ OneToken /\ Quiet /\ CheckHasNextStep /\ Honest
-----------------------------------------------------------------------------
(* The largest of some of the first numbers.                               *)

\* There is one.
LEMMA MaxLemma ==
  ASSUME NEW n \in Nat, NEW S \in SUBSET (1..n), S # {}
  PROVE  Max(S) \in S /\ \A y \in S : Max(S) >= y
<1> DEFINE T == {n - i : i \in S}
           R == OpToRel(<, Nat)
<1>1. T \subseteq Nat /\ T # {}
  <2>1. \A i \in S : i \in Nat /\ n - i \in Nat
    OBVIOUS
  <2>. QED
    BY <2>1
<1>2. PICK x \in T : \A y \in T : ~(<<y, x>> \in R)
  <2>1. IsWellFoundedOn(R, Nat)
    BY NatLessThanWellFounded
  <2> HIDE DEF T, R
  <2>. QED
    BY <1>1, <2>1, WFMin
<1>3. \A y \in T : x <= y
  <2>1. ASSUME NEW y \in T PROVE ~(y < x)
    <3>1. x \in Nat /\ y \in Nat
      BY <1>1
    <3>2. <<y, x>> \notin R
      BY <1>2
    <3>. QED
      BY <3>1, <3>2 DEF OpToRel
  <2>. QED
    BY <1>1, <2>1
<1>4. PICK i \in S : x = n - i
  OBVIOUS
<1>5. \A y \in S : i >= y
  <2>1. ASSUME NEW y \in S PROVE i >= y
    <3>1. x <= n - y
      BY <1>3
    <3>2. i \in 1..n /\ y \in 1..n
      OBVIOUS
    <3>. QED
      BY <1>4, <3>1, <3>2
  <2>. QED
    BY <2>1
<1>. QED
  BY <1>5 DEF Max

\* There is no other.
LEMMA MaxIs ==
  ASSUME NEW S \in SUBSET Nat, NEW m \in S, \A y \in S : m >= y
  PROVE  Max(S) = m
<1>1. Max(S) \in S /\ Max(S) >= m
  BY DEF Max
<1>2. Max(S) \in Nat /\ m \in Nat /\ m >= Max(S)
  BY <1>1
<1> DEFINE x == Max(S)
<1> HIDE DEF x
<1>3. x >= m /\ m >= x /\ x \in Nat /\ m \in Nat
  BY <1>1, <1>2 DEF x
<1>4. x = m
  BY <1>3
<1>. QED
  BY <1>4 DEF x
-----------------------------------------------------------------------------
(* What the client will have when it has read everything.                  *)

\* The messages with a content for the key k.
About(k) == {i \in DOMAIN down : k \in DOMAIN down[i].changes}

\* What the client will hold of a key: the last message about it, if any.
LEMMA ExpectedIs ==
  ASSUME NEW k \in Keys
  PROVE  Expected[k] = IF About(k) = {} THEN view[k]
                       ELSE down[Max(About(k))].changes[k]
  BY DEF Expected, About

\* The same after a step.
LEMMA ExpectedIsPrimed ==
  ASSUME NEW k \in Keys
  PROVE  Expected'[k] = IF About(k)' = {} THEN view'[k]
                        ELSE down'[Max(About(k)')].changes[k]
  BY DEF Expected, About

\* Sending a message: its contents come last.
LEMMA ExpectedAppend ==
  ASSUME down \in Seq(Message), NEW m \in Message,
         down' = Append(down, m), view' = view, NEW k \in Keys
  PROVE  Expected'[k] = IF k \in DOMAIN m.changes THEN m.changes[k] ELSE Expected[k]
<1> DEFINE n == Len(down)
<1>1. /\ n \in Nat /\ DOMAIN down = 1..n /\ DOMAIN down' = 1..(n + 1)
      /\ \A i \in 1..n : down'[i] = down[i]
      /\ down'[n + 1] = m
  BY AppendProperties, LenProperties
<1>2. About(k) \in SUBSET (1..n)
  BY <1>1 DEF About
<1>3. CASE k \in DOMAIN m.changes
  <2>1. n + 1 \in About(k)' /\ About(k)' \subseteq 1..(n + 1)
    BY <1>1, <1>3 DEF About
  <2>2. Max(About(k)') = n + 1
    <3>1. \A y \in About(k)' : n + 1 >= y /\ y \in Nat
      BY <1>1, <2>1
    <3>. QED
      BY <2>1, <3>1, MaxIs
  <2>. QED
    BY <1>1, <1>3, <2>1, <2>2, ExpectedIsPrimed
<1>4. CASE k \notin DOMAIN m.changes
  <2>1. About(k)' = About(k)
    BY <1>1, <1>4 DEF About
  <2>2. CASE About(k) = {}
    BY <1>4, <2>1, <2>2, ExpectedIs, ExpectedIsPrimed
  <2>3. CASE About(k) # {}
    <3>1. Max(About(k)) \in 1..n
      BY <1>1, <1>2, <2>3, MaxLemma
    <3>2. down'[Max(About(k))] = down[Max(About(k))]
      BY <1>1, <3>1
    <3>. QED
      BY <1>4, <2>1, <2>3, <3>2, ExpectedIs, ExpectedIsPrimed
  <2>. QED
    BY <2>2, <2>3
<1>. QED
  BY <1>3, <1>4

\* Reading one changes nothing about what there will be in the end.
LEMMA ExpectedRead ==
  ASSUME down \in Seq(Message), down # << >>, down' = Tail(down),
         view' = Apply(Head(down).changes), NEW k \in Keys
  PROVE  Expected'[k] = Expected[k]
<1> DEFINE n == Len(down)
           A == About(k)
           B == About(k)'
<1>1. /\ n \in Nat /\ n > 0 /\ DOMAIN down = 1..n /\ Head(down) = down[1]
      /\ DOMAIN down' = 1..(n - 1)
      /\ \A i \in 1..(n - 1) : down'[i] = down[i + 1]
  <2>1. n \in Nat \ {0} /\ DOMAIN down = 1..n /\ Head(down) = down[1]
    BY EmptySeq, LenProperties
  <2>2. /\ down' \in Seq(Message) /\ Len(down') = n - 1
        /\ \A i \in 1..Len(down') : down'[i] = down[i + 1]
    BY HeadTailProperties
  <2>3. DOMAIN down' = 1..(n - 1)
    BY <2>2, LenProperties
  <2>. QED
    BY <2>1, <2>2, <2>3
<1>2. A \in SUBSET (1..n) /\ B \in SUBSET (1..(n - 1)) /\ n - 1 \in Nat
  BY <1>1 DEF About
<1>3. \A i \in 1..(n - 1) : i \in B <=> i + 1 \in A
  BY <1>1 DEF About
<1>4. view'[k] = IF 1 \in A THEN down[1].changes[k] ELSE view[k]
  BY <1>1 DEF Apply, About
<1>5. CASE B = {}
  <2>1. A \subseteq {1}
    <3>1. ASSUME NEW i \in A, i # 1 PROVE FALSE
      <4>1. i - 1 \in 1..(n - 1) /\ (i - 1) + 1 = i
        BY <1>1, <1>2, <3>1
      <4>. QED
        BY <1>3, <1>5, <4>1
    <3>. QED
      BY <3>1
  <2>2. CASE A = {}
    BY <1>4, <1>5, <2>2, ExpectedIs, ExpectedIsPrimed
  <2>3. CASE A = {1}
    <3>1. Max(A) = 1
      BY <2>3, MaxIs
    <3>2. Expected'[k] = view'[k]
      BY <1>5, ExpectedIsPrimed
    <3>3. Expected[k] = down[1].changes[k]
      BY <2>3, <3>1, ExpectedIs
    <3>. QED
      BY <1>4, <2>3, <3>2, <3>3
  <2>. QED
    BY <2>1, <2>2, <2>3
<1>6. CASE B # {}
  <2> DEFINE b == Max(B)
  <2>1. b \in B /\ \A y \in B : b >= y
    BY <1>2, <1>6, MaxLemma
  <2>2. b \in 1..(n - 1) /\ b + 1 \in A
    BY <1>2, <1>3, <2>1
  <2>3. \A y \in A : b + 1 >= y
    <3>1. ASSUME NEW y \in A, y # 1 PROVE b + 1 >= y
      <4>1. y - 1 \in 1..(n - 1) /\ (y - 1) + 1 = y
        BY <1>1, <1>2, <3>1
      <4>2. b >= y - 1
        BY <1>3, <2>1, <4>1
      <4>. QED
        BY <2>2, <4>1, <4>2
    <3>. QED
      BY <2>2, <3>1
  <2>4. Max(A) = b + 1
    <3>1. A \in SUBSET Nat
      BY <1>2
    <3>. QED
      BY <2>2, <2>3, <3>1, MaxIs
  <2>5. down'[b] = down[b + 1]
    BY <1>1, <2>2
  <2>6. Expected'[k] = down'[b].changes[k]
    BY <1>6, ExpectedIsPrimed
  <2>7. Expected[k] = down[Max(A)].changes[k]
    BY <2>2, ExpectedIs
  <2>. QED
    BY <2>4, <2>5, <2>6, <2>7
<1>. QED
  BY <1>5, <1>6

\* With nothing left to read, it is what the client has.
LEMMA ExpectedAtRest ==
  ASSUME down = << >>, NEW k \in Keys
  PROVE  Expected[k] = view[k]
<1>1. About(k) = {}
  BY DEF About
<1>. QED
  BY <1>1, ExpectedIs
-----------------------------------------------------------------------------
(* The types of what is read, sent and answered.                           *)

\* Contents of some keys.
LEMMA PartialLemma ==
  /\ \A D \in SUBSET Keys : [D -> Content] \subseteq Partial
  /\ \A f \in Partial : /\ DOMAIN f \subseteq Keys
                        /\ \A k \in DOMAIN f : f[k] \in Content
  /\ Nothing \in Partial
<1>1. \A D \in SUBSET Keys : [D -> Content] \subseteq Partial
  BY DEF Partial
<1>2. \A f \in Partial : \E D \in SUBSET Keys : f \in [D -> Content]
  BY DEF Partial
<1>3. Nothing \in [{} -> Content] /\ {} \in SUBSET Keys
  BY DEF Nothing
<1>. QED
  BY <1>1, <1>2, <1>3

\* A handler just started.
LEMMA CheckJobLemma ==
  /\ CheckJob \in Job /\ CheckJob.step = "check" /\ CheckJob.read = FALSE
  /\ AllMatch \in Answer
<1>1. AllMatch \in Answer
  BY DEF AllMatch, Answer
<1>2. [k \in Keys |-> 0] \in [Keys -> Content]
  BY BoundsAssumption DEF Content
<1> DEFINE a == AllMatch
           s == [k \in Keys |-> 0]
<1>3. CheckJob = [step |-> "check", answer |-> a, read |-> FALSE, snap |-> s,
                  again |-> FALSE, late |-> FALSE]
  BY DEF CheckJob
<1>4. a \in Answer /\ s \in [Keys -> Content]
  BY <1>1, <1>2
<1> HIDE DEF a, s
<1>. QED
  BY <1>1, <1>3, <1>4 DEF Job

\* The handler of an answer, before it has read the database.
LEMMA AnswerJobLemma ==
  ASSUME NEW a \in Answer
  PROVE  /\ AnswerJob(a) \in Job /\ AnswerJob(a).step = "answer"
         /\ AnswerJob(a).answer = a /\ AnswerJob(a).read = FALSE
<1> DEFINE c == CheckJob
<1>1. AnswerJob(a) = [c EXCEPT !.step = "answer", !.answer = a]
  BY DEF AnswerJob
<1>2. c \in Job /\ c.read = FALSE
  BY CheckJobLemma
<1> HIDE DEF c
<1>. QED
  BY <1>1, <1>2 DEF Job

\* A handler whose time-out has passed, and one of an answer sent again.
LEMMA FaultJobLemma ==
  ASSUME NEW j \in Job
  PROVE  /\ LET r == [j EXCEPT !.late = TRUE] IN
            /\ r \in Job /\ r.step = j.step /\ r.answer = j.answer
            /\ r.read = j.read /\ r.snap = j.snap
         /\ LET r == [AnswerJob(j.answer) EXCEPT !.again = TRUE] IN
            /\ r \in Job /\ r.step = "answer" /\ r.answer = j.answer
            /\ r.read = FALSE
<1> DEFINE b == TRUE
           c == AnswerJob(j.answer)
           q == [j EXCEPT !.late = b]
           r == [c EXCEPT !.again = b]
<1>1. b \in BOOLEAN /\ j.answer \in Answer
  BY DEF Job
<1>2. c \in Job /\ c.step = "answer" /\ c.answer = j.answer /\ c.read = FALSE
  BY <1>1, AnswerJobLemma
<1> HIDE DEF b, c
<1>3. /\ q \in Job /\ q.step = j.step /\ q.answer = j.answer
      /\ q.read = j.read /\ q.snap = j.snap
  BY <1>1 DEF Job
<1>4. r \in Job /\ r.step = "answer" /\ r.answer = j.answer /\ r.read = FALSE
  BY <1>1, <1>2 DEF Job
<1>. QED
  BY <1>3, <1>4 DEF b, c

\* A handler that has read the database holds its state and is a handler.
LEMMA ReadLemma ==
  ASSUME NEW j \in Job, truth \in [Keys -> Content]
  PROVE  LET r == [j EXCEPT !.read = TRUE, !.snap = truth] IN
         /\ r \in Job /\ r.step = j.step /\ r.answer = j.answer
         /\ r.snap = truth
<1> DEFINE b == TRUE
           r == [j EXCEPT !.read = b, !.snap = truth]
<1>1. b \in BOOLEAN
  OBVIOUS
<1> HIDE DEF b
<1>2. /\ r \in Job /\ r.step = j.step /\ r.answer = j.answer
      /\ r.snap = truth
  BY <1>1 DEF Job
<1>. QED
  BY <1>2 DEF b

\* A client's answer, whatever it has and is asked.
LEMMA CompareLemma ==
  ASSUME NEW m \in Message, NEW v
  PROVE  Compare(m, v) \in Answer
<1> DEFINE differ == {k \in DOMAIN m.hashes : v[k] # m.hashes[k]}
           unmentioned == {t \in Threads \ DOMAIN m.hashes : v[t] # 0}
<1>1. DOMAIN m.hashes \subseteq Keys /\ m.whole \in BOOLEAN
  BY PartialLemma DEF Message
<1>2. /\ differ \subseteq Keys /\ unmentioned \subseteq Keys
      /\ differ \cap Singles \subseteq Keys
  BY <1>1 DEF Keys
<1>3. Compare(m, v) =
        IF m.whole
        THEN [whole |-> differ \cap Threads # {}, bad |-> differ \cap Singles]
        ELSE [whole |-> FALSE,
              bad |-> differ \cup (IF m.narrow THEN unmentioned ELSE {})]
  BY DEF Compare
<1> HIDE DEF differ, unmentioned
<1>4. CASE m.whole
  <2> DEFINE bad == differ \cap Singles
             whole == differ \cap Threads # {}
  <2>1. bad \subseteq Keys /\ whole \in BOOLEAN
    BY <1>2
  <2>2. Compare(m, v) = [whole |-> whole, bad |-> bad]
    BY <1>3, <1>4
  <2> HIDE DEF whole, bad
  <2>. QED
    BY <2>1, <2>2 DEF Answer
<1>5. CASE ~m.whole
  <2> DEFINE bad == differ \cup (IF m.narrow THEN unmentioned ELSE {})
  <2>1. bad \subseteq Keys
    BY <1>2
  <2>2. Compare(m, v) = [whole |-> FALSE, bad |-> bad]
    BY <1>3, <1>5
  <2> HIDE DEF bad
  <2>. QED
    BY <2>1, <2>2 DEF Answer
<1>. QED
  BY <1>4, <1>5

\* A store with a message's changes is a store.
LEMMA ApplyLemma ==
  ASSUME NEW m \in Message, view \in [Keys -> Content]
  PROVE  Apply(m.changes) \in [Keys -> Content]
<1>1. \A k \in DOMAIN m.changes : m.changes[k] \in Content
  BY PartialLemma DEF Message
<1>. QED
  BY <1>1 DEF Apply

\* The messages of a check.
LEMMA WholeLemma ==
  ASSUME NEW s \in [Keys -> Content]
  PROVE  LET m == [type |-> "check", whole |-> TRUE, narrow |-> FALSE,
                   hashes |-> s, changes |-> Nothing] IN
         /\ m \in Message /\ m.type = "check" /\ m.whole /\ m.hashes = s
         /\ DOMAIN m.changes = {}
<1> DEFINE n == Nothing
<1>1. s \in Partial /\ n \in Partial /\ DOMAIN n = {}
  BY PartialLemma DEF Nothing
<1> HIDE DEF n
<1>2. [type |-> "check", whole |-> TRUE, narrow |-> FALSE, hashes |-> s,
       changes |-> n] \in Message
  BY <1>1 DEF Message
<1>. QED
  BY <1>1, <1>2 DEF n

\* What a handler sends for an answer: hashes and the entries asked for.
LEMMA RequestLemma ==
  ASSUME NEW a \in Answer, NEW s \in [Keys -> Content]
  PROVE  LET m == Request(a, s) IN
         /\ m \in Message /\ m.type = "check" /\ m.whole = FALSE
         /\ m.narrow = a.whole
         /\ m.hashes = [t \in {x \in Threads : a.whole /\ s[x] # 0} |-> s[t]]
         /\ m.changes = [k \in a.bad |-> s[k]]
<1> DEFINE h == [t \in {x \in Threads : a.whole /\ s[x] # 0} |-> s[t]]
           c == [k \in a.bad |-> s[k]]
           b == a.whole
<1>1. a.bad \in SUBSET Keys /\ b \in BOOLEAN
  BY DEF Answer
<1>2. {x \in Threads : a.whole /\ s[x] # 0} \in SUBSET Keys
  BY DEF Keys
<1>3. h \in Partial /\ c \in Partial
  <2>1. h \in [{x \in Threads : a.whole /\ s[x] # 0} -> Content]
    BY <1>2
  <2>2. c \in [a.bad -> Content]
    BY <1>1
  <2>. QED
    BY <1>1, <1>2, <2>1, <2>2, PartialLemma
<1>4. Request(a, s) = [type |-> "check", whole |-> FALSE, narrow |-> b,
                       hashes |-> h, changes |-> c]
  BY DEF Request
<1>5. h = [t \in {x \in Threads : a.whole /\ s[x] # 0} |-> s[t]] /\ b = a.whole
      /\ c = [k \in a.bad |-> s[k]]
  OBVIOUS
<1> HIDE DEF h, c, b
<1>6. /\ Request(a, s) \in Message
      /\ Request(a, s).type = "check" /\ Request(a, s).whole = FALSE
      /\ Request(a, s).narrow = b
      /\ Request(a, s).hashes = h /\ Request(a, s).changes = c
  BY <1>1, <1>3, <1>4 DEF Message
<1>. QED
  BY <1>5, <1>6
-----------------------------------------------------------------------------
(* The checks in the messages to the client.                               *)

LEMMA ChecksAppend ==
  ASSUME down \in Seq(Message), NEW m \in Message, down' = Append(down, m)
  PROVE  /\ down' \in Seq(Message) /\ Len(down') = Len(down) + 1
         /\ Checks' = IF m.type = "check" THEN Checks \cup {Len(down')} ELSE Checks
         /\ Checks \subseteq 1..Len(down)
         /\ \A i \in Checks : down'[i] = down[i]
         /\ down'[Len(down')] = m
<1> DEFINE n == Len(down)
<1>1. /\ down' \in Seq(Message) /\ Len(down') = n + 1
      /\ n \in Nat /\ DOMAIN down = 1..n /\ DOMAIN down' = 1..(n + 1)
      /\ \A i \in 1..n : down'[i] = down[i]
      /\ down'[n + 1] = m
  BY AppendProperties, LenProperties
<1> HIDE DEF n
<1>2. Checks \subseteq 1..n /\ \A i \in Checks : down'[i] = down[i]
  BY <1>1 DEF Checks
<1>3. ASSUME NEW i
      PROVE  i \in Checks' <=> i \in Checks \/ (i = n + 1 /\ m.type = "check")
  BY <1>1 DEF Checks
<1>4. Checks' = IF m.type = "check" THEN Checks \cup {n + 1} ELSE Checks
  BY <1>3
<1>. QED
  BY <1>1, <1>2, <1>4 DEF n

\* When a message has been read, all others move up by one.
LEMMA ChecksRead ==
  ASSUME down \in Seq(Message), down # << >>, down' = Tail(down)
  PROVE  /\ down' \in Seq(Message) /\ Head(down) \in Message
         /\ Len(down) \in Nat /\ Len(down') = Len(down) - 1
         /\ Checks \subseteq 1..Len(down) /\ Checks' \subseteq 1..Len(down')
         /\ 1 \in Checks <=> Head(down).type = "check"
         /\ Head(down) = down[1]
         /\ \A i \in 1..Len(down') : /\ i \in Checks' <=> i + 1 \in Checks
                                     /\ down'[i] = down[i + 1]
<1> DEFINE n == Len(down)
<1>1. n \in Nat \ {0} /\ DOMAIN down = 1..n /\ Head(down) = down[1]
  BY EmptySeq, LenProperties
<1>2. /\ down' \in Seq(Message) /\ Len(down') = n - 1
      /\ \A i \in 1..Len(down') : down'[i] = down[i + 1]
      /\ Head(down) \in Message
  BY HeadTailProperties
<1>3. DOMAIN down' = 1..(n - 1)
  BY <1>2, LenProperties
<1> HIDE DEF n
<1>4. Checks \subseteq 1..n /\ Checks' \subseteq 1..(n - 1)
  BY <1>1, <1>3 DEF Checks
<1>5. 1 \in Checks <=> Head(down).type = "check"
  BY <1>1 DEF Checks
<1>6. ASSUME NEW i \in 1..(n - 1)
      PROVE  i \in Checks' <=> i + 1 \in Checks
  BY <1>1, <1>2, <1>3 DEF Checks
<1>. QED
  BY <1>1, <1>2, <1>4, <1>5, <1>6 DEF n
-----------------------------------------------------------------------------
(* What keeps the invariant.                                               *)

LEMMA ToldFrame ==
  ASSUME truth' = truth, \A k \in Keys : Expected'[k] = Expected[k], NEW a
  PROVE  Told(a)' <=> Told(a)
  BY DEF Told

\* Hashes that were right are right while nothing they depend on changes.
LEMMA HashesFrame ==
  ASSUME truth' = truth, \A k \in Keys : Expected'[k] = Expected[k], NEW m
  PROVE  Hashes(m)' <=> Hashes(m)
  BY DEF Hashes

\* What the client will hold depends on its store and on what is on its way.
LEMMA ExpectedFrame ==
  ASSUME UNCHANGED <<view, down>>
  PROVE  /\ \A k \in Keys : Expected'[k] = Expected[k]
         /\ Checks' = Checks
  BY DEF Expected, Checks

\* Nothing is asked for exactly when nothing is on its way.
LEMMA AskingLemma == Asking <=> ~NoToken
  BY DEF Asking, NoToken, Checks

\* A check begins, with nothing left of the last one.
LEMMA Begin ==
  ASSUME Inv, NoToken, jobs' = {CheckJob}, ongoing', began' = writes,
         recent' \in BOOLEAN, ongoing' \in BOOLEAN, timer' \in BOOLEAN, ~timer',
         UNCHANGED <<truth, view, writes, due, down, up, failed, faults>>
  PROVE  Inv'
<1>1. Checks' = Checks
  BY ExpectedFrame
<1>2. TypeOK'
  BY CheckJobLemma DEF Inv, TypeOK
<1>3. OneToken'
  BY <1>1 DEF NoToken, OneToken
<1>4. Quiet'
  BY DEF Quiet
<1>5. CheckHasNextStep'
  BY DEF CheckHasNextStep, Asking
<1>6. Honest' /\ began' \in Nat
  <2>1. writes \in Nat
    BY BoundsAssumption DEF Inv, TypeOK, Content
  <2>2. Truthful'
    BY <1>1, CheckJobLemma DEF NoToken, Truthful
  <2>. QED
    BY <2>1, <2>2 DEF Honest
<1>. QED
  BY <1>2, <1>3, <1>4, <1>5, <1>6 DEF Inv

\* Nothing moves.
LEMMA Still ==
  ASSUME Inv, UNCHANGED <<truth, view, writes, jobs, down, up, failed, faults,
                          began, ongoing>>,
         recent' \in BOOLEAN, timer' \in BOOLEAN, due' \in BOOLEAN,
         timer' => ~ongoing', due' => due \/ NoToken
  PROVE  Inv'
<1>1. Checks' = Checks /\ \A k \in Keys : Expected'[k] = Expected[k]
  BY ExpectedFrame
<1>2. TypeOK'
  BY DEF Inv, TypeOK
<1>3. OneToken' /\ (NoToken' <=> NoToken)
  BY <1>1 DEF Inv, NoToken, OneToken
<1>4. Quiet'
  BY <1>3 DEF Inv, Quiet
<1>5. CheckHasNextStep'
  BY DEF Inv, CheckHasNextStep, Asking
<1>6. Honest' /\ began' \in Nat
  <2>1. ASSUME Current' PROVE Truthful'
    <3>1. Truthful
      BY <2>1 DEF Inv, Honest, Current
    <3>. QED
      BY <1>1, <3>1, ToldFrame, HashesFrame DEF Truthful
  <2>. QED
    BY <2>1 DEF Inv, Honest
<1>. QED
  BY <1>2, <1>3, <1>4, <1>5, <1>6 DEF Inv

\* The database is written: no check is current any more.
LEMMA Write ==
  ASSUME Inv, NEW k \in Keys, NEW c \in Content, Change(k, c),
         UNCHANGED <<view, jobs, up, due, failed, faults, began, ongoing>>,
         down' \in Seq(Message), Checks' = Checks,
         recent' \in BOOLEAN, timer' \in BOOLEAN, timer' => ~ongoing'
  PROVE  Inv'
<1>1. writes \in Nat /\ writes' \in Content /\ writes' = writes + 1
  BY BoundsAssumption DEF Inv, TypeOK, Content, Change
<1>2. TypeOK'
  <2>1. truth' \in [Keys -> Content]
    BY DEF Change, Inv, TypeOK
  <2>. QED
    BY <1>1, <2>1 DEF Inv, TypeOK
<1>3. OneToken' /\ (NoToken' <=> NoToken)
  BY DEF Inv, NoToken, OneToken
<1>4. Quiet'
  BY <1>3 DEF Inv, Quiet
<1>5. CheckHasNextStep'
  <2>1. Asking' <=> ~NoToken'
    BY DEF Asking, NoToken, Checks
  <2>. QED
    BY <1>3, <2>1, AskingLemma DEF Inv, CheckHasNextStep
<1>6. Honest' /\ began' \in Nat
  BY <1>1 DEF Inv, Honest, Current
<1>. QED
  BY <1>2, <1>3, <1>4, <1>5, <1>6 DEF Inv
-----------------------------------------------------------------------------
(* The steps that begin a check or write, and the faults.                  *)

LEMMA ActivityEndsLemma ==
  ASSUME Inv, ActivityEnds
  PROVE  Inv'
<1>1. /\ recent' \in BOOLEAN /\ ongoing' \in BOOLEAN /\ timer' \in BOOLEAN
      /\ timer' => ~ongoing'
      /\ \/ /\ ~ongoing /\ due /\ ongoing' /\ jobs' = jobs \cup {CheckJob}
            /\ began' = writes
         \/ ongoing' = ongoing /\ jobs' = jobs /\ began' = began
  BY DEF SetConditions, ActivityEnds, Inv, TypeOK
<1>2. UNCHANGED <<truth, view, writes, due, down, up, failed, faults>>
  BY DEF ActivityEnds
<1>3. CASE /\ ~ongoing /\ due /\ ongoing' /\ jobs' = jobs \cup {CheckJob}
           /\ began' = writes
  <2>1. NoToken
    BY <1>3 DEF Inv, Quiet
  <2>2. jobs' = {CheckJob}
    BY <1>3, <2>1 DEF NoToken
  <2>. QED
    BY <1>1, <1>2, <1>3, <2>1, <2>2, Begin
<1>4. CASE ongoing' = ongoing /\ jobs' = jobs /\ began' = began
  <2>1. due' \in BOOLEAN
    BY <1>2 DEF Inv, TypeOK
  <2>. QED
    BY <1>1, <1>2, <1>4, <2>1, Still
<1>. QED
  BY <1>1, <1>3, <1>4

\* The timer of the next check fires.
LEMMA TimerFiresLemma ==
  ASSUME Inv, TimerFires
  PROVE  Inv'
<1>1. NoToken
  BY DEF Inv, Quiet, TimerFires
<1>2. jobs' = {CheckJob}
  BY <1>1 DEF NoToken, TimerFires
<1>. QED
  BY <1>1, <1>2, Begin DEF TimerFires, Inv, TypeOK

\* Three minutes have passed.
LEMMA TimePassesLemma ==
  ASSUME Inv, TimePasses
  PROVE  Inv'
  BY Still, AskingLemma DEF TimePasses, conditionVars, Inv, TypeOK, Quiet

\* The database changes, and no update tells the client.
LEMMA WriteMissedLemma ==
  ASSUME Inv, NEW k \in Keys, NEW c \in Content, WriteMissed(k, c)
  PROVE  Inv'
<1>1. Checks' = Checks
  BY DEF WriteMissed, Checks
<1>. QED
  BY <1>1, Write DEF WriteMissed, conditionVars, Inv, TypeOK, Quiet

\* The database changes, and an update is on its way.
LEMMA WriteDeliveredLemma ==
  ASSUME Inv, NEW k \in Keys, NEW c \in Content, WriteDelivered(k, c)
  PROVE  Inv'
<1> DEFINE n == Nothing
           f == [x \in {k} |-> c]
           m == [type |-> "updates", whole |-> FALSE, narrow |-> FALSE,
                 hashes |-> n, changes |-> f]
<1>1. m \in Message /\ m.type = "updates"
  <2>1. n \in Partial
    BY PartialLemma
  <2>2. f \in Partial
    <3>1. f \in [{k} -> Content] /\ {k} \in SUBSET Keys
      OBVIOUS
    <3>. QED
      BY <3>1, PartialLemma
  <2> HIDE DEF n, f
  <2>. QED
    BY <2>1, <2>2 DEF Message
<1>2. down' = Append(down, m) /\ SetConditions(TRUE, ongoing, due, jobs)
      /\ Change(k, c) /\ UNCHANGED <<view, due, up, failed, faults>>
  BY DEF WriteDelivered
<1> HIDE DEF m
<1>3. down' \in Seq(Message) /\ Checks' = Checks
  <2>1. down \in Seq(Message)
    BY DEF Inv, TypeOK
  <2>. QED
    BY <1>1, <1>2, <2>1, ChecksAppend
<1>4. /\ recent' \in BOOLEAN /\ timer' \in BOOLEAN /\ (timer' => ~ongoing')
      /\ ongoing' = ongoing /\ jobs' = jobs /\ began' = began
  BY <1>2 DEF SetConditions, Inv, TypeOK
<1>. QED
  BY <1>2, <1>3, <1>4, Write

\* The client connects anew.
LEMMA ReconnectLemma ==
  ASSUME Inv, Reconnect
  PROVE  Inv'
<1>1. TypeOK'
  <2>1. faults' \in 0..MaxFaults
    BY BoundsAssumption DEF Reconnect, Inv, TypeOK
  <2>2. down' \in Seq(Message)
    BY EmptySeq DEF Reconnect
  <2>. QED
    BY <2>1, <2>2 DEF Reconnect, Inv, TypeOK
<1>2. Checks' = {}
  BY DEF Reconnect, Checks
<1>. QED
  BY <1>1, <1>2
  DEF Reconnect, Inv, OneToken, Quiet, NoToken, CheckHasNextStep, Honest, Current
-----------------------------------------------------------------------------
(* The keyserver's handlers.                                               *)

\* What there is while the handler j is in progress.
LEMMA HandlerAlone ==
  ASSUME Inv, NEW j \in jobs
  PROVE  jobs = {j} /\ Checks = {} /\ up = {} /\ j \in Job
  BY DEF Inv, OneToken, TypeOK

\* A handler goes on, or another takes its place with the same answer.
LEMMA Goes ==
  ASSUME Inv, NEW j \in jobs, NEW r \in Job, jobs' = (jobs \ {j}) \cup {r},
         r.step = j.step, r.answer = j.answer,
         r.read => r.snap = truth \/ (j.read /\ r.snap = j.snap),
         UNCHANGED <<truth, view, writes, ongoing, began, due, down, up, failed>>,
         recent' \in BOOLEAN, timer' \in BOOLEAN, timer' => ~ongoing',
         faults' \in 0..MaxFaults
  PROVE  Inv'
<1>1. jobs = {j} /\ Checks = {} /\ up = {} /\ j \in Job
  BY HandlerAlone
<1>2. jobs' = {r}
  BY <1>1
<1>3. Checks' = Checks /\ \A k \in Keys : Expected'[k] = Expected[k]
  BY ExpectedFrame
<1>4. TypeOK'
  BY <1>2 DEF Inv, TypeOK
<1>5. OneToken'
  BY <1>1, <1>2, <1>3 DEF OneToken
<1>6. Quiet'
  BY <1>1 DEF Inv, Quiet, NoToken
<1>7. CheckHasNextStep'
  BY <1>2 DEF CheckHasNextStep, Asking
<1>8. Honest' /\ began' \in Nat
  <2>1. ASSUME Current' PROVE Truthful'
    <3>1. Truthful
      BY <2>1 DEF Inv, Honest, Current
    <3>2. r.read => r.snap = truth
      BY <3>1 DEF Truthful
    <3>3. ASSUME j.step = "answer" PROVE Told(r.answer)
      <4>1. Told(j.answer)
        BY <3>1, <3>3 DEF Truthful
      <4>. QED
        BY <4>1 DEF Told
    <3>. QED
      BY <1>1, <1>2, <1>3, <3>2, <3>3, ToldFrame DEF Truthful
  <2>. QED
    BY <2>1 DEF Inv, Honest
<1>. QED
  BY <1>4, <1>5, <1>6, <1>7, <1>8 DEF Inv

\* A handler ends without a message and leaves the conversation as it is.
LEMMA Breaks ==
  ASSUME Inv, NEW j \in jobs, jobs' = jobs \ {j}, failed' = (failed \/ ongoing),
         UNCHANGED <<truth, view, writes, ongoing, began, due, down, up>>,
         recent' \in BOOLEAN, timer' \in BOOLEAN, timer' => ~ongoing',
         faults' \in 0..MaxFaults
  PROVE  Inv'
<1>1. jobs = {j} /\ Checks = {} /\ up = {} /\ j \in Job
  BY HandlerAlone
<1>2. jobs' = {}
  BY <1>1
<1>3. Checks' = Checks /\ \A k \in Keys : Expected'[k] = Expected[k]
  BY ExpectedFrame
<1>4. TypeOK'
  BY <1>2 DEF Inv, TypeOK
<1>5. OneToken'
  BY <1>1, <1>2, <1>3 DEF OneToken
<1>6. Quiet'
  BY <1>1, <1>2 DEF Inv, Quiet, NoToken
<1>7. CheckHasNextStep'
  BY DEF CheckHasNextStep
<1>8. Honest' /\ began' \in Nat
  BY <1>1, <1>2, <1>3 DEF Inv, Honest, Current, Truthful
<1>. QED
  BY <1>4, <1>5, <1>6, <1>7, <1>8 DEF Inv

\* The time-out of a handler passes, and the handler goes on.
LEMMA HandlerTimesOutLemma ==
  ASSUME Inv, NEW j \in jobs, HandlerTimesOut(j)
  PROVE  Inv'
<1> DEFINE r == [j EXCEPT !.late = TRUE]
<1>1. j \in Job
  BY HandlerAlone
<1>2. /\ r \in Job /\ r.step = j.step /\ r.answer = j.answer
      /\ r.read = j.read /\ r.snap = j.snap
  BY <1>1, FaultJobLemma
<1>3. /\ SetConditions(TRUE, ongoing, due, (jobs \ {j}) \cup {r})
      /\ faults' = faults + 1 /\ faults < MaxFaults
      /\ UNCHANGED <<truth, view, writes, due, down, up, failed>>
  BY DEF HandlerTimesOut
<1> HIDE DEF r
<1>4. /\ jobs' = (jobs \ {j}) \cup {r} /\ ongoing' = ongoing /\ began' = began
      /\ recent' \in BOOLEAN /\ timer' = FALSE
  BY <1>3 DEF SetConditions, Inv, TypeOK
<1>5. faults' \in 0..MaxFaults
  BY <1>3, BoundsAssumption DEF Inv, TypeOK
<1>. QED
  BY <1>2, <1>3, <1>4, <1>5, Goes

\* An answer is sent again, and its handler starts anew.
LEMMA AnswerSentAgainLemma ==
  ASSUME Inv, NEW j \in jobs, AnswerSentAgain(j)
  PROVE  Inv'
<1> DEFINE r == [AnswerJob(j.answer) EXCEPT !.again = TRUE]
<1>1. j \in Job
  BY HandlerAlone
<1>2. r \in Job /\ r.step = "answer" /\ r.answer = j.answer /\ r.read = FALSE
  BY <1>1, FaultJobLemma
<1>3. /\ SetConditions(TRUE, ongoing, due, (jobs \ {j}) \cup {r})
      /\ faults' = faults + 1 /\ faults < MaxFaults /\ j.step = "answer"
      /\ UNCHANGED <<truth, view, writes, due, down, up, failed>>
  BY DEF AnswerSentAgain
<1> HIDE DEF r
<1>4. /\ jobs' = (jobs \ {j}) \cup {r} /\ ongoing' = ongoing /\ began' = began
      /\ recent' \in BOOLEAN /\ timer' = FALSE
  BY <1>3 DEF SetConditions, Inv, TypeOK
<1>5. faults' \in 0..MaxFaults
  BY <1>3, BoundsAssumption DEF Inv, TypeOK
<1>. QED
  BY <1>2, <1>3, <1>4, <1>5, Goes

\* A handler throws.
LEMMA HandlerThrowsLemma ==
  ASSUME Inv, NEW j \in jobs, HandlerThrows(j)
  PROVE  Inv'
<1>1. /\ jobs' = jobs \ {j} /\ ongoing' = ongoing /\ began' = began
      /\ recent' \in BOOLEAN /\ timer' \in BOOLEAN /\ (timer' => ~ongoing')
  <2>1. CASE SetConditions(TRUE, ongoing, due, jobs \ {j})
    BY <2>1 DEF SetConditions, Inv, TypeOK
  <2>2. CASE jobs' = jobs \ {j} /\ UNCHANGED conditionVars
    BY <2>2 DEF conditionVars, Inv, TypeOK, Quiet
  <2>. QED
    BY <2>1, <2>2 DEF HandlerThrows
<1>2. faults' \in 0..MaxFaults
  BY BoundsAssumption DEF HandlerThrows, Inv, TypeOK
<1>. QED
  BY <1>1, <1>2, Breaks DEF HandlerThrows

\* A handler reads the database.
LEMMA ReadDatabaseLemma ==
  ASSUME Inv, NEW j \in jobs, ReadDatabase(j)
  PROVE  Inv'
<1> DEFINE r == [j EXCEPT !.read = TRUE, !.snap = truth]
<1>1. jobs = {j} /\ Checks = {} /\ up = {} /\ j \in Job
  BY HandlerAlone
<1>2. /\ r \in Job /\ r.step = j.step /\ r.answer = j.answer
      /\ r.snap = truth
  BY <1>1, ReadLemma DEF Inv, TypeOK
<1>3. jobs' = (jobs \ {j}) \cup {r}
  BY DEF ReadDatabase
<1> HIDE DEF r
<1>4. UNCHANGED <<truth, view, writes, recent, ongoing, timer, began, due,
                  down, up, failed, faults>>
  BY DEF ReadDatabase, conditionVars
<1>. QED
  BY <1>2, <1>3, <1>4, Goes DEF Inv, TypeOK, Quiet

\* A handler ends by sending the check m, with the conversation going on or
\* ending with it.
LEMMA Sends ==
  ASSUME Inv, NEW j \in jobs, jobs' = jobs \ {j},
         NEW m \in Message, m.type = "check", down' = Append(down, m),
         UNCHANGED <<truth, view, writes, up, failed, faults, began>>,
         recent' \in BOOLEAN, ongoing' \in BOOLEAN, timer' \in BOOLEAN,
         timer' => ~ongoing', ongoing' => ongoing, due' \in BOOLEAN,
         due' => due /\ ongoing' = ongoing,
         ongoing' /\ Current => Hashes(m)'
  PROVE  Inv'
<1>1. jobs = {j} /\ Checks = {} /\ up = {} /\ j \in Job
  BY HandlerAlone
<1>2. down \in Seq(Message)
  BY DEF Inv, TypeOK
<1>3. /\ down' \in Seq(Message) /\ Checks' = {Len(down')}
      /\ down'[Len(down')] = m
  BY <1>1, <1>2, ChecksAppend
<1>4. jobs' = {} /\ up' = {}
  BY <1>1
<1>5. TypeOK'
  BY <1>3, <1>4 DEF Inv, TypeOK
<1>6. OneToken'
  BY <1>3, <1>4 DEF OneToken
<1>7. Quiet'
  BY <1>1 DEF Inv, Quiet, NoToken
<1>8. CheckHasNextStep'
  BY <1>3 DEF CheckHasNextStep, Asking, Checks
<1>9. Honest' /\ began' \in Nat
  <2>1. ASSUME Current' PROVE Truthful'
    <3>1. Hashes(m)'
      BY <2>1 DEF Current
    <3>. QED
      BY <1>3, <1>4, <3>1 DEF Truthful
  <2>. QED
    BY <2>1 DEF Inv, Honest
<1>. QED
  BY <1>5, <1>6, <1>7, <1>8, <1>9 DEF Inv

\* A handler sends its check.
LEMMA SendCheckLemma ==
  ASSUME Inv, NEW j \in jobs, SendCheck(j)
  PROVE  Inv'
<1>1. j \in Job /\ j.snap \in [Keys -> Content] /\ j.read
  BY HandlerAlone DEF Job, SendCheck
<1>2. PICK m \in Message : /\ m.type = "check" /\ m.whole /\ m.hashes = j.snap
                           /\ down' = Append(down, m)
  BY <1>1, WholeLemma DEF SendCheck
<1>3. /\ jobs' = jobs \ {j}
      /\ UNCHANGED <<truth, view, writes, recent, ongoing, timer, began, due, up,
                     failed, faults>>
  BY DEF SendCheck, conditionVars
<1>4. ASSUME Current PROVE Hashes(m)'
  <2>1. Truthful
    BY <1>4 DEF Inv, Honest
  <2>2. j.snap = truth
    BY <1>1, <2>1 DEF Truthful
  <2>. QED
    BY <1>2, <1>3, <2>2 DEF Hashes
<1>. QED
  BY <1>2, <1>3, <1>4, Sends DEF Inv, TypeOK, Quiet

\* The keyserver receives the client's responses.
LEMMA ReceiveResponsesLemma ==
  ASSUME Inv, NEW a \in up, ReceiveResponses(a)
  PROVE  Inv'
<1>1. up = {a} /\ jobs = {} /\ Checks = {} /\ a \in Answer
  BY DEF Inv, OneToken, TypeOK
<1>2. /\ AnswerJob(a) \in Job /\ AnswerJob(a).step = "answer"
      /\ AnswerJob(a).answer = a /\ AnswerJob(a).read = FALSE
  BY <1>1, AnswerJobLemma
<1>3. /\ jobs' = {AnswerJob(a)} /\ up' = {} /\ ongoing' = ongoing
      /\ began' = began /\ recent' \in BOOLEAN /\ timer' \in BOOLEAN
      /\ timer' => ~ongoing'
      /\ UNCHANGED <<truth, view, writes, due, down, failed, faults>>
  BY <1>1 DEF ReceiveResponses, SetConditions, Inv, TypeOK
<1>4. Checks' = Checks /\ \A k \in Keys : Expected'[k] = Expected[k]
  BY <1>3, ExpectedFrame
<1>5. TypeOK'
  BY <1>2, <1>3 DEF Inv, TypeOK
<1>6. OneToken'
  BY <1>1, <1>3, <1>4 DEF OneToken
<1>7. Quiet'
  BY <1>1, <1>3 DEF Inv, Quiet, NoToken
<1>8. CheckHasNextStep'
  BY <1>3 DEF CheckHasNextStep, Asking
<1>9. Honest' /\ began' \in Nat
  <2>1. ASSUME Current' PROVE Truthful'
    <3>1. Truthful
      BY <1>3, <2>1 DEF Inv, Honest, Current
    <3>2. Told(a)'
      BY <1>3, <1>4, <3>1, ToldFrame DEF Truthful
    <3>. QED
      BY <1>1, <1>2, <1>3, <1>4, <3>2 DEF Truthful
  <2>. QED
    BY <1>3, <2>1 DEF Inv, Honest
<1>. QED
  BY <1>5, <1>6, <1>7, <1>8, <1>9 DEF Inv

\* A check that ends by validating the session without a last message finds
\* nothing to repair.
LEMMA FinishValidatedLemma ==
  ASSUME Inv, NEW j \in jobs, FinishValidated(j)
  PROVE  /\ Inv'
         /\ Current => Expected' = truth'
<1>1. jobs = {j} /\ Checks = {} /\ up = {} /\ j \in Job
  BY HandlerAlone
<1>2. /\ jobs' = {} /\ ~ongoing' /\ ongoing' \in BOOLEAN /\ began' = began
      /\ recent' \in BOOLEAN /\ timer' \in BOOLEAN /\ due' = FALSE
      /\ UNCHANGED <<truth, view, writes, down, up, failed, faults>>
  BY <1>1 DEF FinishValidated, SetConditions, Inv, TypeOK
<1>3. Checks' = Checks /\ \A k \in Keys : Expected'[k] = Expected[k]
  BY <1>2, ExpectedFrame
<1>4. TypeOK'
  BY <1>2 DEF Inv, TypeOK
<1>5. OneToken' /\ Quiet'
  BY <1>1, <1>2, <1>3 DEF OneToken, Quiet
<1>6. CheckHasNextStep' /\ Honest' /\ began' \in Nat
  BY <1>2 DEF Inv, CheckHasNextStep, Honest, Current
<1>7. ASSUME Current PROVE Expected' = truth'
  <2>1. Truthful
    BY <1>7 DEF Inv, Honest
  <2>2. Told(j.answer) /\ j.answer = AllMatch
    BY <2>1 DEF Truthful, FinishValidated
  <2>3. \A k \in Keys : Expected[k] = truth[k]
    BY <2>2 DEF Told, AllMatch
  <2>4. Expected' = [k \in Keys |-> Expected'[k]] /\ truth' = [k \in Keys |-> truth'[k]]
    BY <1>4 DEF Expected, TypeOK
  <2>. QED
    BY <1>2, <1>3, <2>3, <2>4
<1>. QED
  BY <1>4, <1>5, <1>6, <1>7 DEF Inv

\* What the request checkState makes of an answer brings the content of all
\* that the answer has named, and asks for the hashes of the threads if they
\* did not match.
LEMMA FinishInvalidLemma ==
  ASSUME Inv, NEW j \in jobs, FinishInvalid(j)
  PROVE  /\ Inv'
         /\ Current /\ ~ongoing' /\ (\E t \in Threads : truth[t] # 0)
              => Expected' = truth'
<1> DEFINE a == j.answer
<1>1. /\ j \in Job /\ a \in Answer /\ j.snap \in [Keys -> Content] /\ j.read
      /\ j.step = "answer"
  BY HandlerAlone DEF Job, FinishInvalid
<1>2. PICK m \in Message :
        /\ m.type = "check" /\ m.whole = FALSE /\ m.narrow = a.whole
        /\ m.hashes = [t \in {x \in Threads : a.whole /\ j.snap[x] # 0} |-> j.snap[t]]
        /\ m.changes = [k \in a.bad |-> j.snap[k]]
        /\ m = Request(a, j.snap)
  BY <1>1, RequestLemma, ZenonT(40)
<1>3. /\ jobs' = jobs \ {j} /\ down' = Append(down, m) /\ began' = began
      /\ recent' \in BOOLEAN /\ ongoing' \in BOOLEAN /\ timer' \in BOOLEAN
      /\ timer' => ~ongoing'
      /\ due' \in BOOLEAN
      /\ UNCHANGED <<truth, view, writes, up, failed, faults>>
      /\ \/ m.hashes = Nothing /\ ~due' /\ ~ongoing'
         \/ m.hashes # Nothing /\ due' = due /\ ongoing' = ongoing
  <2>1. /\ down' = Append(down, m)
        /\ IF m.hashes = Nothing
           THEN due' = FALSE /\ SetConditions(recent, FALSE, FALSE, jobs \ {j})
           ELSE jobs' = jobs \ {j} /\ UNCHANGED <<conditionVars, due>>
        /\ UNCHANGED <<truth, view, writes, up, failed, faults>>
    BY <1>2 DEF FinishInvalid
  <2>. QED
    BY <2>1 DEF SetConditions, conditionVars, Inv, TypeOK, Quiet
<1>4. (ongoing' => ongoing) /\ (due' => due /\ ongoing' = ongoing)
  BY <1>3
<1>5. ASSUME Current
      PROVE  /\ j.snap = truth
             /\ \A k \in Keys : Expected[k] # truth[k]
                  => k \in a.bad \/ (a.whole /\ k \in Threads)
  <2>1. Truthful
    BY <1>5 DEF Inv, Honest
  <2>2. j.snap = truth /\ Told(j.answer)
    BY <1>1, <2>1 DEF Truthful
  <2>. QED
    BY <2>2 DEF Told
<1>6. ASSUME Current
      PROVE  \A k \in Keys : Expected'[k] # truth[k]
               => k \notin a.bad /\ a.whole /\ k \in Threads
  <2>1. \A k \in Keys : Expected'[k] = IF k \in DOMAIN m.changes THEN m.changes[k]
                                       ELSE Expected[k]
    BY <1>3, ExpectedAppend DEF Inv, TypeOK
  <2>2. DOMAIN m.changes = a.bad /\ \A k \in a.bad : m.changes[k] = truth[k]
    BY <1>2, <1>5, <1>6
  <2>. QED
    BY <1>5, <1>6, <2>1, <2>2
<1>7. Inv'
  <2>1. ASSUME ongoing', Current PROVE Hashes(m)'
    <3>1. m.hashes # Nothing
      BY <1>3, <2>1
    <3>2. m.hashes = [t \in {x \in Threads : a.whole /\ truth[x] # 0} |-> truth[t]]
      BY <1>2, <1>5, <2>1
    <3>3. a.whole
      BY <3>1, <3>2 DEF Nothing
    <3>4. m.hashes = [t \in {x \in Threads : truth[x] # 0} |-> truth[t]]
      BY <3>2, <3>3
    <3>. QED
      BY <1>2, <1>3, <1>6, <2>1, <3>3, <3>4, ZenonT(40) DEF Hashes
  <2>. QED
    BY <1>2, <1>3, <1>4, <2>1, Sends
<1>8. ASSUME Current, ~ongoing', NEW t \in Threads, truth[t] # 0
      PROVE  Expected' = truth'
  <2>1. m.hashes = Nothing
    BY <1>3, <1>8 DEF Current
  <2>2. ~a.whole
    <3>1. ASSUME a.whole PROVE FALSE
      <4>1. t \in DOMAIN m.hashes
        BY <1>2, <1>5, <1>8, <3>1
      <4>. QED
        BY <2>1, <4>1 DEF Nothing
    <3>. QED
      BY <3>1
  <2>3. \A k \in Keys : Expected'[k] = truth[k]
    BY <1>6, <1>8, <2>2
  <2>4. Expected' = [k \in Keys |-> Expected'[k]] /\ truth = [k \in Keys |-> truth[k]]
    BY DEF Expected, Inv, TypeOK
  <2>. QED
    BY <1>3, <2>3, <2>4
<1>. QED
  BY <1>7, <1>8
\* A handler whose reply has timed out validates the session although what
\* its answer has named is not sent, or leaves the check under way.
LEMMA FinishLateLemma ==
  ASSUME Inv, NEW j \in jobs, FinishLate(j)
  PROVE  /\ Inv'
         /\ Current /\ ~ongoing' /\ (\E t \in Threads : truth[t] # 0)
              => /\ \A k \in Keys : Expected'[k] # truth'[k] => k \in j.answer.bad
                 /\ j \in jobs \ jobs' /\ j.late
<1> DEFINE a == j.answer
<1>1. /\ jobs = {j} /\ Checks = {} /\ up = {} /\ j \in Job /\ a \in Answer
      /\ j.snap \in [Keys -> Content] /\ j.read /\ j.step = "answer" /\ j.late
  BY HandlerAlone DEF Job, FinishLate
<1>2. PICK m \in Message :
        /\ m.hashes = [t \in {x \in Threads : a.whole /\ j.snap[x] # 0} |-> j.snap[t]]
        /\ m = Request(a, j.snap)
  BY <1>1, RequestLemma, ZenonT(40)
<1>3. /\ IF m.hashes = Nothing
         THEN /\ due' = FALSE /\ SetConditions(recent, FALSE, FALSE, jobs \ {j})
              /\ failed' = failed
         ELSE /\ jobs' = jobs \ {j} /\ failed' = (failed \/ ongoing)
              /\ UNCHANGED <<conditionVars, due>>
      /\ UNCHANGED <<truth, view, writes, down, up, faults>>
  BY <1>2 DEF FinishLate
<1>4. CASE m.hashes = Nothing
  <2>1. /\ jobs' = {} /\ ~ongoing' /\ ongoing' \in BOOLEAN /\ began' = began
        /\ recent' \in BOOLEAN /\ timer' \in BOOLEAN /\ due' = FALSE
        /\ UNCHANGED <<truth, view, writes, down, up, failed, faults>>
    BY <1>1, <1>3, <1>4 DEF SetConditions, Inv, TypeOK
  <2>2. Checks' = Checks /\ \A k \in Keys : Expected'[k] = Expected[k]
    BY <2>1, ExpectedFrame
  <2>3. TypeOK'
    BY <2>1 DEF Inv, TypeOK
  <2>4. OneToken' /\ Quiet'
    BY <1>1, <2>1, <2>2 DEF OneToken, Quiet
  <2>5. CheckHasNextStep' /\ Honest' /\ began' \in Nat
    BY <2>1 DEF Inv, CheckHasNextStep, Honest, Current
  <2>6. ASSUME Current, NEW t \in Threads, truth[t] # 0,
               NEW k \in Keys, Expected'[k] # truth'[k]
        PROVE  k \in a.bad
    <3>1. Truthful
      BY <2>6 DEF Inv, Honest
    <3>2. j.snap = truth /\ Told(j.answer)
      BY <1>1, <3>1 DEF Truthful
    <3>3. ~a.whole
      <4>1. ASSUME a.whole PROVE FALSE
        <5>1. t \in DOMAIN m.hashes
          BY <1>2, <2>6, <3>2, <4>1
        <5>. QED
          BY <1>4, <5>1 DEF Nothing
      <4>. QED
        BY <4>1
    <3>4. Expected[k] # truth[k]
      BY <2>1, <2>2, <2>6
    <3>. QED
      BY <3>2, <3>3, <3>4 DEF Told
  <2>. QED
    BY <1>1, <2>1, <2>3, <2>4, <2>5, <2>6 DEF Inv
<1>5. CASE m.hashes # Nothing
  <2>1. /\ jobs' = jobs \ {j} /\ failed' = (failed \/ ongoing)
        /\ UNCHANGED <<truth, view, writes, recent, ongoing, timer, began, due,
                       down, up, faults>>
    BY <1>3, <1>5 DEF conditionVars
  <2>2. Inv'
    BY <2>1, Breaks DEF Inv, TypeOK, Quiet
  <2>. QED
    BY <2>1, <2>2 DEF Current
<1>. QED
  BY <1>4, <1>5
-----------------------------------------------------------------------------
(* The client.                                                             *)

\* The types once the client has read a message.
LEMMA ReceiveTypes ==
  ASSUME Inv, down # << >>, down' = Tail(down), view' = Apply(Head(down).changes),
         UNCHANGED <<truth, writes, recent, ongoing, timer, began, due, jobs,
                     failed, faults>>,
         up' \subseteq Answer
  PROVE  TypeOK'
<1>1. down' \in Seq(Message) /\ Head(down) \in Message
  BY ChecksRead DEF Inv, TypeOK
<1>2. view' \in [Keys -> Content]
  BY <1>1, ApplyLemma DEF Inv, TypeOK
<1>. QED
  BY <1>1, <1>2 DEF Inv, TypeOK

\* The client receives an update.
LEMMA ReceiveUpdatesLemma ==
  ASSUME Inv, ReceiveUpdates
  PROVE  Inv'
<1> DEFINE n == Len(down)
<1>1. /\ down # << >> /\ Head(down).type = "updates" /\ down' = Tail(down)
      /\ view' = Apply(Head(down).changes)
      /\ UNCHANGED <<truth, writes, recent, ongoing, timer, began, due, jobs, up,
                     failed, faults>>
  BY DEF ReceiveUpdates, conditionVars
<1>2. down \in Seq(Message)
  BY DEF Inv, TypeOK
<1>3. /\ n \in Nat /\ Len(down') = n - 1
      /\ Checks \subseteq 1..n /\ Checks' \subseteq 1..(n - 1)
      /\ 1 \notin Checks
      /\ \A i \in 1..(n - 1) : /\ i \in Checks' <=> i + 1 \in Checks
                               /\ down'[i] = down[i + 1]
  BY <1>1, <1>2, ChecksRead
<1>4. \A k \in Keys : Expected'[k] = Expected[k]
  BY <1>1, <1>2, ExpectedRead
<1> HIDE DEF n
<1>5. \A i \in Checks' : i + 1 \in Checks /\ down'[i] = down[i + 1] /\ i \in Nat
  BY <1>3
<1>6. Checks' = {} <=> Checks = {}
  <2>1. \A i \in Checks : i - 1 \in 1..(n - 1) /\ (i - 1) + 1 = i
    BY <1>3
  <2>2. \A i \in Checks : i - 1 \in Checks'
    BY <1>3, <2>1
  <2>. QED
    BY <1>5, <2>2
<1>7. TypeOK'
  BY <1>1, ReceiveTypes DEF Inv, TypeOK
<1>8. OneToken'
  <2>1. ASSUME NEW i \in Checks', NEW l \in Checks' PROVE i = l
    <3>1. i + 1 = l + 1 /\ i \in Nat /\ l \in Nat
      BY <1>5 DEF Inv, OneToken
    <3>. QED
      BY <3>1
  <2>. QED
    BY <1>1, <1>6, <2>1 DEF Inv, OneToken
<1>9. NoToken' <=> NoToken
  BY <1>1, <1>6 DEF NoToken
<1>10. Quiet'
  BY <1>1, <1>9 DEF Inv, Quiet
<1>11. CheckHasNextStep'
  <2>1. Asking' <=> ~NoToken'
    BY DEF Asking, NoToken, Checks
  <2>. QED
    BY <1>1, <1>9, <2>1, AskingLemma DEF Inv, CheckHasNextStep
<1>12. Honest' /\ began' \in Nat
  <2>1. ASSUME Current' PROVE Truthful'
    <3>1. Truthful
      BY <1>1, <2>1 DEF Inv, Honest, Current
    <3>2. \A i \in Checks' : i = Len(down')
      <4>1. ASSUME NEW i \in Checks' PROVE i = Len(down')
        <5>1. i + 1 = n /\ i \in Nat
          BY <1>5, <3>1 DEF Truthful, n
        <5>. QED
          BY <1>3, <5>1
      <4>. QED
        BY <4>1
    <3>3. ASSUME NEW m \in Message, NEW i \in Checks', m = down'[i]
          PROVE  Hashes(m)'
      <4>1. i + 1 \in Checks /\ m = down[i + 1]
        BY <1>5, <3>3
      <4>2. Hashes(m)
        BY <3>1, <4>1 DEF Truthful
      <4>. QED
        BY <1>1, <1>4, <4>2, HashesFrame
    <3>4. ASSUME NEW j \in jobs'
          PROVE  /\ j.read => j.snap = truth'
                 /\ j.step = "answer" => Told(j.answer)'
      BY <1>1, <1>4, <3>1, ToldFrame DEF Truthful
    <3>5. \A a \in up' : Told(a)'
      BY <1>1, <1>4, <3>1, ToldFrame DEF Truthful
    <3>. QED
      BY <3>2, <3>3, <3>4, <3>5 DEF Truthful
  <2>. QED
    BY <1>1, <2>1 DEF Inv, Honest
<1>. QED
  BY <1>7, <1>8, <1>10, <1>11, <1>12 DEF Inv

\* An answer to hashes of the truth reports what differs from it.
LEMMA CompareTold ==
  ASSUME NEW m \in Message, Hashes(m), truth \in [Keys -> Content],
         NEW v, \A l \in Keys : v[l] = Expected[l],
         NEW k \in Keys, v[k] # truth[k]
  PROVE  k \in Compare(m, v).bad \/ (Compare(m, v).whole /\ k \in Threads)
<1> DEFINE differ == {l \in DOMAIN m.hashes : v[l] # m.hashes[l]}
           unmentioned == {t \in Threads \ DOMAIN m.hashes : v[t] # 0}
<1>1. CASE m.whole
  <2>1. m.hashes = truth /\ DOMAIN m.hashes = Keys
    BY <1>1 DEF Hashes
  <2>2. k \in differ
    BY <2>1
  <2>3. Compare(m, v) = [whole |-> differ \cap Threads # {}, bad |-> differ \cap Singles]
    BY <1>1 DEF Compare
  <2> DEFINE whole == differ \cap Threads # {}
             bad   == differ \cap Singles
  <2> HIDE DEF whole, bad
  <2>4. Compare(m, v) = [whole |-> whole, bad |-> bad]
    BY <2>3 DEF whole, bad
  <2>5. Compare(m, v).whole = whole /\ Compare(m, v).bad = bad
    BY <2>4
  <2>. QED
    BY <2>2, <2>5 DEF Keys, whole, bad
<1>2. CASE ~m.whole
  <2>1. /\ m.narrow
        /\ m.hashes = [t \in {x \in Threads : truth[x] # 0} |-> truth[t]]
        /\ k \in Threads
    BY <1>2 DEF Hashes
  <2>2. k \in differ \cup unmentioned
    <3>1. CASE truth[k] # 0
      BY <2>1, <3>1
    <3>2. CASE truth[k] = 0
      <4>1. k \notin DOMAIN m.hashes
        BY <2>1, <3>2
      <4>. QED
        BY <2>1, <3>2, <4>1
    <3>. QED
      BY <3>1, <3>2
  <2>3. Compare(m, v) = [whole |-> FALSE, bad |-> differ \cup unmentioned]
    BY <1>2, <2>1 DEF Compare
  <2> HIDE DEF differ, unmentioned
  <2>. QED
    BY <2>2, <2>3
<1>. QED
  BY <1>1, <1>2

\* The client receives a check.
LEMMA ReceiveCheckLemma ==
  ASSUME Inv, ReceiveCheck
  PROVE  Inv'
<1> DEFINE n == Len(down)
<1>1. PICK m \in Message, a \in Answer :
        /\ m = Head(down) /\ m.type = "check" /\ view' = Apply(m.changes)
        /\ a = Compare(m, view') /\ up' = up \cup {a}
  <2>1. down # << >> /\ Head(down) \in Message
    BY ChecksRead DEF ReceiveCheck, Inv, TypeOK
  <2>. QED
    BY <2>1, CompareLemma DEF ReceiveCheck
<1>2. /\ down # << >> /\ down' = Tail(down)
      /\ UNCHANGED <<truth, writes, recent, ongoing, timer, began, due, jobs,
                     failed, faults>>
  BY DEF ReceiveCheck, conditionVars
<1>3. down \in Seq(Message) /\ up \subseteq Answer
  BY DEF Inv, TypeOK
<1>4. /\ n \in Nat /\ Len(down') = n - 1 /\ down' \in Seq(Message)
      /\ Checks \subseteq 1..n /\ Checks' \subseteq 1..(n - 1)
      /\ 1 \in Checks /\ m = down[1]
      /\ \A i \in 1..(n - 1) : i \in Checks' <=> i + 1 \in Checks
  BY <1>1, <1>2, <1>3, ChecksRead
<1>5. Checks = {1} /\ jobs = {} /\ up = {}
  BY <1>4 DEF Inv, OneToken
<1>6. Checks' = {}
  <2>1. ASSUME NEW i \in Checks' PROVE FALSE
    <3>1. i + 1 = 1 /\ i \in 1..(n - 1)
      BY <1>4, <1>5, <2>1
    <3>. QED
      BY <1>4, <3>1
  <2>. QED
    BY <2>1
<1>7. up' = {a} /\ jobs' = {}
  BY <1>1, <1>2, <1>5
<1>8. TypeOK'
  BY <1>1, <1>2, <1>3, ReceiveTypes
<1>9. OneToken'
  BY <1>6, <1>7 DEF OneToken
<1>10. Quiet'
  BY <1>2, <1>5 DEF Inv, Quiet, NoToken
<1>11. CheckHasNextStep'
  BY <1>7 DEF CheckHasNextStep, Asking
<1>12. Honest' /\ began' \in Nat
  <2>1. ASSUME Current' PROVE Truthful'
    <3>1. Truthful
      BY <1>2, <2>1 DEF Inv, Honest, Current
    <3>2. Hashes(m)
      BY <1>4, <3>1 DEF Truthful
    <3>3. down' = << >>
      <4>1. n = 1
        BY <1>4, <3>1 DEF Truthful
      <4>. QED
        BY <1>4, <4>1, EmptySeq
    <3>4. \A k \in Keys : Expected'[k] = view'[k]
      <4>1. ASSUME NEW k \in Keys PROVE Expected'[k] = view'[k]
        <5>1. About(k)' = {}
          BY <3>3 DEF About
        <5>. QED
          BY <5>1, ExpectedIsPrimed
      <4>. QED
        BY <4>1
    <3>5. \A k \in Keys : Expected'[k] = Expected[k]
      BY <1>1, <1>2, <1>3, ExpectedRead
    <3>6. Told(a)'
      <4>1. ASSUME NEW k \in Keys, Expected'[k] # truth'[k]
            PROVE  k \in a.bad \/ (a.whole /\ k \in Threads)
        <5>1. view'[k] # truth[k] /\ \A l \in Keys : view'[l] = Expected[l]
          BY <1>2, <3>4, <3>5, <4>1
        <5>2. truth \in [Keys -> Content]
          BY DEF Inv, TypeOK
        <5> DEFINE v == view'
        <5>3. a = Compare(m, v)
          BY <1>1
        <5>4. v[k] # truth[k] /\ \A l \in Keys : v[l] = Expected[l]
          BY <5>1
        <5> HIDE DEF v
        <5>. QED
          BY <3>2, <5>2, <5>3, <5>4, CompareTold
      <4>. QED
        BY <4>1 DEF Told
    <3>. QED
      BY <1>6, <1>7, <3>6 DEF Truthful
  <2>. QED
    BY <1>2, <2>1 DEF Inv, Honest
<1>. QED
  BY <1>8, <1>9, <1>10, <1>11, <1>12 DEF Inv
-----------------------------------------------------------------------------
(* The theorems.                                                           *)

LEMMA InitLemma == Init => Inv
<1> SUFFICES ASSUME Init PROVE Inv
  OBVIOUS
<1>1. 0 \in Content /\ 0 \in 0..MaxFaults
  BY BoundsAssumption DEF Content
<1>2. TypeOK
  BY <1>1, EmptySeq DEF Init, TypeOK
<1>3. Checks = {} /\ jobs = {} /\ up = {}
  BY DEF Init, Checks
<1>. QED
  BY <1>2, <1>3
  DEF Init, Inv, OneToken, Quiet, NoToken, CheckHasNextStep, Honest, Current

\* Each step preserves the invariant, and when a check ends with the content
\* unchanged since it began, only what a time-out dropped is left to repair.
LEMMA NextLemma ==
  ASSUME Inv, Next
  PROVE  /\ Inv'
         /\ ongoing /\ ~ongoing' /\ ~Reconnect /\ writes' = began
            /\ (\E t \in Threads : truth[t] # 0)
            => \A k \in Keys : \/ Expected'[k] = truth'[k]
                              \/ \E j \in jobs \ jobs' : j.late /\ k \in j.answer.bad
<1>1. CASE ActivityEnds
  BY <1>1, ActivityEndsLemma DEF ActivityEnds, SetConditions
<1>2. CASE TimerFires
  BY <1>2, TimerFiresLemma DEF TimerFires
<1>3. CASE TimePasses
  BY <1>3, TimePassesLemma DEF TimePasses, conditionVars
<1>4. ASSUME NEW k \in Keys, NEW c \in Content, WriteMissed(k, c)
      PROVE  Inv' /\ (ongoing => ongoing')
  BY <1>4, WriteMissedLemma DEF WriteMissed, conditionVars
<1>5. ASSUME NEW k \in Keys, NEW c \in Content, WriteDelivered(k, c)
      PROVE  Inv' /\ (ongoing => ongoing')
  BY <1>5, WriteDeliveredLemma DEF WriteDelivered, SetConditions
<1>6. ASSUME NEW j \in jobs, ReadDatabase(j)
      PROVE  Inv' /\ (ongoing => ongoing')
  BY <1>6, ReadDatabaseLemma DEF ReadDatabase, conditionVars
<1>7. ASSUME NEW j \in jobs, SendCheck(j)
      PROVE  Inv' /\ (ongoing => ongoing')
  BY <1>7, SendCheckLemma DEF SendCheck, conditionVars
<1>8. ASSUME NEW j \in jobs, FinishValidated(j)
      PROVE  Inv' /\ (ongoing /\ writes' = began => Expected' = truth')
  BY <1>8, FinishValidatedLemma DEF FinishValidated, Current
<1>9. ASSUME NEW j \in jobs, FinishInvalid(j)
      PROVE  /\ Inv'
             /\ ongoing /\ ~ongoing' /\ writes' = began
                /\ (\E t \in Threads : truth[t] # 0) => Expected' = truth'
  BY <1>9, FinishInvalidLemma DEF FinishInvalid, Current
<1>10. ASSUME NEW a \in up, ReceiveResponses(a)
       PROVE  Inv' /\ (ongoing => ongoing')
  BY <1>10, ReceiveResponsesLemma DEF ReceiveResponses, SetConditions
<1>11. CASE ReceiveUpdates
  BY <1>11, ReceiveUpdatesLemma DEF ReceiveUpdates, conditionVars
<1>12. CASE ReceiveCheck
  BY <1>12, ReceiveCheckLemma DEF ReceiveCheck, conditionVars
<1>13. ASSUME NEW j \in jobs,
              HandlerTimesOut(j) \/ HandlerThrows(j) \/ AnswerSentAgain(j)
       PROVE  Inv' /\ (ongoing => ongoing')
  <2>1. CASE HandlerTimesOut(j)
    BY <2>1, HandlerTimesOutLemma DEF HandlerTimesOut, SetConditions
  <2>2. CASE HandlerThrows(j)
    <3>1. ongoing' = ongoing
      <4>1. CASE SetConditions(TRUE, ongoing, due, jobs \ {j})
        BY <4>1 DEF SetConditions, Inv, TypeOK
      <4>2. CASE UNCHANGED conditionVars
        BY <4>2 DEF conditionVars
      <4>. QED
        BY <2>2, <4>1, <4>2 DEF HandlerThrows
    <3>. QED
      BY <2>2, <3>1, HandlerThrowsLemma
  <2>3. CASE AnswerSentAgain(j)
    BY <2>3, AnswerSentAgainLemma DEF AnswerSentAgain, SetConditions
  <2>. QED
    BY <1>13, <2>1, <2>2, <2>3
<1>14. CASE Reconnect
  BY <1>14, ReconnectLemma
<1>15. ASSUME NEW j \in jobs, FinishLate(j)
       PROVE  /\ Inv'
              /\ ongoing /\ ~ongoing' /\ writes' = began
                 /\ (\E t \in Threads : truth[t] # 0)
                 => \A k \in Keys :
                      \/ Expected'[k] = truth'[k]
                      \/ \E i \in jobs \ jobs' : i.late /\ k \in i.answer.bad
  <2>1. UNCHANGED writes
    BY <1>15 DEF FinishLate
  <2>. QED
    BY <1>15, <2>1, FinishLateLemma DEF Current
<1>. QED
  BY <1>1, <1>2, <1>3, <1>4, <1>5, <1>6, <1>7, <1>8, <1>9, <1>10, <1>11, <1>12,
     <1>13, <1>14, <1>15 DEF Next, JobStep

\* Nothing changes.
LEMMA StutterLemma ==
  ASSUME Inv, UNCHANGED vars
  PROVE  Inv'
<1>1. due' \in BOOLEAN /\ recent' \in BOOLEAN /\ timer' \in BOOLEAN
  BY DEF vars, conditionVars, Inv, TypeOK
<1>. QED
  BY <1>1, Still DEF vars, conditionVars, Inv, Quiet

\* The invariant holds always.
LEMMA Invariance == Spec => []Inv
<1>1. Inv /\ [Next]_vars => Inv'
  BY NextLemma, StutterLemma
<1>. QED
  BY <1>1, InitLemma, PTL DEF Spec

\* Every variable has its type.
THEOREM TypeCorrect == Spec => []TypeOK
<1>1. Inv => TypeOK
  BY DEF Inv
<1>. QED
  BY <1>1, Invariance, PTL

\* While stateCheckOngoing keeps further checks from starting, a handler, a
\* check or an answer is under way, or a handler of the socket has failed.
THEOREM NextStep == Spec => []CheckHasNextStep
<1>1. Inv => CheckHasNextStep
  BY DEF Inv
<1>. QED
  BY <1>1, Invariance, PTL

\* Some of the elements of a set that has one at most.
LEMMA SingleLemma ==
  ASSUME NEW S, NEW T \in SUBSET S, \A x, y \in S : x = y
  PROVE  (Cardinality(T) = 0 /\ T = {}) \/ (Cardinality(T) = 1 /\ T # {})
<1>1. T = {} \/ \E x : T = {x}
  OBVIOUS
<1>. QED
  BY <1>1, FS_EmptySet, FS_Singleton

\* stateCheckOngoing does what it is there for: the socket's session is in
\* one conversation of a state check at a time.
THEOREM OneConversation == Spec => []OneCheckAtATime
<1>1. ASSUME Inv PROVE OneCheckAtATime
  <2> DEFINE J == InConversation.jobs
             D == InConversation.down
  <2>1. J \subseteq jobs /\ D \subseteq Checks
    BY DEF InConversation, Checks
  <2>2. (Cardinality(J) = 0 /\ J = {}) \/ (Cardinality(J) = 1 /\ J # {})
    BY <1>1, <2>1, SingleLemma DEF Inv, OneToken
  <2>3. (Cardinality(D) = 0 /\ D = {}) \/ (Cardinality(D) = 1 /\ D # {})
    BY <1>1, <2>1, SingleLemma DEF Inv, OneToken
  <2>4. J = {} \/ D = {}
    BY <1>1, <2>1 DEF Inv, OneToken
  <2> HIDE DEF J, D
  <2>5. Cardinality(J) + Cardinality(D) <= 1
    BY <2>2, <2>3, <2>4
  <2>. QED
    BY <2>5 DEF OneCheckAtATime, J, D
<1>. QED
  BY <1>1, Invariance, PTL

\* checkState validates a session only when its client has, or is being
\* sent, all that differs from the database but the keys whose content was to
\* be in a reply that timed out, unless the database has changed since the
\* check began or has none of the client's threads.
THEOREM CheckRepairsAll == Spec => OneCheckRepairsAll
<1>1. Inv /\ [Next]_vars =>
        [/\ ongoing /\ ~ongoing' /\ ~Reconnect /\ writes' = began
         /\ \E t \in Threads : truth[t] # 0
         => \A k \in Keys : \/ Expected'[k] = truth'[k]
                           \/ \E j \in jobs \ jobs' : j.late /\ k \in j.answer.bad]_vars
  BY NextLemma
<1>. QED
  BY <1>1, Invariance, PTL DEF Spec, OneCheckRepairsAll
=============================================================================
