--------------------------- MODULE ServerQueueProofs ---------------------------
(***************************************************************************)
(* Proofs about ServerQueue, for every list of tasks, every number of       *)
(* requests, slots, rounds, failures and sleeps: where a task is, and what  *)
(* becomes of its result.                                                   *)
(***************************************************************************)
EXTENDS ServerQueue, FiniteSetTheorems, SequenceTheorems, WellFoundedInduction, TLAPS

-----------------------------------------------------------------------------
(***************************************************************************)
(* remove_if: what Kept keeps, and that it keeps it once.                   *)
(***************************************************************************)
\* A set of naturals that is not empty has a least element.
LEMMA LeastExists ==
    ASSUME NEW T, T \subseteq Nat, T # {}
    PROVE  \E n \in T : \A m \in T : n <= m
<1>1. PICK n \in T : \A m \in T : ~ (<<m, n>> \in OpToRel(<, Nat))
  BY WFMin, NatLessThanWellFounded
<1>2. \A m \in T : ~ (m < n)
  BY <1>1, Zenon DEF OpToRel
<1> QED
  BY <1>2

\* f[n] is what is kept of the first n elements of q: the function that Kept computes.
Keeps(f, q, S) ==
    f = [k \in 0..Len(q) |-> IF k = 0 THEN <<>>
                             ELSE IF q[k] \in S THEN f[k - 1]
                             ELSE Append(f[k - 1], q[k])]

\* There is such a function for every sequence.
LEMMA KeepsExists ==
    ASSUME NEW q, Len(q) \in Nat, NEW S
    PROVE  \E f : Keeps(f, q, S)
<1> DEFINE Step(f, k) == IF k = 0 THEN <<>>
                         ELSE IF q[k] \in S THEN f[k - 1] ELSE Append(f[k - 1], q[k])
           Up(f, n) == f = [k \in 0..n |-> Step(f, k)]
           T == {n \in 0..Len(q) : ~ \E f : Up(f, n)}
<1>1. T = {}
  <2>1. SUFFICES ASSUME T # {}  PROVE FALSE
    OBVIOUS
  <2>a. T \subseteq Nat
    OBVIOUS
  <2> HIDE DEF T
  <2>2. PICK n \in T : \A m \in T : n <= m
    BY <2>1, <2>a, LeastExists
  <2>b. n \in Nat /\ n - 1 \notin T
    BY <2>2, <2>a
  <2> USE DEF T
  <2>3. n # 0
    <3>1. Up([k \in 0..0 |-> <<>>], 0)
      OBVIOUS
    <3> QED  BY <3>1
  <2>4. n - 1 \in 0..Len(q) /\ n - 1 \notin T
    <3>1. n \in 0..Len(q)
      BY <2>2
    <3> HIDE DEF T
    <3> QED  BY <2>b, <2>3, <3>1
  <2>5. PICK f : Up(f, n - 1)
    BY <2>4
  <2> DEFINE g == [k \in 0..n |-> IF k = n THEN Step(f, n) ELSE f[k]]
  <2>6. \A k \in 0..n : g[k] = Step(g, k)
    <3> TAKE k \in 0..n
    <3>1. CASE k = n
      <4>1. g[n - 1] = f[n - 1] /\ n \in Nat
        BY <2>3
      <4> QED  BY <3>1, <4>1, <2>3
    <3>2. CASE k # n
      <4>1. g[k] = f[k] /\ k \in 0..n - 1
        BY <3>2
      <4>2. f[k] = Step(f, k)
        BY <4>1, <2>5
      <4>3. k # 0 => g[k - 1] = f[k - 1]
        BY <4>1
      <4> QED  BY <4>1, <4>2, <4>3
    <3> QED  BY <3>1, <3>2
  <2>7. Up(g, n)
    <3>1. [k \in 0..n |-> Step(g, k)] = [k \in 0..n |-> g[k]]
      BY <2>6
    <3>2. [k \in 0..n |-> g[k]] = g
      OBVIOUS
    <3> HIDE DEF g, Step
    <3> QED  BY <3>1, <3>2
  <2> HIDE DEF g, Up
  <2> QED
    BY <2>2, <2>7
<1>2. \E f : Up(f, Len(q))
  BY <1>1
<1> QED
  BY <1>2 DEF Keeps

\* What is kept: the elements that are not in S, each from a place of its own.
KeepsWell(p, q, S, n) ==
    \E g \in [1..Len(p) -> 1..n] :
        /\ \A k \in 1..Len(p) : p[k] = q[g[k]] /\ p[k] \notin S
        /\ \A j, k \in 1..Len(p) : g[j] = g[k] => j = k
        /\ \A j \in 1..n : q[j] \notin S => \E k \in 1..Len(p) : g[k] = j

LEMMA KeptFacts ==
    ASSUME NEW E, NEW q \in Seq(E), NEW S
    PROVE  Kept(q, S) \in Seq(E) /\ KeepsWell(Kept(q, S), q, S, Len(q))
<1> DEFINE kept == CHOOSE f : Keeps(f, q, S)
<1>1. Kept(q, S) = kept[Len(q)]
  BY DEF Kept, Keeps
<1>2. Keeps(kept, q, S)
  <2>1. Len(q) \in Nat
    OBVIOUS
  <2> QED  BY <2>1, KeepsExists
<1>3. \A k \in 0..Len(q) : kept[k] = IF k = 0 THEN <<>>
                                     ELSE IF q[k] \in S THEN kept[k - 1]
                                     ELSE Append(kept[k - 1], q[k])
  BY <1>2 DEF Keeps
<1> DEFINE Good(n) == kept[n] \in Seq(E) /\ KeepsWell(kept[n], q, S, n)
           T == {n \in 0..Len(q) : ~ Good(n)}
<1> HIDE DEF kept
<1>4. T = {}
  <2>1. SUFFICES ASSUME T # {}  PROVE FALSE
    OBVIOUS
  <2>a. T \subseteq Nat
    OBVIOUS
  <2> HIDE DEF T
  <2>2. PICK n \in T : \A m \in T : n <= m
    BY <2>1, <2>a, LeastExists
  <2>b. n \in Nat /\ n - 1 \notin T
    BY <2>2, <2>a
  <2> USE DEF T
  <2>3. n # 0
    <3>1. kept[0] = <<>>
      BY <1>3
    <3>2. KeepsWell(<<>>, q, S, 0)
      <4>1. [k \in 1..0 |-> 1] \in [1..0 -> 1..0] /\ Len(<<>>) = 0
        OBVIOUS
      <4>2. \A k \in 1..0 : FALSE
        OBVIOUS
      <4> QED  BY <4>1, <4>2, Zenon DEF KeepsWell
    <3>3. Good(0)
      BY <3>1, <3>2
    <3> HIDE DEF Good
    <3> QED  BY <2>2, <3>3
  <2>4. Good(n - 1) /\ n \in 1..Len(q)
    <3>1. n \in 0..Len(q) /\ n - 1 \in 0..Len(q)
      BY <2>2, <2>3
    <3>2. n - 1 \in 0..Len(q) /\ ~ Good(n - 1) => n - 1 \in T
      OBVIOUS
    <3> HIDE DEF T, Good
    <3> QED  BY <2>b, <2>3, <3>1, <3>2
  <2> DEFINE p == kept[n - 1]
  <2>5. PICK g \in [1..Len(p) -> 1..n - 1] :
          /\ \A k \in 1..Len(p) : p[k] = q[g[k]] /\ p[k] \notin S
          /\ \A j, k \in 1..Len(p) : g[j] = g[k] => j = k
          /\ \A j \in 1..n - 1 : q[j] \notin S => \E k \in 1..Len(p) : g[k] = j
    BY <2>4 DEF KeepsWell
  <2>6. kept[n] = IF q[n] \in S THEN p ELSE Append(p, q[n])
    BY <2>4, <1>3
  <2>7. p \in Seq(E) /\ q[n] \in E
    BY <2>4
  <2> HIDE DEF p
  <2>8. CASE q[n] \in S
    <3>1. g \in [1..Len(p) -> 1..n]
      BY <2>4, <2>5
    <3>2. \A j \in 1..n : q[j] \notin S => j \in 1..n - 1
      BY <2>4, <2>8
    <3>3. \A j \in 1..n : q[j] \notin S => \E k \in 1..Len(p) : g[k] = j
      BY <2>5, <3>2, Zenon
    <3>4. KeepsWell(p, q, S, n)
      BY <2>5, <3>1, <3>3, Zenon DEF KeepsWell
    <3> QED  BY <2>2, <2>6, <2>7, <2>8, <3>4
  <2>9. CASE q[n] \notin S
    <3> DEFINE a == Append(p, q[n])
               h == [k \in 1..Len(a) |-> IF k = Len(a) THEN n ELSE g[k]]
    <3>1. a \in Seq(E) /\ Len(a) = Len(p) + 1 /\ a[Len(a)] = q[n] /\ Len(p) \in Nat
          /\ \A k \in 1..Len(p) : a[k] = p[k]
      BY <2>7
    <3> HIDE DEF a
    <3>2. h \in [1..Len(a) -> 1..n]
      BY <3>1, <2>4, <2>5
    <3>3. \A k \in 1..Len(a) : a[k] = q[h[k]] /\ a[k] \notin S
      BY <3>1, <2>5, <2>9
    <3>4. \A j, k \in 1..Len(a) : h[j] = h[k] => j = k
      <4> TAKE j, k \in 1..Len(a)
      <4>1. \A i \in 1..Len(a) : i # Len(a) => i \in 1..Len(p) /\ h[i] = g[i] /\ g[i] \in 1..n - 1
        BY <3>1, <2>5
      <4>2. h[Len(a)] = n /\ n \notin 1..n - 1
        BY <3>1, <2>4
      <4> HIDE DEF h
      <4> QED  BY <4>1, <4>2, <2>5
    <3>5. \A j \in 1..n : q[j] \notin S => \E k \in 1..Len(a) : h[k] = j
      <4> TAKE j \in 1..n
      <4>1. CASE j = n
        <5>1. Len(a) \in 1..Len(a) /\ h[Len(a)] = n
          BY <3>1
        <5> QED  BY <4>1, <5>1
      <4>2. CASE j # n
        BY <4>2, <3>1, <2>5, <2>4
      <4> QED  BY <4>1, <4>2
    <3> HIDE DEF h
    <3>6. KeepsWell(a, q, S, n)
      BY <3>2, <3>3, <3>4, <3>5 DEF KeepsWell
    <3> QED  BY <2>2, <2>6, <2>9, <3>1, <3>6 DEF a
  <2> QED
    BY <2>8, <2>9
<1>5. Len(q) \in 0..Len(q)
  OBVIOUS
<1> QED
  BY <1>1, <1>4, <1>5

-----------------------------------------------------------------------------
(***************************************************************************)
(* The tasks of a queue: which there are of a type, and that each is in it  *)
(* once.                                                                    *)
(***************************************************************************)
TaskIds == 0..Len(Jobs)
TaskSet == [type : {"none", "run", "cancel", "next"}, id : TaskIds]

Named(q, ty) == {q[k].id : k \in {j \in 1..Len(q) : q[j].type = ty}}
OnceIn(q) == \A j, k \in 1..Len(q) :
                 q[j].type = "run" /\ q[k].type = "run" /\ q[j].id = q[k].id => j = k
Elems(d) == {d[k] : k \in 1..Len(d)}
Distinct(d) == \A j, k \in 1..Len(d) : d[j] = d[k] => j = k

LEMMA JobsFacts ==
    /\ Len(Jobs) \in Nat /\ NSlots \in Nat \ {0} /\ 0 \notin Ids /\ Ids \subseteq TaskIds /\ Ids \subseteq Nat
    /\ 0 \notin Slots /\ Slots \subseteq Nat
    /\ \A i \in Ids : Jobs[i].req \in Requests
    /\ "loop" \notin Requests /\ MaxRounds \in Nat
<1>1. Len(Jobs) \in Nat /\ NSlots \in Nat \ {0} /\ MaxRounds \in Nat /\ "loop" \notin Requests
  BY JobsAssumption, BoundAssumption
<1>2. \A i \in Ids : Jobs[i].req \in Requests
  BY DEF Requests
<1> QED
  BY <1>1, <1>2 DEF Ids, Slots, TaskIds

\* front and pop_front.
LEMMA TailFacts ==
    ASSUME NEW q \in Seq(TaskSet), q # <<>>
    PROVE  /\ Tail(q) \in Seq(TaskSet) /\ Head(q) \in TaskSet
           /\ \A ty : Named(q, ty) = Named(Tail(q), ty)
                                      \cup (IF Head(q).type = ty THEN {Head(q).id} ELSE {})
           /\ OnceIn(q) => /\ OnceIn(Tail(q))
                           /\ Head(q).type = "run" => Head(q).id \notin Named(Tail(q), "run")
<1>1. /\ Tail(q) \in Seq(TaskSet) /\ Head(q) \in TaskSet /\ Len(q) \in Nat \ {0}
      /\ Head(q) = q[1] /\ Len(Tail(q)) = Len(q) - 1
      /\ \A k \in 1..Len(q) - 1 : Tail(q)[k] = q[k + 1]
  OBVIOUS
<1>2. ASSUME NEW ty
      PROVE  Named(q, ty) = Named(Tail(q), ty) \cup (IF Head(q).type = ty THEN {Head(q).id} ELSE {})
  <2>1. ASSUME NEW k \in 1..Len(q), q[k].type = ty
        PROVE  q[k].id \in Named(Tail(q), ty) \cup (IF Head(q).type = ty THEN {Head(q).id} ELSE {})
    <3>1. CASE k = 1
      BY <3>1, <1>1, <2>1
    <3>2. CASE k # 1
      <4>1. k - 1 \in 1..Len(Tail(q)) /\ Tail(q)[k - 1] = q[k]
        BY <3>2, <1>1
      <4> QED  BY <4>1, <2>1 DEF Named
    <3> QED  BY <3>1, <3>2
  <2>2. ASSUME NEW k \in 1..Len(Tail(q)), Tail(q)[k].type = ty
        PROVE  Tail(q)[k].id \in Named(q, ty)
    <3>1. k + 1 \in 1..Len(q) /\ Tail(q)[k] = q[k + 1]
      BY <1>1
    <3> QED  BY <3>1, <2>2 DEF Named
  <2>3. Head(q).type = ty => Head(q).id \in Named(q, ty)
    <3>1. 1 \in 1..Len(q)
      BY <1>1
    <3> QED  BY <3>1, <1>1 DEF Named
  <2> QED
    BY <2>1, <2>2, <2>3 DEF Named
<1>3. ASSUME OnceIn(q)
      PROVE  OnceIn(Tail(q)) /\ (Head(q).type = "run" => Head(q).id \notin Named(Tail(q), "run"))
  <2>1. OnceIn(Tail(q))
    <3> SUFFICES ASSUME NEW j \in 1..Len(Tail(q)), NEW k \in 1..Len(Tail(q)),
                        Tail(q)[j].type = "run", Tail(q)[k].type = "run",
                        Tail(q)[j].id = Tail(q)[k].id
                 PROVE  j = k
      BY DEF OnceIn
    <3>1. j + 1 \in 1..Len(q) /\ k + 1 \in 1..Len(q) /\ Tail(q)[j] = q[j + 1] /\ Tail(q)[k] = q[k + 1]
      BY <1>1
    <3>2. j + 1 = k + 1
      BY <3>1, <1>3 DEF OnceIn
    <3> QED  BY <3>2, <3>1
  <2>2. ASSUME Head(q).type = "run", NEW k \in 1..Len(Tail(q)), Tail(q)[k].type = "run",
               Tail(q)[k].id = Head(q).id
        PROVE  FALSE
    <3>1. k + 1 \in 1..Len(q) /\ 1 \in 1..Len(q) /\ Tail(q)[k] = q[k + 1] /\ k + 1 # 1
      BY <1>1
    <3> QED  BY <3>1, <2>2, <1>1, <1>3 DEF OnceIn
  <2> QED
    BY <2>1, <2>2 DEF Named
<1> QED
  BY <1>1, <1>2, <1>3

\* One queue behind another: push_front and push_back of one task or of several.
LEMMA JoinFacts ==
    ASSUME NEW p \in Seq(TaskSet), NEW q \in Seq(TaskSet)
    PROVE  /\ p \o q \in Seq(TaskSet)
           /\ \A ty : Named(p \o q, ty) = Named(p, ty) \cup Named(q, ty)
           /\ OnceIn(p) /\ OnceIn(q) /\ Named(p, "run") \cap Named(q, "run") = {} => OnceIn(p \o q)
<1>1. /\ p \o q \in Seq(TaskSet) /\ Len(p) \in Nat /\ Len(q) \in Nat
      /\ Len(p \o q) = Len(p) + Len(q)
      /\ \A k \in 1..Len(p) : (p \o q)[k] = p[k]
      /\ \A k \in 1..Len(p) + Len(q) : k > Len(p) => (p \o q)[k] = q[k - Len(p)]
  OBVIOUS
<1> DEFINE s == p \o q
<1>2. \A k \in 1..Len(s) : \/ k \in 1..Len(p) /\ s[k] = p[k]
                           \/ k - Len(p) \in 1..Len(q) /\ s[k] = q[k - Len(p)]
  BY <1>1
<1>3. \A k \in 1..Len(p) : k \in 1..Len(s) /\ s[k] = p[k]
  BY <1>1
<1>4. \A k \in 1..Len(q) : k + Len(p) \in 1..Len(s) /\ s[k + Len(p)] = q[k]
  <2> TAKE k \in 1..Len(q)
  <2>1. k + Len(p) \in 1..Len(p) + Len(q) /\ k + Len(p) > Len(p) /\ (k + Len(p)) - Len(p) = k
    BY <1>1
  <2> QED  BY <2>1, <1>1
<1> HIDE DEF s
<1>5. \A ty : Named(s, ty) = Named(p, ty) \cup Named(q, ty)
  <2> TAKE ty
  <2>1. Named(s, ty) \subseteq Named(p, ty) \cup Named(q, ty)
    BY <1>2 DEF Named
  <2>2. Named(p, ty) \subseteq Named(s, ty)
    BY <1>3 DEF Named
  <2>3. Named(q, ty) \subseteq Named(s, ty)
    BY <1>4 DEF Named
  <2> QED  BY <2>1, <2>2, <2>3
<1>6. ASSUME OnceIn(p), OnceIn(q), Named(p, "run") \cap Named(q, "run") = {}
      PROVE  OnceIn(s)
  <2> SUFFICES ASSUME NEW j \in 1..Len(s), NEW k \in 1..Len(s), s[j].type = "run", s[k].type = "run",
                      s[j].id = s[k].id
               PROVE  j = k
    BY DEF OnceIn
  <2>1. CASE j \in 1..Len(p) /\ s[j] = p[j] /\ k \in 1..Len(p) /\ s[k] = p[k]
    BY <2>1, <1>6 DEF OnceIn
  <2>2. CASE j - Len(p) \in 1..Len(q) /\ s[j] = q[j - Len(p)] /\ k - Len(p) \in 1..Len(q) /\ s[k] = q[k - Len(p)]
    <3>1. j - Len(p) = k - Len(p)
      BY <2>2, <1>6 DEF OnceIn
    <3> QED  BY <3>1, <1>1
  <2>3. CASE j \in 1..Len(p) /\ s[j] = p[j] /\ k - Len(p) \in 1..Len(q) /\ s[k] = q[k - Len(p)]
    BY <2>3, <1>6 DEF Named
  <2>4. CASE k \in 1..Len(p) /\ s[k] = p[k] /\ j - Len(p) \in 1..Len(q) /\ s[j] = q[j - Len(p)]
    BY <2>4, <1>6 DEF Named
  <2> QED
    BY <1>2, <2>1, <2>2, <2>3, <2>4
<1> QED
  BY <1>1, <1>5, <1>6 DEF s

\* A queue of one task.
LEMMA SingleFacts ==
    ASSUME NEW t \in TaskSet
    PROVE  /\ <<t>> \in Seq(TaskSet) /\ OnceIn(<<t>>)
           /\ \A ty : Named(<<t>>, ty) = IF t.type = ty THEN {t.id} ELSE {}
<1>1. <<t>> \in Seq(TaskSet) /\ Len(<<t>>) = 1 /\ <<t>>[1] = t
  OBVIOUS
<1>2. OnceIn(<<t>>)
  BY <1>1 DEF OnceIn
<1>3. \A ty : Named(<<t>>, ty) = IF t.type = ty THEN {t.id} ELSE {}
  BY <1>1 DEF Named
<1> QED
  BY <1>1, <1>2, <1>3

\* The tasks of one type for distinct ids.
LEMMA BatchFacts ==
    ASSUME NEW m \in Seq(Ids), Distinct(m), NEW ty \in {"run", "cancel"}
    PROVE  LET b == [k \in 1..Len(m) |-> Task(ty, m[k])]
           IN  /\ b \in Seq(TaskSet) /\ OnceIn(b)
               /\ \A u : Named(b, u) = IF u = ty THEN Elems(m) ELSE {}
<1> DEFINE b == [k \in 1..Len(m) |-> Task(ty, m[k])]
<1>1. \A k \in 1..Len(m) : Task(ty, m[k]) \in TaskSet /\ Task(ty, m[k]).type = ty /\ Task(ty, m[k]).id = m[k]
  <2>1. \A k \in 1..Len(m) : m[k] \in TaskIds
    <3>1. Ids \subseteq TaskIds
      BY JobsFacts
    <3>2. \A k \in 1..Len(m) : m[k] \in Ids
      OBVIOUS
    <3> QED  BY <3>1, <3>2
  <2>2. \A x \in TaskIds : Task(ty, x) \in TaskSet /\ Task(ty, x).type = ty /\ Task(ty, x).id = x
    BY DEF Task, TaskSet
  <2> QED  BY <2>1, <2>2
<1>2. b \in Seq(TaskSet) /\ Len(b) = Len(m) /\ \A k \in 1..Len(m) : b[k].type = ty /\ b[k].id = m[k]
  <2>1. Len(m) \in Nat
    OBVIOUS
  <2>2. b \in [1..Len(m) -> TaskSet]
    BY <1>1
  <2>3. b \in Seq(TaskSet)
    BY <2>1, <2>2
  <2> QED  BY <1>1, <2>1, <2>2, <2>3
<1> HIDE DEF b
<1>3. OnceIn(b)
  BY <1>2 DEF OnceIn, Distinct
<1>4. \A u : Named(b, u) = IF u = ty THEN Elems(m) ELSE {}
  BY <1>2 DEF Named, Elems
<1> QED
  BY <1>2, <1>3, <1>4 DEF b

\* cleanup_pending_task: the tasks of the ids of S are gone, the others are there, once.
LEMMA DropFacts ==
    ASSUME NEW q \in Seq(TaskSet), NEW S, S \subseteq Ids
    PROVE  LET p == Kept(q, {Task("run", i) : i \in S})
           IN  /\ p \in Seq(TaskSet)
               /\ Named(p, "run") = Named(q, "run") \ S
               /\ \A ty : Named(p, ty) \subseteq Named(q, ty)
               /\ OnceIn(q) => OnceIn(p)
<1> DEFINE D == {Task("run", i) : i \in S}
           p == Kept(q, D)
<1>1. p \in Seq(TaskSet) /\ KeepsWell(p, q, D, Len(q))
  BY KeptFacts
<1>2. \A t \in TaskSet : t \in D <=> t.type = "run" /\ t.id \in S
  BY DEF Task, TaskSet
<1> HIDE DEF D, p
<1>3. PICK g \in [1..Len(p) -> 1..Len(q)] :
          /\ \A k \in 1..Len(p) : p[k] = q[g[k]] /\ p[k] \notin D
          /\ \A j, k \in 1..Len(p) : g[j] = g[k] => j = k
          /\ \A j \in 1..Len(q) : q[j] \notin D => \E k \in 1..Len(p) : g[k] = j
  BY <1>1 DEF KeepsWell
<1>4. \A ty : Named(p, ty) \subseteq Named(q, ty)
  BY <1>3 DEF Named
<1>5. Named(p, "run") = Named(q, "run") \ S
  <2>1. \A k \in 1..Len(p) : p[k] \in TaskSet
    BY <1>1
  <2>2. \A k \in 1..Len(q) : q[k] \in TaskSet
    OBVIOUS
  <2>3. ASSUME NEW k \in 1..Len(p), p[k].type = "run"  PROVE p[k].id \notin S
    BY <1>2, <1>3, <2>1, <2>3
  <2>4. ASSUME NEW j \in 1..Len(q), q[j].type = "run", q[j].id \notin S
        PROVE  q[j].id \in Named(p, "run")
    <3>1. PICK k \in 1..Len(p) : g[k] = j
      BY <1>2, <1>3, <2>2, <2>4
    <3> QED  BY <3>1, <1>3, <2>4 DEF Named
  <2> QED
    BY <1>4, <2>3, <2>4 DEF Named
<1>6. OnceIn(q) => OnceIn(p)
  <2> SUFFICES ASSUME OnceIn(q), NEW j \in 1..Len(p), NEW k \in 1..Len(p),
                      p[j].type = "run", p[k].type = "run", p[j].id = p[k].id
               PROVE  j = k
    BY DEF OnceIn
  <2>1. g[j] \in 1..Len(q) /\ g[k] \in 1..Len(q) /\ p[j] = q[g[j]] /\ p[k] = q[g[k]]
    BY <1>3
  <2>2. g[j] = g[k]
    BY <2>1 DEF OnceIn
  <2> QED  BY <2>2, <1>3
<1> QED
  BY <1>1, <1>4, <1>5, <1>6 DEF p, D

\* The deferred tasks: defer, pop_deferred_task, and what a cancel drops.
LEMMA DeferFacts ==
    ASSUME NEW d \in Seq(Ids), NEW i \in Ids
    PROVE  /\ Append(d, i) \in Seq(Ids) /\ Elems(Append(d, i)) = Elems(d) \cup {i}
           /\ Distinct(d) /\ i \notin Elems(d) => Distinct(Append(d, i))
<1>1. /\ Append(d, i) \in Seq(Ids) /\ Len(d) \in Nat /\ Len(Append(d, i)) = Len(d) + 1
      /\ Append(d, i)[Len(d) + 1] = i /\ \A k \in 1..Len(d) : Append(d, i)[k] = d[k]
  OBVIOUS
<1>2. \A k \in 1..Len(d) + 1 : k \in 1..Len(d) \/ k = Len(d) + 1
  BY <1>1
<1>3. \A k \in 1..Len(d) : k \in 1..Len(d) + 1
  BY <1>1
<1>4. Len(d) + 1 \in 1..Len(d) + 1
  BY <1>1
<1>5. Elems(Append(d, i)) = Elems(d) \cup {i}
  BY <1>1, <1>2, <1>3, <1>4 DEF Elems
<1>6. Distinct(d) /\ i \notin Elems(d) => Distinct(Append(d, i))
  BY <1>1, <1>2 DEF Distinct, Elems
<1> QED
  BY <1>1, <1>5, <1>6

LEMMA PopFacts ==
    ASSUME NEW d \in Seq(Ids), Distinct(d), NEW k \in 1..Len(d)
    PROVE  /\ RemoveAt(d, k) \in Seq(Ids) /\ Distinct(RemoveAt(d, k))
           /\ d[k] \in Ids /\ d[k] \in Elems(d)
           /\ Elems(RemoveAt(d, k)) = Elems(d) \ {d[k]}
<1> DEFINE p == RemoveAt(d, k)
<1>1. /\ p \in Seq(Ids) /\ Len(d) \in Nat /\ Len(p) = Len(d) - 1
      /\ \A j \in 1..Len(d) - 1 : p[j] = IF j < k THEN d[j] ELSE d[j + 1]
  <2> DEFINE a == SubSeq(d, 1, k - 1)
             b == SubSeq(d, k + 1, Len(d))
  <2>1. Len(d) \in Nat /\ k \in Nat /\ \A j \in 1..Len(d) : d[j] \in Ids
    OBVIOUS
  <2>2. a \in Seq(Ids) /\ Len(a) = k - 1 /\ \A j \in 1..k - 1 : a[j] = d[j]
    BY <2>1
  <2>3. b \in Seq(Ids) /\ Len(b) = Len(d) - k /\ \A j \in 1..Len(d) - k : b[j] = d[j + k]
    BY <2>1
  <2>4. p = a \o b
    BY DEF RemoveAt
  <2> HIDE DEF a, b, p
  <2>5. a \o b \in Seq(Ids) /\ Len(a \o b) = Len(d) - 1
    <3>1. a \in Seq(Ids) /\ b \in Seq(Ids)
      BY <2>2, <2>3
    <3>2. a \o b \in Seq(Ids) /\ Len(a \o b) = Len(a) + Len(b)
      BY <3>1
    <3> QED  BY <3>2, <2>1, <2>2, <2>3
  <2>6. ASSUME NEW j \in 1..Len(d) - 1
        PROVE  (a \o b)[j] = IF j < k THEN d[j] ELSE d[j + 1]
    <3>1. CASE j < k
      BY <3>1, <2>1, <2>2, <2>3
    <3>2. CASE ~ (j < k)
      <4>1. j - (k - 1) \in 1..Len(d) - k /\ j - (k - 1) + k = j + 1
        BY <3>2, <2>1
      <4>2. (a \o b)[j] = b[j - (k - 1)]
        BY <3>2, <2>1, <2>2, <2>3
      <4> QED  BY <4>1, <4>2, <3>2, <2>3
    <3> QED  BY <3>1, <3>2
  <2> QED
    BY <2>1, <2>4, <2>5, <2>6
<1> HIDE DEF p
<1>2. d[k] \in Ids /\ d[k] \in Elems(d)
  BY DEF Elems
<1>3. \A j \in 1..Len(p) : \E l \in 1..Len(d) : l # k /\ p[j] = d[l] /\ l = IF j < k THEN j ELSE j + 1
  BY <1>1
<1>4. \A l \in 1..Len(d) : l # k => \E j \in 1..Len(p) : p[j] = d[l]
  <2> TAKE l \in 1..Len(d)
  <2>1. CASE l < k
    <3>1. l \in 1..Len(d) - 1 /\ p[l] = d[l]
      BY <1>1, <2>1
    <3> QED  BY <3>1, <1>1
  <2>2. CASE l > k
    <3>1. l - 1 \in 1..Len(d) - 1 /\ p[l - 1] = d[l]
      BY <1>1, <2>2
    <3> QED  BY <3>1, <1>1
  <2> QED  BY <2>1, <2>2
<1>5. Elems(p) = Elems(d) \ {d[k]}
  <2>1. Elems(p) \subseteq Elems(d)
    BY <1>3 DEF Elems
  <2>2. d[k] \notin Elems(p)
    BY <1>3 DEF Elems, Distinct
  <2>3. Elems(d) \ {d[k]} \subseteq Elems(p)
    BY <1>4 DEF Elems
  <2> QED  BY <2>1, <2>2, <2>3
<1>6. Distinct(p)
  <2> SUFFICES ASSUME NEW i \in 1..Len(p), NEW j \in 1..Len(p), p[i] = p[j]  PROVE i = j
    BY DEF Distinct
  <2>1. PICK a \in 1..Len(d) : p[i] = d[a] /\ a = IF i < k THEN i ELSE i + 1
    BY <1>3
  <2>2. PICK b \in 1..Len(d) : p[j] = d[b] /\ b = IF j < k THEN j ELSE j + 1
    BY <1>3
  <2>3. a = b
    BY <2>1, <2>2 DEF Distinct
  <2> QED  BY <2>1, <2>2, <2>3, <1>1
<1> QED
  BY <1>1, <1>2, <1>5, <1>6 DEF p

LEMMA KeepFacts ==
    ASSUME NEW d \in Seq(Ids), NEW S
    PROVE  /\ Kept(d, S) \in Seq(Ids) /\ Elems(Kept(d, S)) = Elems(d) \ S
           /\ Distinct(d) => Distinct(Kept(d, S))
<1> DEFINE p == Kept(d, S)
<1>1. p \in Seq(Ids) /\ KeepsWell(p, d, S, Len(d))
  BY KeptFacts
<1> HIDE DEF p
<1>2. PICK g \in [1..Len(p) -> 1..Len(d)] :
          /\ \A k \in 1..Len(p) : p[k] = d[g[k]] /\ p[k] \notin S
          /\ \A j, k \in 1..Len(p) : g[j] = g[k] => j = k
          /\ \A j \in 1..Len(d) : d[j] \notin S => \E k \in 1..Len(p) : g[k] = j
  BY <1>1 DEF KeepsWell
<1>3. Elems(p) \subseteq Elems(d) \ S
  BY <1>2 DEF Elems
<1>4. Elems(d) \ S \subseteq Elems(p)
  BY <1>2 DEF Elems
<1>5. Distinct(d) => Distinct(p)
  BY <1>2 DEF Distinct
<1> QED
  BY <1>1, <1>3, <1>4, <1>5 DEF p

\* The ids of a request's tasks: each once, and as many as the request waits for.
LEMMA MineFacts ==
    ASSUME NEW r \in Requests
    PROVE  /\ Mine[r] \in Seq(Ids) /\ Distinct(Mine[r]) /\ Own(r) = Elems(Mine[r])
           /\ Own(r) = {i \in Ids : Jobs[i].req = r}
           /\ Len(Mine[r]) \in Nat /\ IsFiniteSet(Own(r)) /\ Cardinality(Own(r)) = Len(Mine[r])
<1> DEFINE all == [i \in Ids |-> i]
           others == {i \in Ids : Jobs[i].req # r}
           m == Kept(all, others)
<1>1. Mine[r] = m
  BY DEF Mine
<1>2. all \in Seq(Ids) /\ Len(all) = Len(Jobs) /\ Distinct(all) /\ Elems(all) = Ids
  <2>1. Len(Jobs) \in Nat /\ all \in [1..Len(Jobs) -> Ids]
    BY JobsFacts DEF Ids
  <2>2. all \in Seq(Ids) /\ Len(all) = Len(Jobs)
    BY <2>1
  <2> QED  BY <2>2 DEF Distinct, Elems, Ids
<1> HIDE DEF all
<1>3. m \in Seq(Ids) /\ Elems(m) = Ids \ others /\ Distinct(m)
  BY <1>2, KeepFacts
<1> HIDE DEF m
<1>4. Len(m) \in Nat /\ DOMAIN m = 1..Len(m)
  BY <1>3
<1>5. Own(r) = Elems(m)
  BY <1>1, <1>4 DEF Own, Range, Elems
<1>6. IsFiniteSet(Elems(m)) /\ Cardinality(Elems(m)) = Len(m)
  <2>1. IsFiniteSet(1..Len(m)) /\ Cardinality(1..Len(m)) = Len(m)
    <3>1. 1 \in Int /\ Len(m) \in Int
      BY <1>4
    <3>2. IsFiniteSet(1..Len(m)) /\ Cardinality(1..Len(m)) = IF 1 > Len(m) THEN 0 ELSE Len(m) - 1 + 1
      BY <3>1, FS_Interval, Zenon
    <3> QED  BY <3>2, <1>4
  <2>2. m \in Bijection(1..Len(m), Elems(m))
    <3>1. m \in [1..Len(m) -> Elems(m)]
      BY <1>3, <1>4 DEF Elems
    <3>2. m \in Surjection(1..Len(m), Elems(m))
      BY <3>1 DEF Surjection, Elems
    <3>3. m \in Injection(1..Len(m), Elems(m))
      BY <3>1, <1>3 DEF Injection, Distinct, IsInjective
    <3> QED  BY <3>2, <3>3 DEF Bijection
  <2> QED  BY <2>1, <2>2, FS_Bijection DEF ExistsBijection
<1> QED
  BY <1>1, <1>3, <1>4, <1>5, <1>6

-----------------------------------------------------------------------------
(***************************************************************************)
(* The invariant.  A task is live from the post of its request until its    *)
(* result is sent or it is cancelled; pending while it is live or its result *)
(* waits to be read.  TasksOnce needs that a task is in one place, and that no  *)
(* result is sent for a live one; NothingLeft, of a request that ends without   *)
(* cancelling, that what it has received and what is pending are together all   *)
(* of its tasks.                                                            *)
(***************************************************************************)
Labels == {"start", "dozing", "roused", "register", "post", "recv", "stop", "erase", "cancel",
           "done", "take", "process", "update", "slots", "idle"}
Before == {"start", "dozing", "roused", "register", "post"}
Loop   == "loop"
SlotRecs == [id : TaskIds, rounds : Nat]

SlotIds(f) == {f[s].id : s \in Slots} \ {0}
OneEach(f) == \A s, u \in Slots : f[s].id = f[u].id /\ f[s].id # 0 => s = u

Runs    == Named(queue, "run")
Put     == Elems(deferred)
Held    == IF hand.type = "run" THEN {hand.id} ELSE {}
InSlots == SlotIds(slot)
Gone    == IF leaving = 0 THEN {} ELSE {slot[leaving].id}
Live    == Runs \cup Put \cup Held \cup (InSlots \ Gone)
Sent    == {x.id : x \in results}
Cancels == Named(queue, "cancel") \cup (IF hand.type = "cancel" THEN {hand.id} ELSE {})
Pending(r) == Own(r) \cap (Live \cup Sent)

TypeOK ==
    /\ queue \in Seq(TaskSet) /\ deferred \in Seq(Ids)
    /\ sleeping \in BOOLEAN /\ reqStop \in BOOLEAN
    /\ waiting \subseteq Ids /\ results \subseteq [id : Ids, error : BOOLEAN]
    /\ pc \in [Requests \cup {Loop} -> Labels]
    /\ hand \in TaskSet /\ slot \in [Slots -> SlotRecs]
    /\ visit \subseteq Slots /\ leaving \in {0} \cup Slots
    /\ received \in [Requests -> Nat] /\ spoils \in Nat /\ sleeps \in Nat
    /\ Runs \cup Held \subseteq Ids

OnceOK ==
    /\ OnceIn(queue) /\ Distinct(deferred) /\ OneEach(slot)
    /\ Runs \cap Put = {} /\ Runs \cap Held = {} /\ Put \cap Held = {}
    /\ (Runs \cup Put \cup Held) \cap InSlots = {}

LoopOK ==
    /\ leaving # 0 => pc[Loop] = "slots"
    /\ pc[Loop] # "process" => hand = NoTask

FreshAt(r) ==
    pc[r] \in Before => received[r] = 0 /\ Own(r) \cap (Live \cup InSlots \cup Sent) = {}

SentOK ==
    /\ Sent \cap Live = {}
    /\ \A x, y \in results : x.id = y.id => x = y

WaitAt(r) ==
    /\ pc[r] \in {"post", "recv", "stop"} => Own(r) \subseteq waiting
    /\ pc[r] \in {"erase", "cancel", "done"} => Own(r) \cap waiting = {}
    /\ pc[r] \in {"cancel", "done"} => Own(r) \cap Sent = {}

CancelOK == \A i \in Cancels : \E r \in Requests : i \in Own(r) /\ pc[r] = "done"

CountAt(r) ==
    /\ received[r] <= Len(Mine[r])
    /\ pc[r] = "recv" => received[r] + Cardinality(Pending(r)) = Len(Mine[r])
    /\ pc[r] = "stop" => received[r] + Cardinality(Pending(r)) <= Len(Mine[r])

Inv == /\ TypeOK /\ OnceOK /\ LoopOK /\ SentOK /\ CancelOK
       /\ \A r \in Requests : FreshAt(r) /\ WaitAt(r) /\ CountAt(r)

-----------------------------------------------------------------------------
(***************************************************************************)
(* Slots, places of the threads, and requests.                              *)
(***************************************************************************)
LEMMA SlotFilled ==
    ASSUME NEW f \in [Slots -> SlotRecs], OneEach(f), NEW s \in Slots, f[s].id = 0,
           NEW i \in Ids, i \notin SlotIds(f)
    PROVE  LET g == [f EXCEPT ![s] = [id |-> i, rounds |-> 0]]
           IN  g \in [Slots -> SlotRecs] /\ OneEach(g) /\ SlotIds(g) = SlotIds(f) \cup {i}
<1> DEFINE g == [f EXCEPT ![s] = [id |-> i, rounds |-> 0]]
<1>1. [id |-> i, rounds |-> 0] \in SlotRecs /\ i # 0
  BY JobsFacts DEF SlotRecs
<1>2. g \in [Slots -> SlotRecs] /\ g[s].id = i /\ \A u \in Slots : u # s => g[u] = f[u]
  BY <1>1
<1> HIDE DEF g
<1>3. SlotIds(g) = SlotIds(f) \cup {i}
  BY <1>1, <1>2 DEF SlotIds
<1>4. OneEach(g)
  BY <1>1, <1>2 DEF OneEach, SlotIds
<1> QED
  BY <1>2, <1>3, <1>4 DEF g

LEMMA SlotEmptied ==
    ASSUME NEW f \in [Slots -> SlotRecs], OneEach(f), NEW s \in Slots
    PROVE  LET g == [f EXCEPT ![s] = Idle]
           IN  g \in [Slots -> SlotRecs] /\ OneEach(g) /\ SlotIds(g) = SlotIds(f) \ {f[s].id}
<1> DEFINE g == [f EXCEPT ![s] = Idle]
<1>1. Idle \in SlotRecs /\ Idle.id = 0
  BY JobsFacts DEF SlotRecs, Idle, TaskIds
<1>2. g \in [Slots -> SlotRecs] /\ g[s].id = 0 /\ \A u \in Slots : u # s => g[u] = f[u]
  BY <1>1
<1> HIDE DEF g
<1>3. SlotIds(g) = SlotIds(f) \ {f[s].id}
  BY <1>2 DEF SlotIds, OneEach
<1>4. OneEach(g)
  BY <1>2 DEF OneEach
<1> QED
  BY <1>2, <1>3, <1>4 DEF g

LEMMA SlotAdvanced ==
    ASSUME NEW f \in [Slots -> SlotRecs], OneEach(f), NEW s \in Slots
    PROVE  LET g == [f EXCEPT ![s].rounds = @ + 1]
           IN  /\ g \in [Slots -> SlotRecs] /\ OneEach(g) /\ SlotIds(g) = SlotIds(f)
               /\ \A u \in Slots : g[u].id = f[u].id
<1> DEFINE g == [f EXCEPT ![s].rounds = @ + 1]
<1>1. f[s] \in SlotRecs
  OBVIOUS
<1>2. [f[s] EXCEPT !.rounds = @ + 1] \in SlotRecs /\ [f[s] EXCEPT !.rounds = @ + 1].id = f[s].id
  BY <1>1 DEF SlotRecs
<1>3. g \in [Slots -> SlotRecs] /\ \A u \in Slots : g[u].id = f[u].id
  BY <1>2
<1> HIDE DEF g
<1>4. SlotIds(g) = SlotIds(f) /\ OneEach(g)
  BY <1>3 DEF SlotIds, OneEach
<1> QED
  BY <1>3, <1>4 DEF g

\* a thread goes on; a notification may rouse one or more of those that doze
Threads == Requests \cup {Loop}
Rouses(x) == \A y \in Threads : y # x => pc'[y] = pc[y] \/ (pc[y] = "dozing" /\ pc'[y] = "roused")
Goes(x, l) == pc' \in [Threads -> Labels] /\ pc'[x] = l /\ Rouses(x)

LEMMA MovedFacts ==
    ASSUME pc \in [Threads -> Labels], NEW x \in Threads, NEW l \in Labels, NEW who,
           pc' = Moved(x, l, who)
    PROVE  Goes(x, l)
<1>1. DOMAIN pc = Threads
  OBVIOUS
<1>2. \A y \in Threads : pc'[y] = IF y = x THEN l
                                  ELSE IF y \in who /\ pc[y] = "dozing" THEN "roused" ELSE pc[y]
  BY <1>1 DEF Moved
<1>3. "roused" \in Labels
  BY DEF Labels
<1>4. pc' \in [Threads -> Labels]
  BY <1>1, <1>3 DEF Moved
<1> QED
  BY <1>2, <1>4 DEF Goes, Rouses

LEMMA GotoFacts ==
    ASSUME pc \in [Threads -> Labels], NEW x \in Threads, NEW l \in Labels, Goto(x, l)
    PROVE  Goes(x, l) /\ \A y \in Threads : y # x => pc'[y] = pc[y]
<1>1. pc' = Moved(x, l, {})
  BY DEF Goto
<1>2. \A y \in Threads : y # x => pc'[y] = pc[y]
  BY <1>1 DEF Moved
<1> QED
  BY <1>1, <1>2, MovedFacts

LEMMA NotifyFacts ==
    ASSUME pc \in [Threads -> Labels], NEW x \in Threads, NEW l \in Labels, NotifyOne(x, l)
    PROVE  Goes(x, l)
  BY GotoFacts, MovedFacts DEF NotifyOne

\* No two requests share a task.
LEMMA OwnFacts ==
    /\ \A r \in Requests : Own(r) \subseteq Ids
    /\ \A r, t \in Requests : r # t => Own(r) \cap Own(t) = {}
    /\ \A i \in Ids : i \in Own(Jobs[i].req) /\ Jobs[i].req \in Requests
  BY MineFacts, JobsFacts

LEMMA PendingFacts ==
    ASSUME NEW r \in Requests, NEW S
    PROVE  /\ IsFiniteSet(Own(r) \cap S) /\ Cardinality(Own(r) \cap S) \in Nat
           /\ Cardinality(Own(r) \cap S) <= Len(Mine[r])
<1>1. IsFiniteSet(Own(r)) /\ Cardinality(Own(r)) = Len(Mine[r]) /\ Own(r) \cap S \in SUBSET Own(r)
  BY MineFacts
<1>2. IsFiniteSet(Own(r) \cap S) /\ Cardinality(Own(r) \cap S) <= Cardinality(Own(r))
  BY <1>1, FS_Subset
<1> QED
  BY <1>1, <1>2, FS_CardinalityType

-----------------------------------------------------------------------------
(***************************************************************************)
(* The loop.  Whatever it does, live tasks only end, and one that ends while *)
(* somebody waits for it has its result sent (LoopEffect).                  *)
(***************************************************************************)
LoopEffect ==
    /\ TypeOK' /\ OnceOK' /\ LoopOK'
    /\ Rouses(Loop) /\ received' = received /\ waiting' = waiting
    /\ Live' \subseteq Live /\ InSlots' \subseteq InSlots \cup Live /\ Cancels' \subseteq Cancels
    /\ Sent' = Sent \cup ((Live \ Live') \cap waiting)
    /\ \A x, y \in results' : x.id = y.id => x = y

\* What every step of the loop leaves of the requests and the bounds.
LoopBase(l) ==
    /\ l \in Labels /\ Goes(Loop, l)
    /\ received' = received /\ waiting' = waiting
    /\ sleeping' \in BOOLEAN /\ reqStop' \in BOOLEAN
    /\ visit' \subseteq Slots /\ spoils' \in Nat /\ sleeps' \in Nat

LEMMA TaskFacts ==
    /\ NoTask \in TaskSet /\ NoTask.type = "none" /\ Task("next", 0) \in TaskSet
    /\ Task("next", 0).type = "next"
    /\ \A i \in Ids : /\ Task("run", i) \in TaskSet /\ Task("run", i).type = "run"
                      /\ Task("run", i).id = i
  BY JobsFacts DEF NoTask, TaskSet, Task, TaskIds

LEMMA LoopPlaces ==
    /\ Loop \in Threads /\ Requests \subseteq Threads
    /\ \A r \in Requests : r # Loop
    /\ {"take", "process", "update", "slots", "idle", "dozing"} \subseteq Labels
  BY JobsFacts DEF Threads, Loop, Labels

\* The parts of the loop's effect when no result is sent and no task ends.
LEMMA QuietEffect ==
    ASSUME Inv, NEW l, LoopBase(l), TypeOK', OnceOK', LoopOK', results' = results,
           Live' = Live, InSlots' \subseteq InSlots \cup Live, Cancels' \subseteq Cancels
    PROVE  LoopEffect
<1>1. Sent' = Sent
  BY DEF Sent
<1> QED
  BY <1>1 DEF LoopEffect, LoopBase, Goes, Inv, SentOK

\* Nothing changes but the places of the threads.
LEMMA StillEffect ==
    ASSUME Inv, NEW l, LoopBase(l), UNCHANGED <<queue, deferred, hand, slot, leaving, results>>,
           LoopOK'
    PROVE  LoopEffect
<1>1. Live' = Live /\ InSlots' = InSlots /\ Cancels' = Cancels /\ Runs' = Runs /\ Held' = Held /\ Put' = Put
  BY DEF Live, Runs, Put, Held, InSlots, Gone, Cancels
<1>2. TypeOK'
  BY <1>1 DEF Inv, TypeOK, LoopBase, Goes, Threads
<1>3. OnceOK'
  BY <1>1 DEF Inv, OnceOK
<1> QED
  BY <1>1, <1>2, <1>3, QuietEffect

LEMMA TakeStep ==
    ASSUME Inv, Take
    PROVE  LoopEffect
<1>1. TypeOK /\ OnceOK /\ LoopOK /\ pc[Loop] = "take" /\ hand = NoTask /\ leaving = 0
  BY DEF Inv, LoopOK, Take, Loop
<1>2. CASE queue = <<>> /\ Goto(Loop, "update") /\ UNCHANGED <<queue, hand>>
  <2>1. Goes(Loop, "update") /\ "update" \in Labels
    BY <1>1, <1>2, GotoFacts, LoopPlaces DEF TypeOK, Threads
  <2>2. LoopBase("update")
    BY <1>1, <2>1 DEF Take, LoopBase, LoopLeaves, TypeOK, naps, answers
  <2>3. LoopOK'
    BY <1>1, <1>2, <2>1 DEF LoopOK, Goes, Take
  <2> QED
    BY <1>2, <2>2, <2>3, StillEffect DEF Take, answers
<1>3. CASE queue # <<>> /\ hand' = Head(queue) /\ queue' = Tail(queue) /\ Goto(Loop, "process")
  <2>1. Goes(Loop, "process") /\ "process" \in Labels
    BY <1>1, <1>3, GotoFacts, LoopPlaces DEF TypeOK, Threads
  <2>2. LoopBase("process")
    BY <1>1, <2>1 DEF Take, LoopBase, LoopLeaves, TypeOK, naps, answers
  <2>3. LoopOK'
    BY <1>1, <1>3, <2>1 DEF LoopOK, Goes, Take
  <2>4. UNCHANGED <<deferred, slot, leaving, results>>
    BY DEF Take, answers
  <2>5. queue \in Seq(TaskSet) /\ queue # <<>> /\ OnceIn(queue)
    BY <1>1, <1>3 DEF TypeOK, OnceOK
  <2>6. /\ queue' \in Seq(TaskSet) /\ hand' \in TaskSet
        /\ \A ty : Named(queue, ty) = Named(queue', ty)
                                      \cup (IF hand'.type = ty THEN {hand'.id} ELSE {})
        /\ OnceIn(queue') /\ (hand'.type = "run" => hand'.id \notin Named(queue', "run"))
    BY <1>3, <2>5, TailFacts
  <2>7. Held = {} /\ Held' = IF hand'.type = "run" THEN {hand'.id} ELSE {}
    BY <1>1, TaskFacts DEF Held
  <2>8. Runs = Runs' \cup Held' /\ Runs' \cap Held' = {} /\ Put' = Put /\ InSlots' = InSlots /\ Gone' = Gone
    BY <2>4, <2>6, <2>7 DEF Runs, Put, InSlots, Gone
  <2>9. Cancels' \subseteq Cancels
    BY <2>6 DEF Cancels
  <2>10. TypeOK'
    BY <1>1, <2>2, <2>4, <2>6, <2>7, <2>8 DEF TypeOK, LoopBase, Goes, Threads
  <2>11. OnceOK'
    BY <1>1, <2>4, <2>6, <2>7, <2>8 DEF OnceOK
  <2>12. Live' = Live
    BY <2>7, <2>8 DEF Live
  <2> QED
    BY <2>2, <2>3, <2>4, <2>8, <2>9, <2>10, <2>11, <2>12, QuietEffect
<1> QED
  BY <1>2, <1>3 DEF Take, Loop

\* The loop holds a task, and puts it down.
LEMMA InHandFacts ==
    ASSUME Inv, NEW ty, InHand(ty), hand' = NoTask
    PROVE  /\ pc[Loop] = "process" /\ leaving = 0 /\ Gone = {} /\ Held' = {}
           /\ ty = "run" => /\ hand.id \in Ids /\ Held = {hand.id} /\ hand.id \in Live
                            /\ hand.id \notin Runs \cup Put \cup InSlots
           /\ ty # "run" => Held = {}
           /\ ty = "cancel" => hand.id \in Cancels
<1>1. TypeOK /\ OnceOK /\ LoopOK
  BY DEF Inv
<1>2. pc[Loop] = "process" /\ leaving = 0 /\ Gone = {} /\ hand.type = ty
  BY <1>1 DEF InHand, LoopOK, Gone, Loop
<1>3. Held' = {}
  BY TaskFacts DEF Held
<1>4. ASSUME ty = "run"
      PROVE  /\ hand.id \in Ids /\ Held = {hand.id} /\ hand.id \in Live
             /\ hand.id \notin Runs \cup Put \cup InSlots
  <2>1. Held = {hand.id}
    BY <1>2, <1>4 DEF Held
  <2> QED  BY <2>1, <1>1 DEF TypeOK, OnceOK, Live
<1>5. (ty # "run" => Held = {}) /\ (ty = "cancel" => hand.id \in Cancels)
  BY <1>2 DEF Held, Cancels
<1> QED
  BY <1>2, <1>3, <1>4, <1>5

\* Cancels when the hand becomes empty and no cancel is queued anew.
LEMMA CancelsFewer ==
    ASSUME hand' = NoTask, Named(queue', "cancel") \subseteq Named(queue, "cancel")
    PROVE  Cancels' \subseteq Cancels
  BY TaskFacts DEF Cancels

LEMMA LaunchStep ==
    ASSUME Inv, Launch
    PROVE  LoopEffect
<1>1. TypeOK /\ OnceOK /\ LoopOK /\ InHand("run") /\ hand' = NoTask
  BY DEF Inv, Launch, Completion
<1>2. /\ leaving = 0 /\ Gone = {} /\ Held' = {} /\ hand.id \in Ids /\ Held = {hand.id}
      /\ hand.id \notin Runs \cup Put \cup InSlots
  BY <1>1, InHandFacts
<1>3. PICK s \in Suited(hand.id) : slot' = [slot EXCEPT ![s] = [id |-> hand.id, rounds |-> 0]]
  BY DEF Launch
<1>4. s \in Slots /\ slot[s].id = 0
  BY <1>3 DEF Suited, Busy
<1>5. slot' \in [Slots -> SlotRecs] /\ OneEach(slot') /\ InSlots' = InSlots \cup {hand.id}
  <2>1. slot \in [Slots -> SlotRecs] /\ OneEach(slot) /\ hand.id \notin SlotIds(slot)
    BY <1>1, <1>2 DEF TypeOK, OnceOK, InSlots
  <2>2. slot' \in [Slots -> SlotRecs] /\ OneEach(slot') /\ SlotIds(slot') = SlotIds(slot) \cup {hand.id}
    BY <1>2, <1>3, <1>4, <2>1, SlotFilled
  <2> QED  BY <2>2 DEF InSlots
<1>6. UNCHANGED <<queue, deferred, results, leaving>> /\ Goto(Loop, "take")
  BY DEF Launch, queues, answers, Loop
<1>7. Goes(Loop, "take") /\ "take" \in Labels
  BY <1>1, <1>6, GotoFacts, LoopPlaces DEF TypeOK, Threads
<1>8. LoopBase("take")
  BY <1>1, <1>7 DEF Launch, LoopBase, LoopLeaves, TypeOK, naps, answers
<1>9. LoopOK'
  BY <1>1, <1>2, <1>6, <1>7 DEF LoopOK, Goes
<1>10. Runs' = Runs /\ Put' = Put /\ Gone' = {}
  BY <1>2, <1>6 DEF Runs, Put, Gone
<1>11. Live' = Live
  BY <1>2, <1>5, <1>10 DEF Live
<1>12. TypeOK'
  BY <1>1, <1>2, <1>5, <1>6, <1>8, <1>10, TaskFacts DEF TypeOK, LoopBase, Goes, Threads
<1>13. OnceOK'
  BY <1>1, <1>2, <1>5, <1>6, <1>10 DEF OnceOK
<1>14. Cancels' \subseteq Cancels
  BY <1>1, <1>6, CancelsFewer
<1>15. InSlots' \subseteq InSlots \cup Live
  BY <1>2, <1>5 DEF Live
<1> QED
  BY <1>6, <1>8, <1>9, <1>11, <1>12, <1>13, <1>14, <1>15, QuietEffect

\* The result of a live task that ends is kept if somebody waits for it.
LEMMA SendFacts ==
    ASSUME Inv, NEW i, i \in waiting => i \in Live, NEW e \in BOOLEAN, Send(i, e),
           Live' = Live \ {i}
    PROVE  /\ results' \subseteq [id : Ids, error : BOOLEAN]
           /\ Sent' = Sent \cup ((Live \ Live') \cap waiting)
           /\ \A x, y \in results' : x.id = y.id => x = y
<1>1. TypeOK /\ SentOK
  BY DEF Inv
<1>2. CASE i \in waiting
  <2> DEFINE m == [id |-> i, error |-> e]
  <2>1. results' = results \cup {m} /\ i \in Ids /\ m.id = i
    BY <1>1, <1>2 DEF Send, TypeOK
  <2>2. i \in Live /\ i \notin Sent
    BY <1>1, <1>2 DEF SentOK
  <2>3. m \in [id : Ids, error : BOOLEAN]
    BY <2>1
  <2> HIDE DEF m
  <2>4. Sent' = Sent \cup {i}
    BY <2>1 DEF Sent
  <2>5. \A x, y \in results' : x.id = y.id => x = y
    BY <1>1, <2>1, <2>2 DEF SentOK, Sent
  <2>6. (Live \ Live') \cap waiting = {i}
    BY <1>2, <2>2
  <2>7. results' \subseteq [id : Ids, error : BOOLEAN]
    BY <1>1, <2>1, <2>3 DEF TypeOK
  <2> QED  BY <2>4, <2>5, <2>6, <2>7
<1>3. CASE i \notin waiting
  <2>1. results' = results
    BY <1>3 DEF Send
  <2>2. Sent' = Sent
    BY <2>1 DEF Sent
  <2> QED  BY <1>1, <1>3, <2>1, <2>2 DEF TypeOK, SentOK
<1> QED
  BY <1>2, <1>3

\* A task that the loop holds ends with a result.
LEMMA HandEnds ==
    ASSUME Inv, InHand("run"), hand' = NoTask, NEW e \in BOOLEAN, Send(hand.id, e),
           Goto(Loop, "take"), LoopLeaves,
           UNCHANGED <<queues, waiting, slot, visit, leaving>>, spoils' = spoils + 1
    PROVE  LoopEffect
<1>1. TypeOK /\ OnceOK /\ LoopOK
  BY DEF Inv
<1>2. /\ leaving = 0 /\ Gone = {} /\ Held' = {} /\ hand.id \in Ids /\ Held = {hand.id}
      /\ hand.id \in Live /\ hand.id \notin Runs \cup Put \cup InSlots
  BY InHandFacts
<1>3. Goes(Loop, "take") /\ "take" \in Labels
  BY <1>1, GotoFacts, LoopPlaces DEF TypeOK, Threads
<1>4. LoopBase("take")
  BY <1>1, <1>3 DEF LoopBase, LoopLeaves, TypeOK, naps
<1>5. LoopOK'
  BY <1>1, <1>2, <1>3 DEF LoopOK, Goes
<1>6. Runs' = Runs /\ Put' = Put /\ InSlots' = InSlots /\ Gone' = {}
  BY <1>2 DEF Runs, Put, InSlots, Gone, queues
<1>7. Live' = Live \ {hand.id}
  BY <1>2, <1>6 DEF Live
<1>8. /\ results' \subseteq [id : Ids, error : BOOLEAN]
      /\ Sent' = Sent \cup ((Live \ Live') \cap waiting)
      /\ \A x, y \in results' : x.id = y.id => x = y
  BY <1>2, <1>7, SendFacts
<1>9. TypeOK'
  BY <1>1, <1>2, <1>4, <1>6, <1>8, TaskFacts DEF TypeOK, LoopBase, Goes, Threads, queues
<1>10. OnceOK'
  BY <1>1, <1>2, <1>6 DEF OnceOK, queues
<1>11. Cancels' \subseteq Cancels
  BY CancelsFewer DEF queues
<1> QED
  BY <1>4, <1>5, <1>6, <1>7, <1>8, <1>9, <1>10, <1>11 DEF LoopEffect, LoopBase, Goes

LEMMA LaunchFailsStep ==
    ASSUME Inv, LaunchFails
    PROVE  LoopEffect
  BY HandEnds DEF LaunchFails, Completion, Loop

LEMMA SlotActionStep ==
    ASSUME Inv, SlotAction
    PROVE  LoopEffect
  BY HandEnds DEF SlotAction, Loop

LEMMA DeferStep ==
    ASSUME Inv, Defer
    PROVE  LoopEffect
<1>1. TypeOK /\ OnceOK /\ LoopOK /\ InHand("run") /\ hand' = NoTask
  BY DEF Inv, Defer
<1>2. /\ leaving = 0 /\ Gone = {} /\ Held' = {} /\ hand.id \in Ids /\ Held = {hand.id}
      /\ hand.id \notin Runs \cup Put \cup InSlots
  BY <1>1, InHandFacts
<1>3. UNCHANGED <<queue, slot, results, leaving>> /\ NotifyOne(Loop, "take")
  BY DEF Defer, answers, Loop
<1>4. Goes(Loop, "take") /\ "take" \in Labels
  BY <1>1, <1>3, NotifyFacts, LoopPlaces DEF TypeOK, Threads
<1>5. LoopBase("take")
  BY <1>1, <1>4 DEF Defer, LoopBase, LoopLeaves, TypeOK, naps, answers
<1>6. LoopOK'
  BY <1>1, <1>2, <1>3, <1>4 DEF LoopOK, Goes
<1>7. deferred \in Seq(Ids) /\ Distinct(deferred) /\ hand.id \notin Elems(deferred) /\ deferred' = Append(deferred, hand.id)
  BY <1>1, <1>2 DEF TypeOK, OnceOK, Put, Defer
<1>8. deferred' \in Seq(Ids) /\ Distinct(deferred') /\ Put' = Put \cup {hand.id}
  BY <1>2, <1>7, DeferFacts DEF Put
<1>9. Runs' = Runs /\ InSlots' = InSlots /\ Gone' = {}
  BY <1>2, <1>3 DEF Runs, InSlots, Gone
<1>10. Live' = Live
  BY <1>2, <1>8, <1>9 DEF Live
<1>11. TypeOK'
  BY <1>1, <1>2, <1>3, <1>5, <1>8, <1>9, TaskFacts DEF TypeOK, LoopBase, Goes, Threads
<1>12. OnceOK'
  BY <1>1, <1>2, <1>3, <1>8, <1>9 DEF OnceOK
<1>13. Cancels' \subseteq Cancels
  BY <1>1, <1>3, CancelsFewer
<1> QED
  BY <1>3, <1>5, <1>6, <1>9, <1>10, <1>11, <1>12, <1>13, QuietEffect

\* slot.release: the slot is free, and at most one deferred task goes to the front of the
\* queue.
LEMMA ReleaseFacts ==
    ASSUME Inv, NEW s \in Slots, NEW l \in Labels, Release(s, l)
    PROVE  /\ slot' \in [Slots -> SlotRecs] /\ OneEach(slot') /\ InSlots' = InSlots \ {slot[s].id}
           /\ queue' \in Seq(TaskSet) /\ OnceIn(queue') /\ deferred' \in Seq(Ids) /\ Distinct(deferred')
           /\ Named(queue', "cancel") = Named(queue, "cancel")
           /\ \E P : P \subseteq Put /\ Runs' = Runs \cup P /\ Put' = Put \ P
           /\ Goes(Loop, l)
<1>1. TypeOK /\ OnceOK
  BY DEF Inv
<1>2. slot \in [Slots -> SlotRecs] /\ OneEach(slot) /\ queue \in Seq(TaskSet) /\ OnceIn(queue)
      /\ deferred \in Seq(Ids) /\ Distinct(deferred) /\ Runs \cap Put = {} /\ pc \in [Threads -> Labels]
  BY <1>1 DEF TypeOK, OnceOK, Threads
<1>3. slot' = [slot EXCEPT ![s] = Idle] /\ NotifyOne(Loop, l)
  BY DEF Release, Loop
<1>4. slot' \in [Slots -> SlotRecs] /\ OneEach(slot') /\ InSlots' = InSlots \ {slot[s].id}
  <2>1. SlotIds(slot') = SlotIds(slot) \ {slot[s].id} /\ slot' \in [Slots -> SlotRecs] /\ OneEach(slot')
    BY <1>2, <1>3, SlotEmptied
  <2> QED  BY <2>1 DEF InSlots
<1>5. Goes(Loop, l)
  BY <1>2, <1>3, NotifyFacts, LoopPlaces
<1>6. PICK k : /\ k = Popped(s)
               /\ IF k = 0 THEN UNCHANGED queues
                  ELSE /\ queue' = <<Task("run", deferred[k])>> \o queue
                       /\ deferred' = Moves(deferred, k)
  BY DEF Release
<1>7. k = 0 \/ k \in 1..Len(deferred)
  <2>1. Len(deferred) \in Nat /\ (deferred # <<>> => 1 \in 1..Len(deferred))
    BY <1>2
  <2>2. ASSUME Asking(s) # {}  PROVE Min(Asking(s)) \in Asking(s)
    <3>1. Asking(s) \subseteq Nat
      BY <2>1 DEF Asking
    <3>2. PICK n \in Asking(s) : \A m \in Asking(s) : n <= m
      BY <3>1, <2>2, LeastExists
    <3> QED  BY <3>2 DEF Min
  <2>3. Asking(s) \subseteq 1..Len(deferred)
    BY DEF Asking
  <2> QED  BY <1>6, <2>1, <2>2, <2>3 DEF Popped
<1>8. CASE k = 0
  <2>1. queue' = queue /\ deferred' = deferred
    BY <1>6, <1>8 DEF queues
  <2>2. Runs' = Runs \cup {} /\ Put' = Put \ {} /\ {} \subseteq Put
    BY <2>1 DEF Runs, Put
  <2> QED  BY <1>2, <1>4, <1>5, <2>1, <2>2
<1>9. CASE k # 0
  <2> DEFINE t == Task("run", deferred[k])
  <2>1. k \in 1..Len(deferred) /\ queue' = <<t>> \o queue /\ deferred' = RemoveAt(deferred, k)
    BY <1>6, <1>7, <1>9 DEF Moves
  <2>2. /\ deferred' \in Seq(Ids) /\ Distinct(deferred')
        /\ deferred[k] \in Ids /\ deferred[k] \in Elems(deferred)
        /\ Elems(deferred') = Elems(deferred) \ {deferred[k]}
    BY <1>2, <2>1, PopFacts
  <2>3. t \in TaskSet /\ t.type = "run" /\ t.id = deferred[k]
    BY <2>2, TaskFacts
  <2> HIDE DEF t
  <2>4. /\ <<t>> \in Seq(TaskSet) /\ OnceIn(<<t>>)
        /\ \A ty : Named(<<t>>, ty) = IF t.type = ty THEN {t.id} ELSE {}
    BY <2>3, SingleFacts
  <2>5. Named(<<t>>, "run") = {deferred[k]} /\ Named(<<t>>, "cancel") = {}
    BY <2>3, <2>4
  <2>6. deferred[k] \notin Named(queue, "run")
    BY <1>2, <2>2 DEF Runs, Put
  <2>7. /\ queue' \in Seq(TaskSet) /\ OnceIn(queue')
        /\ \A ty : Named(queue', ty) = Named(<<t>>, ty) \cup Named(queue, ty)
    <3>1. Named(<<t>>, "run") \cap Named(queue, "run") = {}
      BY <2>5, <2>6
    <3>2. /\ <<t>> \o queue \in Seq(TaskSet) /\ OnceIn(<<t>> \o queue)
          /\ \A ty : Named(<<t>> \o queue, ty) = Named(<<t>>, ty) \cup Named(queue, ty)
      BY <1>2, <2>4, <3>1, JoinFacts
    <3> QED  BY <3>2, <2>1
  <2>8. Named(queue', "cancel") = Named(queue, "cancel") /\ Named(queue', "run") = Named(queue, "run") \cup {deferred[k]}
    BY <2>5, <2>7
  <2>9. {deferred[k]} \subseteq Put /\ Runs' = Runs \cup {deferred[k]} /\ Put' = Put \ {deferred[k]}
    BY <2>2, <2>8 DEF Runs, Put
  <2> QED  BY <1>4, <1>5, <2>2, <2>7, <2>8, <2>9
<1> QED
  BY <1>8, <1>9

\* A cancel frees the slot of a task that nobody waits for any more.
LEMMA CancelTaskStep ==
    ASSUME Inv, CancelTask
    PROVE  LoopEffect
<1>1. TypeOK /\ OnceOK /\ LoopOK /\ InHand("cancel") /\ hand' = NoTask
  BY DEF Inv, CancelTask
<1>2. leaving = 0 /\ Gone = {} /\ Held' = {} /\ Held = {} /\ hand.id \in Cancels
  BY <1>1, InHandFacts
<1>3. UNCHANGED <<results, waiting, visit, leaving, spoils>> /\ LoopLeaves
  BY DEF CancelTask, answers
<1>4. hand.id \notin waiting
  BY <1>2 DEF Inv, CancelOK, WaitAt
<1> DEFINE held == {s \in Slots : slot[s].id = hand.id}
<1>5. CASE held = {}
  <2>1. Goto(Loop, "take") /\ UNCHANGED <<queue, deferred, slot>>
    BY <1>5 DEF CancelTask, queues, Loop
  <2>2. Goes(Loop, "take") /\ "take" \in Labels
    BY <1>1, <2>1, GotoFacts, LoopPlaces DEF TypeOK, Threads
  <2>3. LoopBase("take")
    BY <1>1, <1>3, <2>2 DEF LoopBase, LoopLeaves, TypeOK, naps
  <2>4. LoopOK'
    BY <1>1, <1>2, <1>3, <2>2 DEF LoopOK, Goes
  <2>5. Runs' = Runs /\ Put' = Put /\ InSlots' = InSlots /\ Gone' = {}
    BY <1>2, <1>3, <2>1 DEF Runs, Put, InSlots, Gone
  <2>6. Live' = Live
    BY <1>2, <2>5 DEF Live
  <2>7. TypeOK'
    BY <1>1, <1>2, <1>3, <2>1, <2>3, <2>5, TaskFacts DEF TypeOK, LoopBase, Goes, Threads
  <2>8. OnceOK'
    BY <1>1, <1>2, <2>1, <2>5 DEF OnceOK
  <2>9. Cancels' \subseteq Cancels
    BY <1>1, <2>1, CancelsFewer
  <2> QED
    BY <1>3, <2>3, <2>4, <2>5, <2>6, <2>7, <2>8, <2>9, QuietEffect
<1>6. CASE held # {}
  <2>1. PICK s \in held : Release(s, "take")
    BY <1>6 DEF CancelTask
  <2>2. s \in Slots /\ slot[s].id = hand.id /\ "take" \in Labels
    BY LoopPlaces
  <2>3. /\ slot' \in [Slots -> SlotRecs] /\ OneEach(slot') /\ InSlots' = InSlots \ {slot[s].id}
        /\ queue' \in Seq(TaskSet) /\ OnceIn(queue') /\ deferred' \in Seq(Ids) /\ Distinct(deferred')
        /\ Named(queue', "cancel") = Named(queue, "cancel")
        /\ \E P : P \subseteq Put /\ Runs' = Runs \cup P /\ Put' = Put \ P
        /\ Goes(Loop, "take")
    BY <2>1, <2>2, ReleaseFacts
  <2>4. PICK P : P \subseteq Put /\ Runs' = Runs \cup P /\ Put' = Put \ P
    BY <2>3
  <2>5. LoopBase("take")
    BY <1>1, <1>3, <2>2, <2>3 DEF LoopBase, LoopLeaves, TypeOK, naps
  <2>6. LoopOK'
    BY <1>1, <1>2, <1>3, <2>3 DEF LoopOK, Goes
  <2>7. Gone' = {}
    BY <1>2, <1>3 DEF Gone
  <2>8. Live' = (Runs \cup Put \cup InSlots') /\ Live = (Runs \cup Put \cup InSlots)
    BY <1>2, <2>4, <2>7 DEF Live
  <2>9. Live' \subseteq Live /\ Live \ Live' \subseteq {hand.id} /\ InSlots' \subseteq InSlots
    BY <2>2, <2>3, <2>8
  <2>10. Put \subseteq Ids
    BY <1>1 DEF TypeOK, Put, Elems
  <2>11. TypeOK'
    BY <1>1, <1>2, <1>3, <2>3, <2>4, <2>5, <2>10, TaskFacts DEF TypeOK, LoopBase, Goes, Threads
  <2>12. Runs' \cap Put' = {} /\ (Runs' \cup Put') \cap InSlots' = {}
    BY <1>1, <2>3, <2>4 DEF OnceOK
  <2>13. OnceOK'
    BY <1>2, <2>3, <2>12 DEF OnceOK
  <2>14. Cancels' \subseteq Cancels
    BY <1>1, <2>3, CancelsFewer
  <2>15. Sent' = Sent
    BY <1>3 DEF Sent
  <2> QED
    BY <1>3, <1>4, <2>5, <2>6, <2>9, <2>11, <2>13, <2>14, <2>15 DEF LoopEffect, LoopBase, Goes, Inv, SentOK
<1> QED
  BY <1>5, <1>6

LEMMA NextResponseStep ==
    ASSUME Inv, NextResponse
    PROVE  LoopEffect
<1>1. TypeOK /\ OnceOK /\ LoopOK /\ InHand("next") /\ hand' = NoTask
  BY DEF Inv, NextResponse
<1>2. leaving = 0 /\ Gone = {} /\ Held' = {} /\ Held = {}
  BY <1>1, InHandFacts
<1>3. UNCHANGED <<queue, deferred, slot, results, leaving>> /\ Goto(Loop, "take")
  BY DEF NextResponse, queues, answers, Loop
<1>4. Goes(Loop, "take") /\ "take" \in Labels
  BY <1>1, <1>3, GotoFacts, LoopPlaces DEF TypeOK, Threads
<1>5. LoopBase("take")
  BY <1>1, <1>4 DEF NextResponse, LoopBase, LoopLeaves, TypeOK, naps, answers
<1>6. LoopOK'
  BY <1>1, <1>2, <1>3, <1>4 DEF LoopOK, Goes
<1>7. Runs' = Runs /\ Put' = Put /\ InSlots' = InSlots /\ Gone' = {}
  BY <1>2, <1>3 DEF Runs, Put, InSlots, Gone
<1>8. Live' = Live
  BY <1>2, <1>7 DEF Live
<1>9. TypeOK'
  BY <1>1, <1>2, <1>3, <1>5, <1>7, TaskFacts DEF TypeOK, LoopBase, Goes, Threads
<1>10. OnceOK'
  BY <1>1, <1>2, <1>3, <1>7 DEF OnceOK
<1>11. Cancels' \subseteq Cancels
  BY <1>1, <1>3, CancelsFewer
<1> QED
  BY <1>3, <1>5, <1>6, <1>7, <1>8, <1>9, <1>10, <1>11, QuietEffect

LEMMA UpdateStep ==
    ASSUME Inv, Update
    PROVE  LoopEffect
<1>1. TypeOK /\ OnceOK /\ LoopOK /\ pc[Loop] = "update" /\ hand = NoTask /\ leaving = 0
  BY DEF Inv, LoopOK, Update, Loop
<1>2. UNCHANGED <<deferred, waiting, results, hand, slot, leaving, spoils>> /\ LoopLeaves
  BY DEF Update, answers
<1>3. CASE Goto(Loop, "idle") /\ UNCHANGED <<queue, visit>>
  <2>1. Goes(Loop, "idle") /\ "idle" \in Labels
    BY <1>1, <1>3, GotoFacts, LoopPlaces DEF TypeOK, Threads
  <2>2. LoopBase("idle")
    BY <1>1, <1>2, <1>3, <2>1 DEF LoopBase, LoopLeaves, TypeOK, naps
  <2>3. LoopOK'
    BY <1>1, <1>2, <2>1 DEF LoopOK, Goes
  <2> QED
    BY <1>2, <1>3, <2>2, <2>3, StillEffect
<1>4. CASE queue' = Append(queue, Task("next", 0)) /\ visit' = Busy /\ NotifyOne(Loop, "slots")
  <2>1. Goes(Loop, "slots") /\ "slots" \in Labels
    BY <1>1, <1>4, NotifyFacts, LoopPlaces DEF TypeOK, Threads
  <2>2. LoopBase("slots")
    BY <1>1, <1>2, <1>4, <2>1 DEF LoopBase, LoopLeaves, TypeOK, naps, Busy
  <2>3. LoopOK'
    BY <1>1, <1>2, <2>1 DEF LoopOK, Goes
  <2> DEFINE t == Task("next", 0)
  <2>4. t \in TaskSet /\ t.type = "next"
    BY TaskFacts
  <2> HIDE DEF t
  <2>5. queue \in Seq(TaskSet) /\ OnceIn(queue)
    BY <1>1 DEF TypeOK, OnceOK
  <2>6. /\ <<t>> \in Seq(TaskSet) /\ OnceIn(<<t>>)
        /\ \A ty : Named(<<t>>, ty) = IF t.type = ty THEN {t.id} ELSE {}
    BY <2>4, SingleFacts
  <2>7. queue' = queue \o <<t>>
    BY <1>4, <2>4, <2>5 DEF t
  <2>8. /\ queue' \in Seq(TaskSet) /\ OnceIn(queue')
        /\ \A ty \in {"run", "cancel"} : Named(queue', ty) = Named(queue, ty)
    <3>1. Named(<<t>>, "run") = {} /\ Named(<<t>>, "cancel") = {}
      BY <2>4, <2>6
    <3>2. Named(queue, "run") \cap Named(<<t>>, "run") = {}
      BY <3>1
    <3>3. /\ queue \o <<t>> \in Seq(TaskSet) /\ OnceIn(queue \o <<t>>)
          /\ \A ty : Named(queue \o <<t>>, ty) = Named(queue, ty) \cup Named(<<t>>, ty)
      BY <2>5, <2>6, <3>2, JoinFacts
    <3> QED  BY <2>7, <3>1, <3>3
  <2>9. Runs' = Runs /\ Put' = Put /\ Held' = Held /\ InSlots' = InSlots /\ Gone' = Gone /\ Cancels' = Cancels
    BY <1>2, <2>8 DEF Runs, Put, Held, InSlots, Gone, Cancels
  <2>10. Live' = Live
    BY <2>9 DEF Live
  <2>11. TypeOK'
    BY <1>1, <1>2, <2>2, <2>8, <2>9 DEF TypeOK, LoopBase, Goes, Threads
  <2>12. OnceOK'
    BY <1>1, <1>2, <2>8, <2>9 DEF OnceOK
  <2> QED
    BY <1>2, <2>2, <2>3, <2>9, <2>10, <2>11, <2>12, QuietEffect
<1> QED
  BY <1>3, <1>4 DEF Update, Loop

LEMMA SlotGoesOnStep ==
    ASSUME Inv, NEW s \in Slots, SlotGoesOn(s)
    PROVE  LoopEffect
<1>1. TypeOK /\ OnceOK /\ LoopOK /\ pc[Loop] = "slots" /\ leaving = 0 /\ hand = NoTask
  BY DEF Inv, LoopOK, SlotGoesOn, AtSlot, Loop
<1>2. UNCHANGED <<queue, deferred, waiting, results, pc, hand, leaving, spoils>> /\ LoopLeaves
      /\ slot' = [slot EXCEPT ![s].rounds = @ + 1] /\ visit' = visit \ {s}
  BY DEF SlotGoesOn, answers, queues
<1>3. Goes(Loop, "slots") /\ "slots" \in Labels
  BY <1>1, <1>2, LoopPlaces DEF TypeOK, Threads, Goes, Rouses
<1>4. LoopBase("slots")
  BY <1>1, <1>2, <1>3 DEF LoopBase, LoopLeaves, TypeOK, naps
<1>5. LoopOK'
  BY <1>1, <1>2 DEF LoopOK
<1>6. slot \in [Slots -> SlotRecs] /\ OneEach(slot)
  BY <1>1 DEF TypeOK, OnceOK
<1>7. slot' \in [Slots -> SlotRecs] /\ OneEach(slot') /\ SlotIds(slot') = SlotIds(slot)
  BY <1>2, <1>6, SlotAdvanced
<1>8. Runs' = Runs /\ Put' = Put /\ Held' = Held /\ InSlots' = InSlots /\ Gone' = Gone /\ Cancels' = Cancels
  BY <1>1, <1>2, <1>7 DEF Runs, Put, Held, InSlots, Gone, Cancels
<1>9. Live' = Live
  BY <1>8 DEF Live
<1>10. TypeOK'
  BY <1>1, <1>2, <1>4, <1>7, <1>8 DEF TypeOK, LoopBase, Goes, Threads
<1>11. OnceOK'
  BY <1>1, <1>2, <1>7, <1>8 DEF OnceOK
<1> QED
  BY <1>2, <1>4, <1>5, <1>8, <1>9, <1>10, <1>11, QuietEffect

LEMMA SlotEndsStep ==
    ASSUME Inv, NEW s \in Slots, NEW e \in BOOLEAN, SlotEnds(s, e)
    PROVE  LoopEffect
<1>1. TypeOK /\ OnceOK /\ LoopOK /\ pc[Loop] = "slots" /\ leaving = 0 /\ hand = NoTask
  BY DEF Inv, LoopOK, SlotEnds, AtSlot, Loop
<1>2. UNCHANGED <<queue, deferred, waiting, pc, hand, slot>> /\ LoopLeaves
      /\ leaving' = s /\ visit' = visit \ {s} /\ Send(slot[s].id, e)
      /\ spoils' = IF e THEN spoils + 1 ELSE spoils
  BY DEF SlotEnds, queues
<1>3. Goes(Loop, "slots") /\ "slots" \in Labels
  BY <1>1, <1>2, LoopPlaces DEF TypeOK, Threads, Goes, Rouses
<1>4. LoopBase("slots")
  BY <1>1, <1>2, <1>3 DEF LoopBase, LoopLeaves, TypeOK, naps
<1>5. LoopOK'
  BY <1>1, <1>2 DEF LoopOK
<1>6. Runs' = Runs /\ Put' = Put /\ Held' = Held /\ InSlots' = InSlots /\ Gone = {} /\ Gone' = {slot[s].id}
      /\ Cancels' = Cancels
  BY <1>1, <1>2, JobsFacts DEF Runs, Put, Held, InSlots, Gone, Cancels
<1>7. slot[s].id # 0 => slot[s].id \in InSlots
  BY DEF InSlots, SlotIds
<1>8. 0 \notin Ids /\ waiting \subseteq Ids
  BY <1>1, JobsFacts DEF TypeOK
<1>9. slot[s].id \in waiting => slot[s].id \in Live
  BY <1>6, <1>7, <1>8 DEF Live
<1>10. Live' = Live \ {slot[s].id}
  <2>1. (Runs \cup Put \cup Held) \cap InSlots = {}
    BY <1>1 DEF OnceOK
  <2>2. 0 \notin InSlots
    BY DEF InSlots, SlotIds
  <2>3. 0 \notin Runs \cup Put \cup Held
    BY <1>1, JobsFacts DEF TypeOK, Put, Elems
  <2> QED  BY <1>6, <1>7, <2>1, <2>2, <2>3 DEF Live
<1>11. /\ results' \subseteq [id : Ids, error : BOOLEAN]
       /\ Sent' = Sent \cup ((Live \ Live') \cap waiting)
       /\ \A x, y \in results' : x.id = y.id => x = y
  BY <1>2, <1>9, <1>10, SendFacts
<1>12. TypeOK'
  BY <1>1, <1>2, <1>4, <1>6, <1>11 DEF TypeOK, LoopBase, Goes, Threads
<1>13. OnceOK'
  BY <1>1, <1>2, <1>6 DEF OnceOK
<1> QED
  BY <1>4, <1>5, <1>6, <1>10, <1>11, <1>12, <1>13 DEF LoopEffect, LoopBase, Goes

LEMMA SlotReleaseStep ==
    ASSUME Inv, SlotRelease
    PROVE  LoopEffect
<1>1. TypeOK /\ OnceOK /\ LoopOK /\ pc[Loop] = "slots" /\ leaving # 0 /\ hand = NoTask
  BY DEF Inv, LoopOK, SlotRelease, Loop
<1>2. UNCHANGED <<waiting, results, hand, visit, spoils>> /\ LoopLeaves /\ leaving' = 0
      /\ Release(leaving, "slots")
  BY DEF SlotRelease, answers
<1>3. leaving \in Slots /\ "slots" \in Labels
  BY <1>1, LoopPlaces DEF TypeOK
<1>4. PICK s \in Slots : s = leaving
  BY <1>3
<1>5. /\ slot' \in [Slots -> SlotRecs] /\ OneEach(slot') /\ InSlots' = InSlots \ {slot[s].id}
      /\ queue' \in Seq(TaskSet) /\ OnceIn(queue') /\ deferred' \in Seq(Ids) /\ Distinct(deferred')
      /\ Named(queue', "cancel") = Named(queue, "cancel")
      /\ \E P : P \subseteq Put /\ Runs' = Runs \cup P /\ Put' = Put \ P
      /\ Goes(Loop, "slots")
  BY <1>2, <1>3, <1>4, ReleaseFacts
<1>6. PICK P : P \subseteq Put /\ Runs' = Runs \cup P /\ Put' = Put \ P
  BY <1>5
<1>7. LoopBase("slots")
  BY <1>1, <1>2, <1>3, <1>5 DEF LoopBase, LoopLeaves, TypeOK, naps
<1>8. LoopOK'
  BY <1>1, <1>2, <1>5 DEF LoopOK, Goes
<1>9. Gone' = {} /\ Gone = {slot[s].id} /\ Held = {} /\ Held' = {} /\ Cancels' \subseteq Cancels
  BY <1>1, <1>2, <1>4, <1>5, TaskFacts DEF Gone, Held, Cancels
<1>10. Live' = Live
  BY <1>5, <1>6, <1>9 DEF Live
<1>11. Put \subseteq Ids
  BY <1>1 DEF TypeOK, Put, Elems
<1>12. TypeOK'
  BY <1>1, <1>2, <1>5, <1>6, <1>7, <1>9, <1>11 DEF TypeOK, LoopBase, Goes, Threads
<1>13. Runs' \cap Put' = {} /\ (Runs' \cup Put') \cap InSlots' = {}
  BY <1>1, <1>5, <1>6 DEF OnceOK
<1>14. OnceOK'
  BY <1>5, <1>9, <1>13 DEF OnceOK
<1>15. InSlots' \subseteq InSlots \cup Live
  BY <1>5
<1> QED
  BY <1>2, <1>7, <1>8, <1>9, <1>10, <1>12, <1>14, <1>15, QuietEffect

LEMMA RestStep ==
    ASSUME Inv, Updated \/ IdleEnds \/ FallAsleep \/ LoopRoused
    PROVE  LoopEffect
<1>1. TypeOK /\ LoopOK /\ pc[Loop] # "process" /\ hand = NoTask /\ leaving = 0
  BY DEF Inv, LoopOK, Updated, IdleEnds, FallAsleep, LoopRoused, Loop
<1>2. UNCHANGED <<queue, deferred, waiting, results, hand, slot, visit, leaving, received, spoils>>
  BY DEF Updated, IdleEnds, FallAsleep, LoopRoused, queues, answers, slotVars, LoopLeaves
<1>3. sleeping' \in BOOLEAN /\ reqStop' \in BOOLEAN /\ sleeps' \in Nat
  <2>1. sleeping \in BOOLEAN /\ reqStop \in BOOLEAN /\ sleeps \in Nat
    BY <1>1 DEF TypeOK
  <2>2. CASE Updated \/ IdleEnds
    BY <2>1, <2>2 DEF Updated, IdleEnds, naps, LoopLeaves
  <2>3. CASE FallAsleep
    <3>1. sleeping' = TRUE /\ reqStop' = FALSE /\ sleeps' = sleeps + 1
      BY <2>3 DEF FallAsleep
    <3>2. sleeping' \in BOOLEAN /\ reqStop' \in BOOLEAN
      BY <3>1, Zenon
    <3> QED  BY <2>1, <3>1, <3>2
  <2>4. CASE LoopRoused
    <3>1. sleeps' = sleeps
      BY <2>4 DEF LoopRoused
    <3>2. sleeping' \in {sleeping, FALSE} /\ reqStop' \in {reqStop, FALSE}
      BY <2>4, Zenon DEF LoopRoused
    <3> QED  BY <2>1, <3>1, <3>2
  <2> QED  BY <2>2, <2>3, <2>4
<1>4. PICK l \in {"idle", "take", "dozing"} : \E who : pc' = Moved(Loop, l, who)
  BY DEF Updated, IdleEnds, FallAsleep, LoopRoused, Goto, Loop
<1>5. PICK who : pc' = Moved(Loop, l, who)
  BY <1>4
<1>6. Goes(Loop, l) /\ l \in Labels
  BY <1>1, <1>5, MovedFacts, LoopPlaces DEF TypeOK, Threads
<1>7. LoopBase(l)
  BY <1>1, <1>2, <1>3, <1>6 DEF LoopBase, TypeOK
<1>8. LoopOK'
  BY <1>1, <1>2, <1>6 DEF LoopOK, Goes
<1> QED
  BY <1>2, <1>7, <1>8, StillEffect

LEMMA LoopEffects ==
    ASSUME Inv, LoopStep \/ FallAsleep
    PROVE  LoopEffect
  BY TakeStep, LaunchStep, LaunchFailsStep, DeferStep, SlotActionStep, CancelTaskStep,
     NextResponseStep, UpdateStep, SlotGoesOnStep, SlotEndsStep, SlotReleaseStep, RestStep
     DEF LoopStep

\* So a step of the loop keeps the invariant, for the requests too.
LEMMA LoopKeeps ==
    ASSUME Inv, LoopEffect
    PROVE  Inv'
<1>1. TypeOK' /\ OnceOK' /\ LoopOK'
  BY DEF LoopEffect
<1>2. /\ Rouses(Loop) /\ received' = received /\ waiting' = waiting
      /\ Live' \subseteq Live /\ InSlots' \subseteq InSlots \cup Live /\ Cancels' \subseteq Cancels
      /\ Sent' = Sent \cup ((Live \ Live') \cap waiting)
      /\ \A x, y \in results' : x.id = y.id => x = y
  BY DEF LoopEffect
<1>3. SentOK'
  <2>1. Sent \cap Live = {}
    BY DEF Inv, SentOK
  <2> QED  BY <1>2, <2>1 DEF SentOK
<1>4. ASSUME NEW r \in Requests
      PROVE  FreshAt(r)' /\ WaitAt(r)' /\ CountAt(r)' /\ (pc[r] = "done" => pc'[r] = "done")
  <2>1. pc'[r] = pc[r] \/ (pc[r] = "dozing" /\ pc'[r] = "roused")
    BY <1>2, LoopPlaces DEF Rouses
  <2>2. FreshAt(r) /\ WaitAt(r) /\ CountAt(r)
    BY DEF Inv
  <2>3. FreshAt(r)'
    <3> SUFFICES ASSUME pc'[r] \in Before
                 PROVE  received'[r] = 0 /\ Own(r) \cap (Live' \cup InSlots' \cup Sent') = {}
      BY DEF FreshAt
    <3>1. pc[r] \in Before
      BY <2>1 DEF Before
    <3> QED  BY <1>2, <2>2, <3>1 DEF FreshAt
  <2>4. WaitAt(r)'
    BY <1>2, <2>1, <2>2 DEF WaitAt
  <2>5. CountAt(r)'
    <3>1. pc'[r] \in {"recv", "stop"} => pc'[r] = pc[r]
      BY <2>1
    <3>2. ASSUME pc[r] \in {"recv", "stop"}  PROVE Pending(r)' = Pending(r)
      <4>1. Own(r) \subseteq waiting
        BY <2>2, <3>2 DEF WaitAt
      <4> QED  BY <1>2, <4>1 DEF Pending
    <3> QED  BY <1>2, <2>2, <3>1, <3>2 DEF CountAt
  <2> QED  BY <2>1, <2>3, <2>4, <2>5
<1>5. CancelOK'
  <2>1. CancelOK
    BY DEF Inv
  <2> QED  BY <1>2, <1>4, <2>1 DEF CancelOK
<1> QED
  BY <1>1, <1>3, <1>4, <1>5 DEF Inv

-----------------------------------------------------------------------------
(***************************************************************************)
(* The requests.                                                            *)
(***************************************************************************)
\* What a step of request r leaves: the loop's hand and slots.
ReqBase(r, l) ==
    /\ l \in Labels /\ Goes(r, l)
    /\ sleeping' \in BOOLEAN /\ reqStop' \in BOOLEAN /\ spoils' \in Nat /\ sleeps' = sleeps
    /\ UNCHANGED <<hand, slot, visit, leaving>>

\* The tasks of the other requests stay where they are.
Apart(r) == \A t \in Requests \ {r} :
    /\ received'[t] = received[t]
    /\ Own(t) \cap Live' = Own(t) \cap Live /\ Own(t) \cap Sent' = Own(t) \cap Sent
    /\ Own(t) \cap waiting' = Own(t) \cap waiting

LEMMA ReqLoop ==
    ASSUME Inv, NEW r \in Requests, NEW l, ReqBase(r, l)
    PROVE  LoopOK' /\ Held' = Held /\ InSlots' = InSlots /\ Gone' = Gone
<1>1. pc'[Loop] = pc[Loop] \/ (pc[Loop] = "dozing" /\ pc'[Loop] = "roused")
  BY LoopPlaces DEF ReqBase, Goes, Rouses
<1>2. LoopOK'
  BY <1>1 DEF Inv, LoopOK, ReqBase
<1> QED
  BY <1>2 DEF ReqBase, Held, InSlots, Gone

LEMMA ReqKeeps ==
    ASSUME Inv, NEW r \in Requests, NEW l, ReqBase(r, l), Apart(r),
           TypeOK', OnceOK', SentOK', CancelOK', FreshAt(r)', WaitAt(r)', CountAt(r)'
    PROVE  Inv'
<1>1. LoopOK' /\ InSlots' = InSlots
  BY ReqLoop
<1>2. ASSUME NEW t \in Requests, t # r
      PROVE  FreshAt(t)' /\ WaitAt(t)' /\ CountAt(t)'
  <2>1. pc'[t] = pc[t] \/ (pc[t] = "dozing" /\ pc'[t] = "roused")
    BY <1>2, LoopPlaces DEF ReqBase, Goes, Rouses
  <2>2. FreshAt(t) /\ WaitAt(t) /\ CountAt(t)
    BY DEF Inv
  <2>3. /\ received'[t] = received[t]
        /\ Own(t) \cap Live' = Own(t) \cap Live /\ Own(t) \cap Sent' = Own(t) \cap Sent
        /\ Own(t) \cap waiting' = Own(t) \cap waiting
    BY <1>2 DEF Apart
  <2>4. FreshAt(t)'
    <3> SUFFICES ASSUME pc'[t] \in Before
                 PROVE  received'[t] = 0 /\ Own(t) \cap (Live' \cup InSlots' \cup Sent') = {}
      BY DEF FreshAt
    <3>1. pc[t] \in Before
      BY <2>1 DEF Before
    <3> QED  BY <1>1, <2>2, <2>3, <3>1 DEF FreshAt
  <2>5. WaitAt(t)'
    BY <2>1, <2>2, <2>3 DEF WaitAt
  <2>6. CountAt(t)'
    <3>1. Pending(t)' = Pending(t)
      BY <2>3 DEF Pending
    <3> QED  BY <2>1, <2>2, <2>3, <3>1 DEF CountAt
  <2> QED  BY <2>4, <2>5, <2>6
<1> QED
  BY <1>1, <1>2 DEF Inv

\* A step that only moves the request, and perhaps what it waits for.
LEMMA ReqMoves ==
    ASSUME Inv, NEW r \in Requests, NEW l, ReqBase(r, l), pc[r] # "done",
           UNCHANGED <<queue, deferred, results, received>>, waiting' \subseteq Ids,
           \A t \in Requests \ {r} : Own(t) \cap waiting' = Own(t) \cap waiting,
           l \in Before => pc[r] \in Before,
           l \notin {"recv", "stop"} \/ (l = "stop" /\ pc[r] = "recv"),
           WaitAt(r)'
    PROVE  Inv'
<1>1. TypeOK /\ OnceOK /\ SentOK /\ CancelOK /\ FreshAt(r) /\ CountAt(r)
  BY DEF Inv
<1>2. Held' = Held /\ InSlots' = InSlots /\ Gone' = Gone /\ Runs' = Runs /\ Put' = Put /\ Sent' = Sent
      /\ Cancels' = Cancels
  BY ReqLoop DEF Runs, Put, Sent, Cancels, ReqBase
<1>3. Live' = Live /\ Pending(r)' = Pending(r)
  BY <1>2 DEF Live, Pending
<1>4. TypeOK'
  BY <1>1, <1>2 DEF TypeOK, ReqBase, Goes, Threads
<1>5. OnceOK'
  BY <1>1, <1>2 DEF OnceOK, ReqBase
<1>6. SentOK'
  BY <1>1, <1>2, <1>3 DEF SentOK
<1>7. CancelOK'
  <2>1. ASSUME NEW t \in Requests, pc[t] = "done"  PROVE pc'[t] = "done"
    BY <2>1, LoopPlaces DEF ReqBase, Goes, Rouses
  <2> QED  BY <1>1, <1>2, <2>1 DEF CancelOK
<1>8. pc'[r] = l
  BY DEF ReqBase, Goes
<1>9. FreshAt(r)'
  BY <1>1, <1>2, <1>3, <1>8 DEF FreshAt
<1>10. CountAt(r)'
  <2>1. received' = received
    OBVIOUS
  <2>2. CASE l \notin {"recv", "stop"}
    BY <1>1, <1>8, <2>1, <2>2 DEF CountAt
  <2>3. CASE l = "stop" /\ pc[r] = "recv"
    <3>1. Cardinality(Pending(r)) \in Nat /\ received[r] \in Nat
      BY <1>1, PendingFacts DEF Pending, TypeOK
    <3>2. received[r] + Cardinality(Pending(r)) = Len(Mine[r])
      BY <1>1, <2>3 DEF CountAt
    <3>3. received[r] + Cardinality(Pending(r)) <= Len(Mine[r])
      BY <3>1, <3>2, MineFacts
    <3> QED  BY <1>1, <1>3, <1>8, <2>1, <2>3, <3>3 DEF CountAt
  <2> QED  BY <2>2, <2>3
<1>11. Apart(r)
  BY <1>2, <1>3 DEF Apart
<1> QED
  BY <1>4, <1>5, <1>6, <1>7, <1>9, <1>10, <1>11, ReqKeeps

LEMMA ReqPlaces ==
    /\ \A r \in Requests : r \in Threads
    /\ {"dozing", "register", "post", "recv", "stop", "erase", "cancel", "done"} \subseteq Labels
    /\ {"dozing", "register", "post"} \subseteq Before
    /\ {"recv", "stop", "erase", "cancel", "done"} \cap Before = {}
  BY DEF Threads, Labels, Before

LEMMA WakeStep ==
    ASSUME Inv, NEW r \in Requests, WakeServer(r) \/ Roused(r)
    PROVE  Inv'
<1>1. TypeOK /\ pc \in [Threads -> Labels] /\ r \in Threads
  BY ReqPlaces DEF Inv, TypeOK, Threads
<1>2. PICK l \in {"dozing", "register"} : Goto(r, l) \/ NotifyOne(r, l)
  BY DEF WakeServer, Roused, Ask
<1>3. l \in Labels /\ Goes(r, l)
  BY <1>1, <1>2, GotoFacts, NotifyFacts, ReqPlaces
<1>4. pc[r] \in {"start", "roused"}
  BY DEF WakeServer, Roused
<1>5. UNCHANGED <<queue, deferred, results, received, waiting, hand, slot, visit, leaving, sleeping, sleeps, spoils>>
  BY DEF WakeServer, Roused, queues, naps, answers, slotVars
<1>6. reqStop' \in BOOLEAN
  BY <1>1 DEF WakeServer, Roused, Ask, naps, TypeOK
<1>7. ReqBase(r, l)
  BY <1>1, <1>3, <1>5, <1>6 DEF ReqBase, TypeOK
<1>8. WaitAt(r)'
  BY <1>2, <1>3 DEF WaitAt, Goes
<1>9. pc[r] # "done" /\ pc[r] \in Before /\ l \notin {"recv", "stop"} /\ waiting' \subseteq Ids
  BY <1>1, <1>2, <1>4, <1>5 DEF Before, TypeOK
<1> QED
  BY <1>5, <1>7, <1>8, <1>9, ReqMoves

LEMMA RegisterStep ==
    ASSUME Inv, NEW r \in Requests, Register(r)
    PROVE  Inv'
<1>1. TypeOK /\ pc \in [Threads -> Labels] /\ r \in Threads
  BY ReqPlaces DEF Inv, TypeOK, Threads
<1>2. pc[r] = "register" /\ waiting' = waiting \cup Own(r) /\ Goto(r, "post")
  BY DEF Register, Registered
<1>3. "post" \in Labels /\ Goes(r, "post") /\ pc'[r] = "post"
  BY <1>1, <1>2, GotoFacts, ReqPlaces DEF Goes
<1>4. UNCHANGED <<queue, deferred, results, received, hand, slot, visit, leaving, sleeping, reqStop, sleeps, spoils>>
  BY DEF Register, queues, naps, slotVars
<1>5. ReqBase(r, "post")
  BY <1>1, <1>3, <1>4 DEF ReqBase, TypeOK
<1>6. WaitAt(r)'
  BY <1>2, <1>3 DEF WaitAt
<1>7. waiting' \subseteq Ids /\ \A t \in Requests \ {r} : Own(t) \cap waiting' = Own(t) \cap waiting
  BY <1>1, <1>2, OwnFacts DEF TypeOK
<1>8. pc[r] # "done" /\ pc[r] \in Before
  BY <1>2, ReqPlaces
<1> QED
  BY <1>4, <1>5, <1>6, <1>7, <1>8, ReqMoves

LEMMA GiveUpStep ==
    ASSUME Inv, NEW r \in Requests, GiveUp(r)
    PROVE  Inv'
<1>1. TypeOK /\ pc \in [Threads -> Labels] /\ r \in Threads /\ WaitAt(r)
  BY ReqPlaces DEF Inv, TypeOK, Threads
<1>2. pc[r] = "recv" /\ spoils' = spoils + 1 /\ Goto(r, "stop")
  BY DEF GiveUp
<1>3. "stop" \in Labels /\ Goes(r, "stop") /\ pc'[r] = "stop"
  BY <1>1, <1>2, GotoFacts, ReqPlaces DEF Goes
<1>4. UNCHANGED <<queue, deferred, results, received, waiting, hand, slot, visit, leaving, sleeping, reqStop, sleeps>>
  BY DEF GiveUp, queues, naps, slotVars, answers
<1>5. ReqBase(r, "stop")
  BY <1>1, <1>2, <1>3, <1>4 DEF ReqBase, TypeOK
<1>6. WaitAt(r)'
  BY <1>1, <1>2, <1>3, <1>4 DEF WaitAt
<1>7. waiting' \subseteq Ids /\ "stop" \notin Before
  BY <1>1, <1>4, ReqPlaces DEF TypeOK
<1> QED
  BY <1>2, <1>4, <1>5, <1>6, <1>7, ReqMoves

\* A request that stops with everything received has nothing pending: it leaves no result.
LEMMA StopStep ==
    ASSUME Inv, NEW r \in Requests, Stop(r)
    PROVE  Inv'
<1>1. TypeOK /\ pc \in [Threads -> Labels] /\ r \in Threads /\ CountAt(r)
  BY ReqPlaces DEF Inv, TypeOK, Threads
<1>2. pc[r] = "stop" /\ waiting' = waiting \ Own(r)
  BY DEF Stop
<1>3. PICK l \in {"erase", "done"} : l = (IF HasNext(r) THEN "erase" ELSE "done") /\ Goto(r, l)
  BY DEF Stop
<1>4. l \in Labels /\ Goes(r, l) /\ pc'[r] = l
  BY <1>1, <1>3, GotoFacts, ReqPlaces DEF Goes
<1>5. UNCHANGED <<queue, deferred, results, received, hand, slot, visit, leaving, sleeping, reqStop, sleeps, spoils>>
  BY DEF Stop, queues, naps, slotVars
<1>6. ReqBase(r, l)
  BY <1>1, <1>4, <1>5 DEF ReqBase, TypeOK
<1>7. l = "done" => Own(r) \cap Sent = {}
  <2> SUFFICES ASSUME l = "done"  PROVE Own(r) \cap Sent = {}
    OBVIOUS
  <2>1. ~ HasNext(r)
    BY <1>3
  <2>2. Pending(r) = Own(r) \cap (Live \cup Sent)
    BY DEF Pending
  <2>3. IsFiniteSet(Pending(r)) /\ Cardinality(Pending(r)) \in Nat
    BY <2>2, PendingFacts
  <2>4. received[r] \in Nat /\ Len(Mine[r]) \in Nat
    BY <1>1, MineFacts DEF TypeOK
  <2>5. received[r] + Cardinality(Pending(r)) <= Len(Mine[r])
    BY <1>1, <1>2 DEF CountAt
  <2>6. Cardinality(Pending(r)) = 0
    BY <2>1, <2>3, <2>4, <2>5 DEF HasNext
  <2>7. Pending(r) = {}
    BY <2>3, <2>6, FS_EmptySet
  <2> QED  BY <2>2, <2>7
<1>8. WaitAt(r)'
  <2>1. Sent' = Sent
    BY <1>5 DEF Sent
  <2> QED  BY <1>2, <1>3, <1>4, <1>7, <2>1 DEF WaitAt
<1>9. waiting' \subseteq Ids /\ \A t \in Requests \ {r} : Own(t) \cap waiting' = Own(t) \cap waiting
  BY <1>1, <1>2, OwnFacts DEF TypeOK
<1>10. pc[r] # "done" /\ l \notin Before /\ l \notin {"recv", "stop"}
  BY <1>2, <1>3, ReqPlaces
<1> QED
  BY <1>5, <1>6, <1>8, <1>9, <1>10, ReqMoves

\* The tasks of a request come into the queue when none of them is anywhere.
LEMMA PostStep ==
    ASSUME Inv, NEW r \in Requests, Post(r)
    PROVE  Inv'
<1>1. TypeOK /\ OnceOK /\ SentOK /\ CancelOK /\ FreshAt(r) /\ WaitAt(r) /\ CountAt(r)
      /\ pc \in [Threads -> Labels] /\ r \in Threads
  BY ReqPlaces DEF Inv, TypeOK, Threads
<1> DEFINE b == [k \in 1..Len(Mine[r]) |-> Task("run", Mine[r][k])]
<1>2. pc[r] = "post" /\ queue' = queue \o b /\ NotifyOne(r, "recv")
  BY DEF Post
<1>3. UNCHANGED <<deferred, results, waiting, received, hand, slot, visit, leaving, sleeping, reqStop, sleeps, spoils>>
  BY DEF Post, naps, slotVars, answers
<1>4. "recv" \in Labels /\ Goes(r, "recv") /\ pc'[r] = "recv"
  BY <1>1, <1>2, NotifyFacts, ReqPlaces DEF Goes
<1>5. ReqBase(r, "recv")
  BY <1>1, <1>3, <1>4 DEF ReqBase, TypeOK
<1>6. /\ Mine[r] \in Seq(Ids) /\ Distinct(Mine[r]) /\ Own(r) = Elems(Mine[r]) /\ Own(r) \subseteq Ids
      /\ Len(Mine[r]) \in Nat /\ Cardinality(Own(r)) = Len(Mine[r])
  BY MineFacts
<1>7. b \in Seq(TaskSet) /\ OnceIn(b) /\ \A u : Named(b, u) = IF u = "run" THEN Elems(Mine[r]) ELSE {}
  BY <1>6, BatchFacts
<1> HIDE DEF b
<1>8. Named(b, "run") = Own(r) /\ Named(b, "cancel") = {}
  BY <1>6, <1>7
<1>9. received[r] = 0 /\ Own(r) \cap (Live \cup InSlots \cup Sent) = {}
  BY <1>1, <1>2 DEF FreshAt, Before
<1>10. /\ queue' \in Seq(TaskSet) /\ OnceIn(queue')
       /\ Named(queue', "run") = Runs \cup Own(r) /\ Named(queue', "cancel") = Named(queue, "cancel")
  <2>1. queue \in Seq(TaskSet) /\ OnceIn(queue)
    BY <1>1 DEF TypeOK, OnceOK
  <2>2. Named(queue, "run") \cap Named(b, "run") = {}
    BY <1>8, <1>9 DEF Live, Runs
  <2>3. /\ queue \o b \in Seq(TaskSet) /\ OnceIn(queue \o b)
        /\ \A ty : Named(queue \o b, ty) = Named(queue, ty) \cup Named(b, ty)
    BY <1>7, <2>1, <2>2, JoinFacts
  <2> QED  BY <1>2, <1>8, <2>3 DEF Runs
<1>11. Held' = Held /\ InSlots' = InSlots /\ Gone' = Gone /\ Put' = Put /\ Sent' = Sent
       /\ Runs' = Runs \cup Own(r) /\ Cancels' = Cancels
  BY <1>3, <1>5, <1>10, ReqLoop DEF Put, Sent, Cancels, Runs
<1>12. Live' = Live \cup Own(r)
  BY <1>11 DEF Live
<1>13. TypeOK'
  BY <1>1, <1>3, <1>4, <1>6, <1>10, <1>11 DEF TypeOK, Goes, Threads
<1>14. OnceOK'
  <2>1. Own(r) \cap Put = {} /\ Own(r) \cap Held = {} /\ Own(r) \cap InSlots = {}
    BY <1>9 DEF Live
  <2> QED  BY <1>1, <1>3, <1>10, <1>11, <2>1 DEF OnceOK
<1>15. SentOK'
  BY <1>1, <1>3, <1>9, <1>11, <1>12 DEF SentOK
<1>16. CancelOK'
  <2>1. ASSUME NEW t \in Requests, pc[t] = "done"  PROVE pc'[t] = "done"
    BY <1>2, <1>4, <2>1, LoopPlaces DEF Goes, Rouses
  <2> QED  BY <1>1, <1>11, <2>1 DEF CancelOK
<1>17. FreshAt(r)'
  BY <1>4, ReqPlaces DEF FreshAt
<1>18. WaitAt(r)'
  BY <1>1, <1>2, <1>3, <1>4 DEF WaitAt
<1>19. CountAt(r)'
  <2>1. Pending(r)' = Own(r)
    BY <1>12 DEF Pending
  <2> QED  BY <1>1, <1>3, <1>4, <1>6, <1>9, <2>1 DEF CountAt
<1>20. Apart(r)
  <2>1. \A t \in Requests \ {r} : Own(t) \cap Own(r) = {}
    BY OwnFacts
  <2> QED  BY <1>3, <1>11, <1>12, <2>1 DEF Apart
<1> QED
  BY <1>5, <1>13, <1>14, <1>15, <1>16, <1>17, <1>18, <1>19, <1>20, ReqKeeps

\* A result that is read is that of a pending task, which is pending no more.
LEMMA ReceiveStep ==
    ASSUME Inv, NEW r \in Requests, Receive(r)
    PROVE  Inv'
<1>1. TypeOK /\ OnceOK /\ SentOK /\ CancelOK /\ WaitAt(r) /\ CountAt(r)
      /\ pc \in [Threads -> Labels] /\ r \in Threads
  BY ReqPlaces DEF Inv, TypeOK, Threads
<1>2. PICK res \in {x \in results : x.id \in Own(r)} :
          /\ results' = results \ {res}
          /\ received' = IF res.error THEN received ELSE [received EXCEPT ![r] = @ + 1]
          /\ Goto(r, IF res.error \/ received'[r] = Len(Mine[r]) THEN "stop" ELSE "recv")
  BY DEF Receive
<1>3. PICK l \in {"stop", "recv"} : Goto(r, l) /\ (l = "recv" => ~ res.error)
  <2>1. CASE res.error \/ received'[r] = Len(Mine[r])
    BY <1>2, <2>1
  <2>2. CASE ~ (res.error \/ received'[r] = Len(Mine[r]))
    BY <1>2, <2>2
  <2> QED  BY <2>1, <2>2
<1>4. UNCHANGED <<queue, deferred, waiting, hand, slot, visit, leaving, sleeping, reqStop, sleeps, spoils>>
      /\ pc[r] = "recv"
  BY DEF Receive, queues, naps, slotVars
<1>5. l \in Labels /\ Goes(r, l) /\ pc'[r] = l
  BY <1>1, <1>3, GotoFacts, ReqPlaces DEF Goes
<1>6. ReqBase(r, l)
  BY <1>1, <1>4, <1>5 DEF ReqBase, TypeOK
<1>7. /\ \A t \in Requests \ {r} : received'[t] = received[t]
      /\ received'[r] = IF res.error THEN received[r] ELSE received[r] + 1
      /\ received' \in [Requests -> Nat]
  <2>1. received \in [Requests -> Nat]
    BY <1>1 DEF TypeOK
  <2>2. CASE res.error
    BY <1>2, <2>1, <2>2
  <2>3. CASE ~ res.error
    BY <1>2, <2>1, <2>3
  <2> QED  BY <2>2, <2>3
<1>8. Held' = Held /\ InSlots' = InSlots /\ Gone' = Gone /\ Put' = Put /\ Runs' = Runs /\ Cancels' = Cancels
  BY <1>4, <1>6, ReqLoop DEF Put, Runs, Cancels
<1>9. Live' = Live
  BY <1>8 DEF Live
<1>10. res \in results /\ res.id \in Own(r) /\ res.id \in Sent /\ res.id \notin Live
  BY <1>1, <1>2 DEF Sent, SentOK
<1>11. Sent' = Sent \ {res.id}
  BY <1>1, <1>2, <1>10 DEF Sent, SentOK
<1>12. TypeOK'
  BY <1>1, <1>2, <1>4, <1>5, <1>7, <1>8 DEF TypeOK, Goes, Threads
<1>13. OnceOK'
  BY <1>1, <1>4, <1>8 DEF OnceOK
<1>14. SentOK'
  BY <1>1, <1>2, <1>9, <1>11 DEF SentOK
<1>15. CancelOK'
  <2>1. ASSUME NEW t \in Requests, pc[t] = "done"  PROVE pc'[t] = "done"
    BY <1>4, <1>6, <2>1, LoopPlaces DEF ReqBase, Goes, Rouses
  <2> QED  BY <1>1, <1>8, <2>1 DEF CancelOK
<1>16. FreshAt(r)'
  BY <1>5, ReqPlaces DEF FreshAt
<1>17. WaitAt(r)'
  BY <1>1, <1>4, <1>5 DEF WaitAt
<1>18. CountAt(r)'
  <2>1. Pending(r)' = Pending(r) \ {res.id} /\ res.id \in Pending(r)
    BY <1>9, <1>10, <1>11 DEF Pending
  <2>2. IsFiniteSet(Pending(r)) /\ Cardinality(Pending(r)) \in Nat
    BY PendingFacts DEF Pending
  <2>3. Cardinality(Pending(r) \ {res.id}) = Cardinality(Pending(r)) - 1
    BY <2>1, <2>2, FS_RemoveElement
  <2>4. IsFiniteSet(Pending(r) \ {res.id})
    BY <2>2, FS_RemoveElement
  <2>5. Cardinality(Pending(r) \ {res.id}) \in Nat
    BY <2>4, FS_CardinalityType
  <2>6. received[r] + Cardinality(Pending(r)) = Len(Mine[r]) /\ received[r] \in Nat /\ Len(Mine[r]) \in Nat
    BY <1>1, <1>4, MineFacts DEF CountAt, TypeOK
  <2>7. received'[r] + Cardinality(Pending(r)') <= Len(Mine[r]) /\ received'[r] <= Len(Mine[r])
    BY <1>7, <2>1, <2>2, <2>3, <2>5, <2>6
  <2>8. ~ res.error => received'[r] + Cardinality(Pending(r)') = Len(Mine[r])
    BY <1>7, <2>1, <2>2, <2>3, <2>5, <2>6
  <2> QED  BY <1>3, <1>5, <2>7, <2>8 DEF CountAt
<1>19. Apart(r)
  <2>1. \A t \in Requests \ {r} : res.id \notin Own(t)
    BY <1>10, OwnFacts
  <2> QED  BY <1>4, <1>7, <1>9, <1>11, <2>1 DEF Apart
<1> QED
  BY <1>6, <1>12, <1>13, <1>14, <1>15, <1>16, <1>17, <1>18, <1>19, ReqKeeps

LEMMA EraseStep ==
    ASSUME Inv, NEW r \in Requests, Erase(r)
    PROVE  Inv'
<1>1. TypeOK /\ OnceOK /\ SentOK /\ CancelOK /\ WaitAt(r) /\ CountAt(r)
      /\ pc \in [Threads -> Labels] /\ r \in Threads
  BY ReqPlaces DEF Inv, TypeOK, Threads
<1>2. pc[r] = "erase" /\ results' = {x \in results : x.id \notin Own(r)} /\ Goto(r, "cancel")
  BY DEF Erase, Erased
<1>3. UNCHANGED <<queue, deferred, waiting, received, hand, slot, visit, leaving, sleeping, reqStop, sleeps, spoils>>
  BY DEF Erase, queues, naps, slotVars
<1>4. "cancel" \in Labels /\ Goes(r, "cancel") /\ pc'[r] = "cancel"
  BY <1>1, <1>2, GotoFacts, ReqPlaces DEF Goes
<1>5. ReqBase(r, "cancel")
  BY <1>1, <1>3, <1>4 DEF ReqBase, TypeOK
<1>6. Held' = Held /\ InSlots' = InSlots /\ Gone' = Gone /\ Put' = Put /\ Runs' = Runs /\ Cancels' = Cancels
  BY <1>3, <1>5, ReqLoop DEF Put, Runs, Cancels
<1>7. Live' = Live /\ Sent' = Sent \ Own(r)
  BY <1>2, <1>6 DEF Live, Sent
<1>8. TypeOK'
  BY <1>1, <1>2, <1>3, <1>4, <1>6 DEF TypeOK, Goes, Threads
<1>9. OnceOK'
  BY <1>1, <1>3, <1>6 DEF OnceOK
<1>10. SentOK'
  BY <1>1, <1>2, <1>7 DEF SentOK
<1>11. CancelOK'
  <2>1. ASSUME NEW t \in Requests, pc[t] = "done"  PROVE pc'[t] = "done"
    BY <1>2, <1>4, <2>1, LoopPlaces DEF Goes, Rouses
  <2> QED  BY <1>1, <1>6, <2>1 DEF CancelOK
<1>12. FreshAt(r)' /\ CountAt(r)'
  BY <1>1, <1>3, <1>4, ReqPlaces DEF FreshAt, CountAt
<1>13. WaitAt(r)'
  BY <1>1, <1>2, <1>3, <1>4, <1>7 DEF WaitAt
<1>14. Apart(r)
  <2>1. \A t \in Requests \ {r} : Own(t) \cap Own(r) = {}
    BY OwnFacts
  <2> QED  BY <1>3, <1>7, <2>1 DEF Apart
<1> QED
  BY <1>5, <1>8, <1>9, <1>10, <1>11, <1>12, <1>13, <1>14, ReqKeeps

\* Cancelling drops the request's own tasks that have not been taken, and no others.
LEMMA CancelStep ==
    ASSUME Inv, NEW r \in Requests, Cancel(r)
    PROVE  Inv'
<1>1. TypeOK /\ OnceOK /\ SentOK /\ CancelOK /\ WaitAt(r) /\ CountAt(r)
      /\ pc \in [Threads -> Labels] /\ r \in Threads
  BY ReqPlaces DEF Inv, TypeOK, Threads
<1> DEFINE b == [k \in 1..Len(Mine[r]) |-> Task("cancel", Mine[r][k])]
           p == Kept(queue, {Task("run", i) : i \in Own(r)})
<1>2. pc[r] = "cancel" /\ queue' = b \o p /\ deferred' = Kept(deferred, Own(r)) /\ NotifyOne(r, "done")
  BY DEF Cancel
<1>3. UNCHANGED <<results, waiting, received, hand, slot, visit, leaving, sleeping, reqStop, sleeps, spoils>>
  BY DEF Cancel, naps, slotVars, answers
<1>4. "done" \in Labels /\ Goes(r, "done") /\ pc'[r] = "done"
  BY <1>1, <1>2, NotifyFacts, ReqPlaces DEF Goes
<1>5. ReqBase(r, "done")
  BY <1>1, <1>3, <1>4 DEF ReqBase, TypeOK
<1>6. /\ Mine[r] \in Seq(Ids) /\ Distinct(Mine[r]) /\ Own(r) = Elems(Mine[r]) /\ Own(r) \subseteq Ids
  BY MineFacts
<1>7. b \in Seq(TaskSet) /\ OnceIn(b) /\ \A u : Named(b, u) = IF u = "cancel" THEN Elems(Mine[r]) ELSE {}
  BY <1>6, BatchFacts
<1>8. /\ p \in Seq(TaskSet) /\ OnceIn(p) /\ Named(p, "run") = Runs \ Own(r)
      /\ \A ty : Named(p, ty) \subseteq Named(queue, ty)
  <2>1. queue \in Seq(TaskSet) /\ OnceIn(queue)
    BY <1>1 DEF TypeOK, OnceOK
  <2> QED  BY <1>6, <2>1, DropFacts DEF Runs
<1> HIDE DEF b, p
<1>9. Named(b, "run") = {} /\ Named(b, "cancel") = Own(r)
  BY <1>6, <1>7
<1>10. /\ queue' \in Seq(TaskSet) /\ OnceIn(queue') /\ Named(queue', "run") = Runs \ Own(r)
       /\ Named(queue', "cancel") \subseteq Named(queue, "cancel") \cup Own(r)
  <2>1. Named(b, "run") \cap Named(p, "run") = {}
    BY <1>9
  <2>2. /\ b \o p \in Seq(TaskSet) /\ OnceIn(b \o p)
        /\ \A ty : Named(b \o p, ty) = Named(b, ty) \cup Named(p, ty)
    BY <1>7, <1>8, <2>1, JoinFacts
  <2> QED  BY <1>2, <1>8, <1>9, <2>2
<1>11. deferred' \in Seq(Ids) /\ Distinct(deferred') /\ Put' = Put \ Own(r)
  <2>1. deferred \in Seq(Ids) /\ Distinct(deferred)
    BY <1>1 DEF TypeOK, OnceOK
  <2> QED  BY <1>2, <2>1, KeepFacts DEF Put
<1>12. Held' = Held /\ InSlots' = InSlots /\ Gone' = Gone /\ Sent' = Sent
       /\ Runs' = Runs \ Own(r) /\ Cancels' \subseteq Cancels \cup Own(r)
  BY <1>3, <1>5, <1>10, ReqLoop DEF Sent, Cancels, Runs
<1>13. Live' \subseteq Live /\ Live \ Live' \subseteq Own(r)
  BY <1>11, <1>12 DEF Live
<1>14. TypeOK'
  BY <1>1, <1>3, <1>4, <1>10, <1>11, <1>12 DEF TypeOK, Goes, Threads
<1>15. OnceOK'
  BY <1>1, <1>3, <1>10, <1>11, <1>12 DEF OnceOK
<1>16. SentOK'
  BY <1>1, <1>3, <1>12, <1>13 DEF SentOK
<1>17. CancelOK'
  <2>1. ASSUME NEW t \in Requests, pc[t] = "done"  PROVE pc'[t] = "done"
    BY <1>2, <1>4, <2>1, LoopPlaces DEF Goes, Rouses
  <2> QED  BY <1>1, <1>4, <1>12, <2>1 DEF CancelOK
<1>18. FreshAt(r)' /\ CountAt(r)'
  BY <1>1, <1>3, <1>4, ReqPlaces DEF FreshAt, CountAt
<1>19. WaitAt(r)'
  BY <1>1, <1>2, <1>3, <1>4, <1>12 DEF WaitAt
<1>20. Apart(r)
  <2>1. \A t \in Requests \ {r} : Own(t) \cap Own(r) = {}
    BY OwnFacts
  <2>2. \A t \in Requests \ {r} : Own(t) \cap Live' = Own(t) \cap Live
    BY <1>13, <2>1
  <2> QED  BY <1>3, <1>12, <2>2 DEF Apart
<1> QED
  BY <1>5, <1>14, <1>15, <1>16, <1>17, <1>18, <1>19, <1>20, ReqKeeps

-----------------------------------------------------------------------------
(***************************************************************************)
(* The theorems.                                                            *)
(***************************************************************************)
LEMMA InitInv == Init => Inv
<1> SUFFICES ASSUME Init  PROVE Inv
  OBVIOUS
<1>1. /\ queue = <<>> /\ deferred = <<>> /\ waiting = {} /\ results = {} /\ hand = NoTask
      /\ visit = {} /\ leaving = 0 /\ sleeping = FALSE /\ reqStop = FALSE /\ sleeps = 0 /\ spoils = 0
      /\ slot = [s \in Slots |-> Idle] /\ received = [r \in Requests |-> 0]
      /\ pc = [x \in Requests \cup {Loop} |-> IF x = Loop THEN "take" ELSE "start"]
  BY DEF Init, Loop
<1>2. Runs = {} /\ Put = {} /\ Held = {} /\ Gone = {} /\ Sent = {} /\ Cancels = {}
  BY <1>1, TaskFacts DEF Runs, Put, Held, Gone, Sent, Cancels, Named, Elems
<1>3. Idle \in SlotRecs /\ Idle.id = 0
  BY JobsFacts DEF SlotRecs, Idle, TaskIds
<1>4. slot \in [Slots -> SlotRecs] /\ OneEach(slot) /\ InSlots = {}
  BY <1>1, <1>3 DEF OneEach, InSlots, SlotIds
<1>5. pc[Loop] = "take" /\ \A r \in Requests : pc[r] = "start" /\ received[r] = 0
  BY <1>1, LoopPlaces
<1>6. TypeOK
  <2>1. sleeping \in BOOLEAN /\ reqStop \in BOOLEAN
    BY <1>1, Zenon
  <2>2. "take" \in Labels /\ "start" \in Labels
    BY DEF Labels
  <2>3. <<>> \in Seq(TaskSet) /\ <<>> \in Seq(Ids)
    OBVIOUS
  <2> QED  BY <1>1, <1>2, <1>4, <2>1, <2>2, <2>3, TaskFacts DEF TypeOK
<1>7. OnceOK /\ LoopOK /\ SentOK /\ CancelOK
  BY <1>1, <1>2, <1>4 DEF OnceOK, LoopOK, SentOK, CancelOK, OnceIn, Distinct
<1>8. Live = {}
  BY <1>2, <1>4 DEF Live
<1>9. \A r \in Requests : FreshAt(r) /\ WaitAt(r) /\ CountAt(r)
  <2> TAKE r \in Requests
  <2>1. Len(Mine[r]) \in Nat
    BY MineFacts
  <2> QED  BY <1>2, <1>4, <1>5, <1>8, <2>1 DEF FreshAt, WaitAt, CountAt
<1> QED
  BY <1>6, <1>7, <1>9 DEF Inv

LEMMA StepInv == Inv /\ [Next]_vars => Inv'
<1> SUFFICES ASSUME Inv, [Next]_vars  PROVE Inv'
  OBVIOUS
<1>1. CASE LoopStep \/ FallAsleep
  BY <1>1, LoopEffects, LoopKeeps
<1>2. CASE \E r \in Requests : RequestStep(r) \/ GiveUp(r)
  BY <1>2, WakeStep, RegisterStep, PostStep, ReceiveStep, GiveUpStep, StopStep, EraseStep,
     CancelStep DEF RequestStep
<1>3. CASE UNCHANGED vars
  <2>1. UNCHANGED <<queue, deferred, sleeping, reqStop, sleeps, waiting, results, pc, hand, slot, visit,
                    leaving, received, spoils>>
    BY <1>3 DEF vars, queues, naps, answers, slotVars
  <2>2. Runs' = Runs /\ Put' = Put /\ Held' = Held /\ Gone' = Gone /\ Sent' = Sent /\ Cancels' = Cancels
        /\ InSlots' = InSlots
    BY <2>1 DEF Runs, Put, Held, Gone, Sent, Cancels, InSlots
  <2>3. Live' = Live /\ \A r \in Requests : Pending(r)' = Pending(r)
    BY <2>2 DEF Live, Pending
  <2>4. TypeOK' /\ OnceOK' /\ LoopOK' /\ SentOK' /\ CancelOK'
    BY <2>1, <2>2, <2>3 DEF Inv, TypeOK, OnceOK, LoopOK, SentOK, CancelOK
  <2>5. \A r \in Requests : FreshAt(r)' /\ WaitAt(r)' /\ CountAt(r)'
    BY <2>1, <2>2, <2>3 DEF Inv, FreshAt, WaitAt, CountAt
  <2> QED  BY <2>4, <2>5 DEF Inv
<1> QED
  BY <1>1, <1>2, <1>3 DEF Next

THEOREM Invariance == Spec => []Inv
  BY InitInv, StepInv, PTL DEF Spec

\* Every variable keeps its type; the deferred tasks are tasks of requests, and so is every
\* task to run that is queued or in the loop's hand.
THEOREM TypeCorrect == Spec => []TypeOK
<1>1. Inv => TypeOK
  BY DEF Inv
<1> QED
  BY <1>1, Invariance, PTL

LEMMA CountAtMostOne ==
    ASSUME NEW S, \A x, y \in S : x = y
    PROVE  /\ Cardinality(S) \in {0, 1}
           /\ Cardinality(S) = 1 => S # {}
<1>1. CASE S = {}
  BY <1>1, FS_EmptySet
<1>2. CASE S # {}
  <2>1. PICK x \in S : TRUE
    BY <1>2
  <2>2. S = {x}
    BY <2>1
  <2>3. Cardinality({x}) = 1
    BY FS_Singleton
  <2> QED  BY <1>2, <2>2, <2>3
<1> QED
  BY <1>1, <1>2

\* However the loop defers, pops, launches and releases, and whatever is cancelled
\* meanwhile, a task is in one place, and it has left its slot's work when its result is there.
THEOREM Once == Spec => []TasksOnce
<1>1. Inv => TasksOnce
  <2> SUFFICES ASSUME Inv, NEW i \in Ids
               PROVE  /\ Places(i) <= 1
                      /\ [id |-> i, error |-> FALSE] \in results => \A s \in Slots : slot[s].id = i => leaving = s
    BY DEF TasksOnce
  <2>1. TypeOK /\ OnceOK /\ SentOK /\ i # 0
    BY JobsFacts DEF Inv
  <2> DEFINE A == {k \in Queued : queue[k].id = i}
             B == {k \in 1..Len(deferred) : deferred[k] = i}
             C == {s \in Slots : slot[s].id = i}
             h == IF hand = Task("run", i) THEN 1 ELSE 0
  <2>2. \A x, y \in A : x = y
    BY <2>1 DEF OnceOK, OnceIn, Queued
  <2>3. \A x, y \in B : x = y
    BY <2>1 DEF OnceOK, Distinct
  <2>4. \A x, y \in C : x = y
    BY <2>1 DEF OnceOK, OneEach
  <2>5. A # {} => i \in Runs
    BY DEF Runs, Named, Queued
  <2>6. B # {} => i \in Put
    BY DEF Put, Elems
  <2>7. C # {} => i \in InSlots
    BY <2>1 DEF InSlots, SlotIds
  <2>8. h \in {0, 1} /\ (h = 1 => i \in Held)
    <3>1. Task("run", i).type = "run" /\ Task("run", i).id = i
      BY TaskFacts
    <3> QED  BY <3>1 DEF Held
  <2>9. Places(i) = Cardinality(A) + Cardinality(B) + Cardinality(C) + h
    BY DEF Places
  <2> HIDE DEF A, B, C, h
  <2>10. /\ Cardinality(A) \in {0, 1} /\ (Cardinality(A) = 1 => i \in Runs)
         /\ Cardinality(B) \in {0, 1} /\ (Cardinality(B) = 1 => i \in Put)
         /\ Cardinality(C) \in {0, 1} /\ (Cardinality(C) = 1 => i \in InSlots)
    BY <2>2, <2>3, <2>4, <2>5, <2>6, <2>7, CountAtMostOne
  <2>11. /\ ~ (i \in Runs /\ i \in Put) /\ ~ (i \in Runs /\ i \in Held) /\ ~ (i \in Put /\ i \in Held)
         /\ ~ (i \in InSlots /\ (i \in Runs \/ i \in Put \/ i \in Held))
    BY <2>1 DEF OnceOK
  <2>12. Places(i) <= 1
    BY <2>8, <2>9, <2>10, <2>11
  <2>13. ASSUME [id |-> i, error |-> FALSE] \in results, NEW s \in Slots, slot[s].id = i
         PROVE  leaving = s
    <3>1. i \in Sent
      BY <2>13 DEF Sent
    <3>2. i \in InSlots
      BY <2>1, <2>13 DEF InSlots, SlotIds
    <3>3. i \in Gone
      BY <2>1, <3>1, <3>2 DEF SentOK, Live
    <3>4. leaving # 0 /\ slot[leaving].id = i /\ leaving \in Slots
      BY <2>1, <3>3 DEF Gone, TypeOK
    <3> QED  BY <2>1, <2>13, <3>4 DEF OnceOK, OneEach
  <2> QED  BY <2>12, <2>13
<1> QED
  BY <1>1, Invariance, PTL

\* A request that is over has nothing in server_response: also when it was never cancelled,
\* because by then as many results were received as it has tasks.
THEOREM Nothing == Spec => []NothingLeft
<1>1. Inv => NothingLeft
  <2> SUFFICES ASSUME Inv, NEW r \in Requests, pc[r] = "done"
               PROVE  Own(r) \cap waiting = {} /\ \A x \in results : x.id \notin Own(r)
    BY DEF NothingLeft
  <2>1. WaitAt(r)
    BY DEF Inv
  <2> QED  BY <2>1 DEF WaitAt, Sent
<1> QED
  BY <1>1, Invariance, PTL

\* No task is lost while its request waits for it: as many of its tasks are live or have a
\* result to be read as results are still to come.  And no task has two results, which
\* wait_for_all asserts ("duplicate result received").
NoneLost ==
    /\ \A r \in Requests : pc[r] = "recv" => received[r] + Cardinality(Pending(r)) = Len(Mine[r])
    /\ \A x, y \in results : x.id = y.id => x = y

THEOREM KeptUntilRead == Spec => []NoneLost
<1>1. Inv => NoneLost
  BY DEF Inv, CountAt, SentOK, NoneLost
<1> QED
  BY <1>1, Invariance, PTL
================================================================================
