------------------------- MODULE ContextWindowProofs -------------------------
(***************************************************************************)
(* Proofs about ContextWindow, for every configuration of a session and every *)
(* number of tokens: what the two windows leave of the cache and of their   *)
(* books.                                                                   *)
(***************************************************************************)
EXTENDS ContextWindow, WellFoundedInduction, TLAPS

-----------------------------------------------------------------------------
(***************************************************************************)
(* The operators: Min, Max, Without, the sum of unit lengths, the boundaries *)
(* behind a cut.                                                            *)
(***************************************************************************)
\* A set of naturals that is not empty has a least element.
LEMMA MinOf ==
  ASSUME NEW T, T \subseteq Nat, T # {}
  PROVE  Min(T) \in T /\ \A m \in T : Min(T) <= m
<1>1. PICK n \in T : \A m \in T : ~ (<<m, n>> \in OpToRel(<, Nat))
  BY WFMin, NatLessThanWellFounded
<1>2. \A m \in T : ~ (m < n)
  BY <1>1, Zenon DEF OpToRel
<1>3. \A m \in T : n <= m
  BY <1>2
<1> QED
  BY <1>3 DEF Min

LEMMA MaxOf ==
  ASSUME NEW a \in Int, NEW b \in Int
  PROVE  Max({a, b}) = IF a >= b THEN a ELSE b
<1> DEFINE m == IF a >= b THEN a ELSE b
<1>1. m \in {a, b} /\ \A y \in {a, b} : m >= y
  OBVIOUS
<1>2. \A x \in {a, b} : (\A y \in {a, b} : x >= y) => x = m
  OBVIOUS
<1> QED
  BY <1>1, <1>2 DEF Max

\* A range of positions is removed and what is behind it moves up.
LEMMA WithoutFacts ==
  ASSUME NEW E, NEW s \in Seq(E), NEW from \in Nat, NEW count \in Nat, from + count <= Len(s)
  PROVE  /\ Without(s, from, count) \in Seq(E)
         /\ Len(Without(s, from, count)) = Len(s) - count
         /\ \A i \in 1..from : Without(s, from, count)[i] = s[i]
         /\ \A i \in from + 1..Len(s) - count : Without(s, from, count)[i] = s[i + count]
<1> DEFINE a == SubSeq(s, 1, from)
           b == SubSeq(s, from + count + 1, Len(s))
<1>1. a \in Seq(E) /\ Len(a) = from /\ \A i \in 1..from : a[i] = s[i]
  OBVIOUS
<1>2. /\ b \in Seq(E) /\ Len(b) = Len(s) - count - from
      /\ \A i \in 1..Len(s) - count - from : b[i] = s[i + (from + count)]
  OBVIOUS
<1>3. Without(s, from, count) = a \o b
  BY DEF Without
<1> HIDE DEF a, b
<1>4. /\ a \o b \in Seq(E) /\ Len(a \o b) = Len(s) - count
      /\ \A i \in 1..from : (a \o b)[i] = a[i]
      /\ \A i \in from + 1..Len(s) - count : (a \o b)[i] = b[i - from]
  BY <1>1, <1>2
<1>5. ASSUME NEW i \in from + 1..Len(s) - count PROVE (a \o b)[i] = s[i + count]
  <2>1. i - from \in 1..Len(s) - count - from /\ (i - from) + (from + count) = i + count
    OBVIOUS
  <2> QED
    BY <1>2, <1>4, <2>1
<1> QED
  BY <1>1, <1>3, <1>4, <1>5

\* f[n] is the sum over the first n entries: the function that TotalLength computes.
Sums(f, s) == f = [n \in 0..Len(s) |-> IF n = 0 THEN 0 ELSE f[n - 1] + s[n].length]

LEMMA SumsExists ==
  ASSUME NEW s, Len(s) \in Nat
  PROVE  \E f : Sums(f, s)
<1> DEFINE Step(f, k) == IF k = 0 THEN 0 ELSE f[k - 1] + s[k].length
           Up(f, n) == f = [k \in 0..n |-> Step(f, k)]
           T == {n \in 0..Len(s) : ~ \E f : Up(f, n)}
<1>1. T = {}
  <2>1. SUFFICES ASSUME T # {}  PROVE FALSE
    OBVIOUS
  <2>a. T \subseteq Nat
    OBVIOUS
  <2> HIDE DEF T
  <2>2. PICK n \in T : \A m \in T : n <= m
    BY <2>1, <2>a, MinOf
  <2>b. n \in Nat /\ n - 1 \notin T
    BY <2>2, <2>a
  <2> USE DEF T
  <2>3. n # 0
    <3>1. Up([k \in 0..0 |-> 0], 0)
      OBVIOUS
    <3> QED  BY <3>1
  <2>4. n - 1 \in 0..Len(s) /\ n - 1 \notin T
    <3>1. n \in 0..Len(s)
      BY <2>2
    <3> HIDE DEF T
    <3> QED  BY <2>b, <2>3, <3>1
  <2>5. PICK f : Up(f, n - 1)
    BY <2>4
  <2> DEFINE g == [k \in 0..n |-> IF k = n THEN Step(f, n) ELSE f[k]]
  <2>6. \A k \in 0..n : g[k] = Step(g, k)
    <3> TAKE k \in 0..n
    <3>1. CASE k = n
      <4>1. g[n - 1] = f[n - 1] /\ n \in Nat
        BY <2>3
      <4> QED  BY <3>1, <4>1, <2>3
    <3>2. CASE k # n
      <4>1. g[k] = f[k] /\ k \in 0..n - 1
        BY <3>2
      <4>2. f[k] = Step(f, k)
        BY <4>1, <2>5
      <4>3. k # 0 => g[k - 1] = f[k - 1]
        BY <4>1
      <4> QED  BY <4>1, <4>2, <4>3
    <3> QED  BY <3>1, <3>2
  <2>7. Up(g, n)
    <3>1. [k \in 0..n |-> Step(g, k)] = [k \in 0..n |-> g[k]]
      BY <2>6
    <3>2. [k \in 0..n |-> g[k]] = g
      OBVIOUS
    <3> HIDE DEF g, Step
    <3> QED  BY <3>1, <3>2
  <2> HIDE DEF g, Up
  <2> QED
    BY <2>2, <2>7
<1>2. \E f : Up(f, Len(s))
  BY <1>1
<1> QED
  BY <1>2 DEF Sums

Entry == [id : Nat, length : Nat \ {0}, turn : Nat]

\* The first m entries of t are the m entries of s behind its first i.
Agree(s, t, i, m) ==
    /\ s \in Seq(Entry) /\ t \in Seq(Entry)
    /\ i \in Nat /\ m \in Nat /\ i + m <= Len(s) /\ m <= Len(t)
    /\ \A n \in 1..m : t[n] = s[i + n]

\* Two lists that agree on n entries, one of them from the place i on, have the same sums there.
LEMMA SumsAgree ==
  ASSUME NEW s, NEW t, NEW f, NEW g, Sums(f, s), Sums(g, t),
         NEW i, NEW m, Agree(s, t, i, m), f[i] \in Nat
  PROVE  \A n \in 0..m : g[n] \in Nat /\ f[i + n] = f[i] + g[n]
<1>0. /\ s \in Seq(Entry) /\ t \in Seq(Entry)
      /\ i \in Nat /\ m \in Nat /\ i + m <= Len(s) /\ m <= Len(t)
      /\ \A n \in 1..m : t[n] = s[i + n]
  BY DEF Agree
<1> DEFINE Good(n) == g[n] \in Nat /\ f[i + n] = f[i] + g[n]
           T == {n \in 0..m : ~ Good(n)}
<1>1. SUFFICES ASSUME T # {}  PROVE FALSE
  OBVIOUS
<1>2. T \subseteq Nat
  BY <1>0
<1> HIDE DEF T
<1>3. PICK n \in T : \A k \in T : n <= k
  BY <1>1, <1>2, MinOf
<1>4. n \in Nat /\ n - 1 \notin T
  BY <1>2, <1>3
<1> USE DEF T
<1>5. n \in 0..m /\ ~ Good(n)
  BY <1>3
<1>6. n # 0
  <2>1. g[0] = 0
    BY DEF Sums
  <2>2. f[i + 0] = f[i] + 0
    BY <1>0
  <2>3. Good(0)
    BY <2>1, <2>2
  <2> HIDE DEF Good
  <2> QED
    BY <1>5, <2>3
<1>7. n - 1 \in 0..m /\ Good(n - 1)
  <2> HIDE DEF Good
  <2>1. n - 1 \in 0..m
    BY <1>0, <1>5, <1>6
  <2>2. n - 1 \in 0..m /\ ~ Good(n - 1) => n - 1 \in T
    OBVIOUS
  <2> HIDE DEF T
  <2> QED
    BY <1>4, <2>1, <2>2
<1>8. g[n] = g[n - 1] + t[n].length
  <2>1. n \in 0..Len(t) /\ n # 0
    BY <1>0, <1>5, <1>6
  <2> QED
    BY <2>1 DEF Sums
<1>9. f[i + n] = f[i + (n - 1)] + s[i + n].length
  <2>1. PICK k \in 0..Len(s) : k = i + n /\ k # 0 /\ k - 1 = i + (n - 1)
    BY <1>0, <1>5, <1>6
  <2>2. f[k] = f[k - 1] + s[k].length
    BY <2>1 DEF Sums
  <2> QED
    BY <2>1, <2>2
<1>10. t[n] = s[i + n] /\ t[n].length \in Nat
  <2>1. n \in 1..m /\ n \in 1..Len(t)
    BY <1>0, <1>5, <1>6
  <2>2. t[n] \in Entry
    BY <1>0, <2>1
  <2> QED
    BY <1>0, <2>1, <2>2 DEF Entry
<1>11. g[n - 1] \in Nat /\ f[i + (n - 1)] = f[i] + g[n - 1]
  BY <1>7
<1> HIDE DEF T, Good
<1>12. g[n] \in Nat /\ f[i + n] = f[i] + g[n]
  BY <1>8, <1>9, <1>10, <1>11
<1> USE DEF Good
<1>13. Good(n)
  BY <1>12
<1> HIDE DEF Good
<1> QED
  BY <1>5, <1>13

\* The tokens of the first n entries.
Upto(s, n) == TotalLength(SubSeq(s, 1, n))

LEMMA TotalIsSum ==
  ASSUME NEW s \in Seq(Entry)
  PROVE  \E f : Sums(f, s) /\ TotalLength(s) = f[Len(s)]
<1> DEFINE total == CHOOSE f : Sums(f, s)
<1>1. Sums(total, s)
  <2>1. Len(s) \in Nat
    OBVIOUS
  <2> QED
    BY <2>1, SumsExists
<1>2. TotalLength(s) = total[Len(s)]
  BY DEF TotalLength, Sums
<1> QED
  BY <1>1, <1>2

LEMMA UptoIsSum ==
  ASSUME NEW s \in Seq(Entry)
  PROVE  \E f : /\ Sums(f, s) /\ f[0] = 0
                /\ \A n \in 0..Len(s) : Upto(s, n) = f[n] /\ f[n] \in Nat
<1>1. PICK f : Sums(f, s)
  BY SumsExists
<1>2. f[0] = 0
  BY <1>1 DEF Sums
<1>3. ASSUME NEW n \in 0..Len(s) PROVE Upto(s, n) = f[n] /\ f[n] \in Nat
  <2> DEFINE t == SubSeq(s, 1, n)
  <2>1. t \in Seq(Entry) /\ Len(t) = n /\ \A k \in 1..n : t[k] = s[k]
    OBVIOUS
  <2> HIDE DEF t
  <2>2. PICK g : Sums(g, t) /\ TotalLength(t) = g[Len(t)]
    BY <2>1, TotalIsSum
  <2>3. \A k \in 0..n : g[k] \in Nat /\ f[0 + k] = f[0] + g[k]
    <3>1. Agree(s, t, 0, n) /\ f[0] \in Nat
      BY <1>2, <2>1 DEF Agree
    <3> QED
      BY <1>1, <2>2, <3>1, SumsAgree
  <2>4. g[n] \in Nat /\ f[n] = g[n]
    BY <1>2, <2>3
  <2> QED
    BY <2>1, <2>2, <2>4 DEF Upto, t
<1> QED
  BY <1>1, <1>2, <1>3

LEMMA UptoFacts ==
  ASSUME NEW s \in Seq(Entry)
  PROVE  /\ Upto(s, 0) = 0
         /\ \A n \in 0..Len(s) : Upto(s, n) \in Nat
         /\ \A n \in 1..Len(s) : Upto(s, n) = Upto(s, n - 1) + s[n].length
         /\ TotalLength(s) = Upto(s, Len(s))
<1>1. PICK f : /\ Sums(f, s) /\ f[0] = 0
               /\ \A n \in 0..Len(s) : Upto(s, n) = f[n] /\ f[n] \in Nat
  BY UptoIsSum
<1>2. ASSUME NEW n \in 1..Len(s) PROVE Upto(s, n) = Upto(s, n - 1) + s[n].length
  <2>1. n \in 0..Len(s) /\ n - 1 \in 0..Len(s) /\ n # 0
    OBVIOUS
  <2>2. f[n] = f[n - 1] + s[n].length
    BY <1>1, <2>1 DEF Sums
  <2> QED
    BY <1>1, <2>1, <2>2
<1>3. SubSeq(s, 1, Len(s)) = s
  OBVIOUS
<1>4. 0 \in 0..Len(s)
  OBVIOUS
<1> QED
  BY <1>1, <1>2, <1>3, <1>4 DEF Upto

\* Entries that were behind the first i.
LEMMA UptoBehind ==
  ASSUME NEW s \in Seq(Entry), NEW t \in Seq(Entry), NEW i \in 0..Len(s),
         Len(t) = Len(s) - i, \A n \in 1..Len(t) : t[n] = s[i + n]
  PROVE  \A n \in 0..Len(t) : Upto(s, i + n) = Upto(s, i) + Upto(t, n)
<1>1. PICK f : Sums(f, s) /\ \A n \in 0..Len(s) : Upto(s, n) = f[n] /\ f[n] \in Nat
  BY UptoIsSum
<1>2. PICK g : Sums(g, t) /\ \A n \in 0..Len(t) : Upto(t, n) = g[n] /\ g[n] \in Nat
  BY UptoIsSum
<1>3. i + Len(t) <= Len(s) /\ Len(t) \in Nat /\ i \in Nat /\ f[i] \in Nat
  BY <1>1
<1>4. \A n \in 0..Len(t) : f[i + n] = f[i] + g[n]
  <2>1. Agree(s, t, i, Len(t))
    BY <1>3 DEF Agree
  <2>2. Sums(f, s) /\ Sums(g, t) /\ f[i] \in Nat
    BY <1>1, <1>2, <1>3
  <2>3. \A n \in 0..Len(t) : g[n] \in Nat /\ f[i + n] = f[i] + g[n]
    <3>1. \A m : Agree(s, t, i, m) => \A n \in 0..m : g[n] \in Nat /\ f[i + n] = f[i] + g[n]
      BY <2>2, SumsAgree
    <3> QED
      BY <2>1, <3>1
  <2> QED
    BY <2>3
<1>5. \A n \in 0..Len(t) : i + n \in 0..Len(s)
  OBVIOUS
<1> QED
  BY <1>1, <1>2, <1>4, <1>5

\* More entries, more tokens.
LEMMA UptoMonotone ==
  ASSUME NEW s \in Seq(Entry), NEW i \in 0..Len(s), NEW j \in i..Len(s)
  PROVE  Upto(s, i) <= Upto(s, j)
<1> DEFINE t == SubSeq(s, i + 1, Len(s))
<1>1. t \in Seq(Entry) /\ Len(t) = Len(s) - i /\ \A n \in 1..Len(t) : t[n] = s[i + n]
  <2>1. t \in Seq(Entry) /\ Len(t) = Len(s) - i
    OBVIOUS
  <2>2. \A n \in 1..Len(s) - i : t[n] = s[i + n]
    OBVIOUS
  <2> QED
    BY <2>1, <2>2
<1> HIDE DEF t
<1>2. j - i \in 0..Len(t) /\ i + (j - i) = j
  BY <1>1
<1>3. Upto(s, j) = Upto(s, i) + Upto(t, j - i)
  BY <1>1, <1>2, UptoBehind
<1>4. Upto(t, j - i) \in Nat /\ Upto(s, i) \in Nat
  BY <1>1, <1>2, UptoFacts
<1> QED
  BY <1>3, <1>4

\* A new entry at the end.
LEMMA TotalAppend ==
  ASSUME NEW s \in Seq(Entry), NEW u \in Entry
  PROVE  /\ TotalLength(Append(s, u)) = TotalLength(s) + u.length
         /\ \A n \in 0..Len(s) : Upto(Append(s, u), n) = Upto(s, n)
<1> DEFINE t == Append(s, u)
<1>1. /\ t \in Seq(Entry) /\ Len(t) = Len(s) + 1 /\ t[Len(s) + 1] = u
      /\ \A n \in 0..Len(s) : SubSeq(t, 1, n) = SubSeq(s, 1, n)
  OBVIOUS
<1> HIDE DEF t
<1>2. \A n \in 0..Len(s) : Upto(t, n) = Upto(s, n)
  BY <1>1 DEF Upto
<1>3. Len(s) + 1 \in 1..Len(t) /\ (Len(s) + 1) - 1 = Len(s) /\ Len(s) \in 0..Len(s)
  BY <1>1
<1>4. Upto(t, Len(s) + 1) = Upto(t, Len(s)) + u.length
  BY <1>1, <1>3, UptoFacts
<1> QED
  BY <1>1, <1>2, <1>3, <1>4, UptoFacts DEF t

-----------------------------------------------------------------------------
\* f[n] holds those of the first n boundaries that a cut at `from` leaves, moved up with the
\* tokens: the function that RoundsBehind computes.
Cuts(f, q, from) ==
    f = [n \in 0..Len(q) |-> IF n = 0 THEN <<>>
                             ELSE IF q[n] > from THEN Append(f[n - 1], q[n] - (from - KeepLen))
                             ELSE f[n - 1]]

LEMMA CutsExists ==
  ASSUME NEW q, Len(q) \in Nat, NEW from
  PROVE  \E f : Cuts(f, q, from)
<1> DEFINE Step(f, k) == IF k = 0 THEN <<>>
                         ELSE IF q[k] > from THEN Append(f[k - 1], q[k] - (from - KeepLen))
                         ELSE f[k - 1]
           Up(f, n) == f = [k \in 0..n |-> Step(f, k)]
           T == {n \in 0..Len(q) : ~ \E f : Up(f, n)}
<1>1. T = {}
  <2>1. SUFFICES ASSUME T # {}  PROVE FALSE
    OBVIOUS
  <2>a. T \subseteq Nat
    OBVIOUS
  <2> HIDE DEF T
  <2>2. PICK n \in T : \A m \in T : n <= m
    BY <2>1, <2>a, MinOf
  <2>b. n \in Nat /\ n - 1 \notin T
    BY <2>2, <2>a
  <2> USE DEF T
  <2>3. n # 0
    <3>1. Up([k \in 0..0 |-> <<>>], 0)
      OBVIOUS
    <3> QED  BY <3>1
  <2>4. n - 1 \in 0..Len(q) /\ n - 1 \notin T
    <3>1. n \in 0..Len(q)
      BY <2>2
    <3> HIDE DEF T
    <3> QED  BY <2>b, <2>3, <3>1
  <2>5. PICK f : Up(f, n - 1)
    BY <2>4
  <2> DEFINE g == [k \in 0..n |-> IF k = n THEN Step(f, n) ELSE f[k]]
  <2>6. \A k \in 0..n : g[k] = Step(g, k)
    <3> TAKE k \in 0..n
    <3>1. CASE k = n
      <4>1. g[n - 1] = f[n - 1] /\ n \in Nat
        BY <2>3
      <4> QED  BY <3>1, <4>1, <2>3
    <3>2. CASE k # n
      <4>1. g[k] = f[k] /\ k \in 0..n - 1
        BY <3>2
      <4>2. f[k] = Step(f, k)
        BY <4>1, <2>5
      <4>3. k # 0 => g[k - 1] = f[k - 1]
        BY <4>1
      <4> QED  BY <4>1, <4>2, <4>3
    <3> QED  BY <3>1, <3>2
  <2>7. Up(g, n)
    <3>1. [k \in 0..n |-> Step(g, k)] = [k \in 0..n |-> g[k]]
      BY <2>6
    <3>2. [k \in 0..n |-> g[k]] = g
      OBVIOUS
    <3> HIDE DEF g, Step
    <3> QED  BY <3>1, <3>2
  <2> HIDE DEF g, Up
  <2> QED
    BY <2>2, <2>7
<1>2. \E f : Up(f, Len(q))
  <2>1. Len(q) \in 0..Len(q)
    OBVIOUS
  <2>2. Len(q) \in 0..Len(q) /\ ~ (\E f : Up(f, Len(q))) => Len(q) \in T
    OBVIOUS
  <2> HIDE DEF T, Up
  <2> QED
    BY <1>1, <2>1, <2>2
<1> QED
  BY <1>2 DEF Cuts

\* What is left: each boundary from a place of its own, in order.
LeftOf(p, q, from, n) ==
    \E g \in [1..Len(p) -> 1..n] :
        /\ \A k \in 1..Len(p) : q[g[k]] > from /\ p[k] = q[g[k]] - (from - KeepLen)
        /\ \A j, k \in 1..Len(p) : j < k => g[j] < g[k]

LEMMA BehindFacts ==
  ASSUME rounds \in Seq(Nat), NEW from \in Int, from >= KeepLen
  PROVE  /\ RoundsBehind(from) \in Seq(Nat)
         /\ LeftOf(RoundsBehind(from), rounds, from, Len(rounds))
<1> DEFINE q == rounds
           cuts == CHOOSE f : Cuts(f, q, from)
<1>0. q \in Seq(Nat) /\ KeepLen \in Nat
  BY SetupsAssumption
<1>1. RoundsBehind(from) = IF Len(rounds) < 2 THEN <<>> ELSE cuts[Len(q)]
  BY DEF RoundsBehind, Cuts
<1> HIDE DEF q
<1>2. Cuts(cuts, q, from)
  <2>1. Len(q) \in Nat
    BY <1>0
  <2> QED  BY <2>1, CutsExists
<1> HIDE DEF cuts
<1>3. \A n \in 0..Len(q) : cuts[n] = IF n = 0 THEN <<>>
                            ELSE IF q[n] > from
                            THEN Append(cuts[n - 1], q[n] - (from - KeepLen))
                            ELSE cuts[n - 1]
  BY <1>2 DEF Cuts
<1> DEFINE Good(n) == cuts[n] \in Seq(Nat) /\ LeftOf(cuts[n], q, from, n)
           T == {n \in 0..Len(q) : ~ Good(n)}
<1>e. \A n \in Nat : LeftOf(<<>>, q, from, n)
  <2> TAKE n \in Nat
  <2>1. [k \in 1..0 |-> 1] \in [1..0 -> 1..n] /\ Len(<<>>) = 0
    OBVIOUS
  <2>2. \A k \in 1..0 : FALSE
    OBVIOUS
  <2> QED  BY <2>1, <2>2, Zenon DEF LeftOf
<1>4. T = {}
  <2>1. SUFFICES ASSUME T # {}  PROVE FALSE
    OBVIOUS
  <2>a. T \subseteq Nat
    OBVIOUS
  <2> HIDE DEF T
  <2>2. PICK n \in T : \A m \in T : n <= m
    BY <2>1, <2>a, MinOf
  <2>b. n \in Nat /\ n - 1 \notin T
    BY <2>2, <2>a
  <2> USE DEF T
  <2>3. n # 0
    <3>1. cuts[0] = <<>>
      BY <1>0, <1>3
    <3>2. <<>> \in Seq(Nat)
      OBVIOUS
    <3>3. LeftOf(<<>>, q, from, 0)
      BY <1>e
    <3>4. Good(0)
      BY <3>1, <3>2, <3>3
    <3> HIDE DEF Good
    <3> QED  BY <2>2, <3>4
  <2>4. Good(n - 1) /\ n \in 1..Len(q)
    <3>1. n \in 0..Len(q) /\ n - 1 \in 0..Len(q)
      BY <2>2, <2>3
    <3>2. n - 1 \in 0..Len(q) /\ ~ Good(n - 1) => n - 1 \in T
      OBVIOUS
    <3> HIDE DEF T, Good
    <3> QED  BY <2>b, <2>3, <3>1, <3>2
  <2> DEFINE p == cuts[n - 1]
  <2>5. PICK g \in [1..Len(p) -> 1..n - 1] :
          /\ \A k \in 1..Len(p) : q[g[k]] > from /\ p[k] = q[g[k]] - (from - KeepLen)
          /\ \A j, k \in 1..Len(p) : j < k => g[j] < g[k]
    BY <2>4 DEF LeftOf
  <2>6. p \in Seq(Nat) /\ Len(p) \in Nat
    BY <2>4
  <2>7. q[n] \in Nat /\ cuts[n] = IF q[n] > from THEN Append(p, q[n] - (from - KeepLen)) ELSE p
    <3>1. n \in 0..Len(q) /\ n # 0
      BY <2>4, <2>3
    <3> QED  BY <1>0, <1>3, <2>4, <3>1
  <2> HIDE DEF p
  <2>8. CASE ~ (q[n] > from)
    <3>1. cuts[n] = p
      BY <2>7, <2>8
    <3>2. g \in [1..Len(p) -> 1..n]
      BY <2>4, <2>5
    <3>3. LeftOf(p, q, from, n)
      BY <2>5, <3>2 DEF LeftOf
    <3>4. Good(n)
      BY <2>6, <3>1, <3>3
    <3> HIDE DEF Good
    <3> QED  BY <2>2, <3>4
  <2>9. CASE q[n] > from
    <3> DEFINE v == q[n] - (from - KeepLen)
               r == Append(p, v)
               h == [k \in 1..Len(p) + 1 |-> IF k = Len(p) + 1 THEN n ELSE g[k]]
    <3>1. cuts[n] = r
      BY <2>7, <2>9
    <3>2. v \in Nat
      BY <1>0, <2>7, <2>9
    <3>3. /\ r \in Seq(Nat) /\ Len(r) = Len(p) + 1 /\ r[Len(p) + 1] = v
          /\ \A k \in 1..Len(p) : r[k] = p[k]
      BY <2>6, <3>2
    <3>4. h \in [1..Len(r) -> 1..n]
      BY <2>4, <2>5, <2>6, <3>3
    <3>5. \A k \in 1..Len(r) : k = Len(p) + 1 \/ k \in 1..Len(p)
      BY <2>6, <3>3
    <3>6. h[Len(p) + 1] = n /\ \A k \in 1..Len(p) : h[k] = g[k] /\ g[k] \in 1..n - 1
      BY <2>5, <2>6
    <3> HIDE DEF h, r
    <3>7. \A k \in 1..Len(r) : q[h[k]] > from /\ r[k] = q[h[k]] - (from - KeepLen)
      BY <2>5, <2>9, <3>3, <3>5, <3>6
    <3>8. \A j, k \in 1..Len(r) : j < k => h[j] < h[k]
      <4> SUFFICES ASSUME NEW j \in 1..Len(r), NEW k \in 1..Len(r), j < k PROVE h[j] < h[k]
        OBVIOUS
      <4>1. j \in 1..Len(p)
        BY <2>6, <3>3, <3>5
      <4>2. CASE k = Len(p) + 1
        BY <2>4, <3>6, <4>1, <4>2
      <4>3. CASE k \in 1..Len(p)
        BY <2>5, <3>6, <4>1, <4>3
      <4> QED  BY <3>5, <4>2, <4>3
    <3>9. LeftOf(r, q, from, n)
      BY <3>4, <3>7, <3>8 DEF LeftOf
    <3>10. Good(n)
      BY <3>1, <3>3, <3>9
    <3> HIDE DEF Good
    <3> QED  BY <2>2, <3>10
  <2> QED  BY <2>8, <2>9
<1>5. Good(Len(q))
  <2>1. Len(q) \in 0..Len(q)
    BY <1>0
  <2>2. Len(q) \in 0..Len(q) /\ ~ Good(Len(q)) => Len(q) \in T
    OBVIOUS
  <2> HIDE DEF T, Good
  <2> QED  BY <1>4, <2>1, <2>2
<1>6. <<>> \in Seq(Nat) /\ LeftOf(<<>>, q, from, Len(q))
  BY <1>0, <1>e
<1>7. CASE Len(q) < 2
  <2>1. RoundsBehind(from) = <<>>
    BY <1>1, <1>7 DEF q
  <2> QED
    BY <1>6, <2>1 DEF q
<1>8. CASE ~ (Len(q) < 2)
  <2>1. RoundsBehind(from) = cuts[Len(q)]
    BY <1>1, <1>8 DEF q
  <2> QED
    BY <1>5, <2>1 DEF q
<1> QED
  BY <1>7, <1>8

-----------------------------------------------------------------------------
(***************************************************************************)
(* The LLM thread's own counters, and the order in which tokens were written. *)
(***************************************************************************)
Flow ==
    /\ nPast >= KeepLen
    /\ phase \in {"sample", "step"} => said < setup.chunk
    /\ phase \in {"forced1", "forced2", "sample", "limit", "step"} => ~endedListen
    /\ phase = "enforce" => setup.window # "off"
    /\ \A i, j \in 1..nPast : i <= j => cache[i].turn <= cache[j].turn
    /\ \A i \in 1..nPast : cache[i].turn <= turn

FlowInv == TypeOK /\ Flow

LEMMA SetupTypes ==
  ASSUME setup \in Setups
  PROVE  /\ KeepLen \in Nat /\ PrefixLen \in Nat /\ Preserve \in Nat
         /\ Preserve = KeepLen + PrefixLen
         /\ setup.nCtx \in Nat /\ setup.slideReserve \in Nat /\ setup.forceReserve \in Nat
         /\ setup.targetKeep \in Nat /\ setup.high \in Nat /\ setup.low \in Nat
         /\ setup.window \in {"off", "basic", "turn"}
         /\ setup.step \in Nat \ {0} /\ setup.chunk \in Nat \ {0} /\ setup.forceListen \in Nat
         /\ setup.pieces \subseteq Nat \ {0} /\ setup.bound \in Nat
<1>1. KeepLen \in Nat /\ PrefixLen \in Nat /\ setup \in Setup
  BY SetupsAssumption
<1> QED
  BY <1>1 DEF Preserve, Setup

LEMMA Types ==
  ASSUME FlowInv
  PROVE  /\ KeepLen \in Nat /\ Preserve \in Nat /\ Preserve >= KeepLen
         /\ cache \in Seq(Tokens) /\ nPast \in Nat /\ nPast = Len(cache) /\ nPast >= KeepLen
         /\ rounds \in Seq(Nat) /\ units \in Seq(Entry)
         /\ turn \in Nat /\ nextUnit \in Nat /\ start \in Nat /\ written \in Nat
         /\ \A i \in 1..nPast : cache[i] \in Tokens /\ cache[i].turn \in Int
  <1>1. /\ cache \in Seq(Tokens) /\ rounds \in Seq(Nat) /\ units \in Seq(Entry)
        /\ turn \in Nat /\ nextUnit \in Nat /\ start \in Nat /\ written \in Nat /\ nPast >= KeepLen
    BY DEF FlowInv, TypeOK, Flow, Entry
  <1>2. KeepLen \in Nat /\ Preserve \in Nat /\ Preserve >= KeepLen
    BY SetupTypes DEF FlowInv, TypeOK
  <1>3. nPast \in Nat /\ nPast = Len(cache)
    BY <1>1 DEF nPast
  <1>4. \A i \in 1..nPast : cache[i] \in Tokens /\ cache[i].turn \in Int
    <2>1. \A i \in 1..nPast : cache[i] \in Tokens
      BY <1>1, <1>3
    <2>2. \A x \in Tokens : x.turn \in Int
      BY DEF Tokens
    <2> QED
      BY <2>1, <2>2
  <1> QED
    BY <1>1, <1>2, <1>3, <1>4

-----------------------------------------------------------------------------
(***************************************************************************)
(* A write: what a slide removes first, and where the tokens are then.      *)
(***************************************************************************)
\* Where a slide cuts: a tail with fewer than two boundaries, else at one of them but the last.
LEMMA KeepFromFacts ==
  ASSUME FlowInv
  PROVE  /\ KeepFrom \in Int /\ KeepFrom >= KeepLen
         /\ Len(rounds) < 2 /\ KeepFrom > KeepLen => KeepFrom = nPast - setup.targetKeep
         /\ Len(rounds) >= 2 /\ KeepFrom > KeepLen =>
              \E c \in 1..Len(rounds) - 1 :
                  /\ KeepFrom = rounds[c]
                  /\ rounds[c] >= nPast - setup.targetKeep \/ c = Len(rounds) - 1
         /\ Len(rounds) < 2 => KeepFrom >= nPast - setup.targetKeep
         /\ Len(rounds) >= 2 => \E c \in 1..Len(rounds) - 1 : KeepFrom >= rounds[c]
<1>1. /\ KeepLen \in Nat /\ nPast \in Nat /\ rounds \in Seq(Nat) /\ setup.targetKeep \in Nat
      /\ Len(rounds) \in Nat
  BY Types, SetupTypes DEF FlowInv, TypeOK
<1>2. OldestKept = nPast - setup.targetKeep /\ OldestKept \in Int /\ TailCut = OldestKept
  BY <1>1 DEF OldestKept, TailCut
<1>3. ASSUME Len(rounds) >= 2
      PROVE  \E c \in 1..Len(rounds) - 1 :
                 /\ RoundCut = rounds[c]
                 /\ rounds[c] >= OldestKept \/ c = Len(rounds) - 1
  <2> DEFINE n == Len(rounds)
             cuts == {i \in 1..n - 1 : rounds[i] >= OldestKept}
  <2>1. RoundCut = rounds[IF cuts = {} THEN n - 1 ELSE Min(cuts)]
    BY DEF RoundCut
  <2>2. CASE cuts = {}
    BY <1>1, <1>3, <2>1, <2>2
  <2>3. CASE cuts # {}
    <3>1. cuts \subseteq Nat
      BY <1>1
    <3> HIDE DEF cuts
    <3>2. Min(cuts) \in cuts
      BY <2>3, <3>1, MinOf
    <3>3. Min(cuts) \in 1..n - 1 /\ rounds[Min(cuts)] >= OldestKept
      BY <3>2 DEF cuts
    <3> QED
      BY <2>1, <2>3, <3>3
  <2> QED
    BY <2>2, <2>3
<1>4. CASE Len(rounds) < 2
  <2>1. KeepFrom = Max({KeepLen, TailCut})
    BY <1>4 DEF KeepFrom
  <2>2. KeepFrom = IF KeepLen >= TailCut THEN KeepLen ELSE TailCut
    BY <1>1, <1>2, <2>1, MaxOf
  <2> QED
    BY <1>1, <1>2, <1>4, <2>2
<1>5. CASE Len(rounds) >= 2
  <2>1. PICK c \in 1..Len(rounds) - 1 : /\ RoundCut = rounds[c]
                                        /\ rounds[c] >= OldestKept \/ c = Len(rounds) - 1
    BY <1>3, <1>5
  <2>2. RoundCut \in Nat
    BY <1>1, <2>1
  <2>3. ~(Len(rounds) < 2)
    BY <1>1, <1>5
  <2>4. KeepFrom = Max({KeepLen, RoundCut})
    BY <2>3 DEF KeepFrom
  <2>5. KeepFrom = IF KeepLen >= RoundCut THEN KeepLen ELSE RoundCut
    BY <1>1, <2>2, <2>4, MaxOf
  <2>6. KeepFrom > KeepLen => KeepFrom = RoundCut
    BY <1>1, <2>2, <2>5
  <2>7. KeepFrom \in Int /\ KeepFrom >= KeepLen /\ KeepFrom >= rounds[c]
    BY <1>1, <2>1, <2>2, <2>5
  <2> QED
    BY <1>2, <2>1, <2>3, <2>6, <2>7
<1> QED
  BY <1>1, <1>4, <1>5

\* `gone` tokens behind the system prompt are removed and k are written.
Moved(gone, k) ==
    /\ Len(cache') = nPast - gone + k
    /\ \A i \in 1..KeepLen : cache'[i] = cache[i]
    /\ \A i \in KeepLen + 1..nPast - gone : cache'[i] = cache[i + gone]
    /\ \A i \in 1..k : cache'[nPast - gone + i] = Token(written + i)

\* What a slide before k tokens removes.
SlidesBy(gone, k) ==
    /\ \E ttsBusy \in BOOLEAN : SlideDue(k, ttsBusy)
    /\ KeepFrom > KeepLen
    /\ gone = (IF KeepFrom <= nPast THEN KeepFrom ELSE nPast) - KeepLen
    /\ rounds' = RoundsBehind(KeepFrom)

StaysBefore(k) ==
    /\ rounds' = rounds
    /\ (\E ttsBusy \in BOOLEAN : ~SlideDue(k, ttsBusy)) \/ KeepFrom <= KeepLen

LEMMA EvaluateFacts ==
  ASSUME FlowInv, NEW k \in Nat \ {0}, Evaluate(k)
  PROVE  /\ cache' \in Seq(Tokens) /\ rounds' \in Seq(Nat) /\ written' = written + k
         /\ \E gone \in 0..nPast - KeepLen :
                /\ Moved(gone, k)
                /\ SlidesBy(gone, k) \/ (gone = 0 /\ StaysBefore(k))
<1>1. /\ KeepLen \in Nat /\ nPast \in Nat /\ cache \in Seq(Tokens) /\ nPast = Len(cache)
      /\ nPast >= KeepLen /\ rounds \in Seq(Nat) /\ written \in Nat /\ turn \in Nat
      /\ nextUnit \in Nat
  BY Types
<1>2. KeepFrom \in Int /\ KeepFrom >= KeepLen
  BY KeepFromFacts
<1> DEFINE new == [i \in 1..k |-> Token(written + i)]
<1>3. /\ new \in Seq(Tokens) /\ Len(new) = k
      /\ \A i \in 1..k : new[i] = Token(written + i)
  <2>1. \A i \in 1..k : Token(written + i) \in Tokens
    BY <1>1 DEF Token, Tokens
  <2> QED
    BY <2>1
<1> HIDE DEF new
<1>4. PICK ttsBusy \in BOOLEAN :
        LET slides == SlideDue(k, ttsBusy) /\ KeepFrom > KeepLen
            left   == IF slides THEN Without(cache, KeepLen, KeepFrom - KeepLen) ELSE cache
        IN cache' = left \o new /\ rounds' = IF slides THEN RoundsBehind(KeepFrom) ELSE rounds
  BY DEF Evaluate, new
<1>5. written' = written + k
  BY DEF Evaluate
<1>6. ASSUME NEW left \in Seq(Tokens), NEW gone \in 0..nPast - KeepLen,
             cache' = left \o new, Len(left) = nPast - gone,
             \A i \in 1..KeepLen : left[i] = cache[i],
             \A i \in KeepLen + 1..nPast - gone : left[i] = cache[i + gone]
      PROVE  cache' \in Seq(Tokens) /\ Moved(gone, k)
  <2>1. /\ left \o new \in Seq(Tokens)
        /\ Len(left \o new) = Len(left) + Len(new)
        /\ \A i \in 1..Len(left) : (left \o new)[i] = left[i]
        /\ \A i \in 1..Len(new) : (left \o new)[Len(left) + i] = new[i]
    BY <1>3
  <2>2. Len(cache') = nPast - gone + k
    BY <1>3, <1>6, <2>1
  <2>3. \A i \in 1..KeepLen : i \in 1..Len(left)
    BY <1>1, <1>6
  <2>4. \A i \in KeepLen + 1..nPast - gone : i \in 1..Len(left)
    BY <1>1, <1>6
  <2>5. \A i \in 1..k : cache'[nPast - gone + i] = Token(written + i)
    BY <1>3, <1>6, <2>1
  <2> QED
    BY <1>6, <2>1, <2>2, <2>3, <2>4, <2>5 DEF Moved
<1>7. CASE ~(SlideDue(k, ttsBusy) /\ KeepFrom > KeepLen)
  <2>1. cache' = cache \o new /\ rounds' = rounds
    BY <1>4, <1>7
  <2>2. 0 \in 0..nPast - KeepLen /\ \A i \in KeepLen + 1..nPast - 0 : cache[i] = cache[i + 0]
    BY <1>1
  <2>3. cache' \in Seq(Tokens) /\ Moved(0, k)
    <3>1. Len(cache) = nPast - 0 /\ \A i \in 1..KeepLen : cache[i] = cache[i]
      BY <1>1
    <3> QED
      BY <1>1, <1>6, <2>1, <2>2, <3>1
  <2>4. StaysBefore(k)
    <3>1. ~SlideDue(k, ttsBusy) \/ KeepFrom <= KeepLen
      BY <1>1, <1>2, <1>7
    <3> QED
      BY <2>1, <3>1 DEF StaysBefore
  <2> QED
    BY <1>1, <1>5, <2>1, <2>2, <2>3, <2>4
<1>8. CASE SlideDue(k, ttsBusy) /\ KeepFrom > KeepLen
  <2> DEFINE gone == (IF KeepFrom <= nPast THEN KeepFrom ELSE nPast) - KeepLen
             left == Without(cache, KeepLen, KeepFrom - KeepLen)
  <2>1. cache' = left \o new /\ rounds' = RoundsBehind(KeepFrom)
    BY <1>4, <1>8
  <2>2. gone \in 0..nPast - KeepLen
    BY <1>1, <1>2
  <2>3. /\ left \in Seq(Tokens) /\ Len(left) = nPast - gone
        /\ \A i \in 1..KeepLen : left[i] = cache[i]
        /\ \A i \in KeepLen + 1..nPast - gone : left[i] = cache[i + gone]
    <3>1. left = Without(cache, KeepLen, gone)
      <4>1. CASE KeepFrom <= nPast
        BY <4>1
      <4>2. CASE ~(KeepFrom <= nPast)
        <5>1. /\ SubSeq(cache, KeepLen + gone + 1, Len(cache)) = <<>>
              /\ SubSeq(cache, KeepLen + (KeepFrom - KeepLen) + 1, Len(cache)) = <<>>
          BY <1>1, <1>2, <4>2
        <5> QED
          BY <5>1 DEF Without
      <4> QED
        BY <4>1, <4>2
    <3> HIDE DEF left
    <3>2. KeepLen + gone <= Len(cache) /\ gone \in Nat
      BY <1>1, <2>2
    <3> HIDE DEF gone
    <3>3. /\ Without(cache, KeepLen, gone) \in Seq(Tokens)
          /\ Len(Without(cache, KeepLen, gone)) = Len(cache) - gone
          /\ \A i \in 1..KeepLen : Without(cache, KeepLen, gone)[i] = cache[i]
          /\ \A i \in KeepLen + 1..Len(cache) - gone :
                 Without(cache, KeepLen, gone)[i] = cache[i + gone]
      <4>1. cache \in Seq(Tokens) /\ KeepLen \in Nat
        BY <1>1
      <4>2. ASSUME NEW n \in Nat, KeepLen + n <= Len(cache)
            PROVE  /\ Without(cache, KeepLen, n) \in Seq(Tokens)
                   /\ Len(Without(cache, KeepLen, n)) = Len(cache) - n
                   /\ \A i \in 1..KeepLen : Without(cache, KeepLen, n)[i] = cache[i]
                   /\ \A i \in KeepLen + 1..Len(cache) - n :
                          Without(cache, KeepLen, n)[i] = cache[i + n]
        BY <4>1, <4>2, WithoutFacts
      <4> QED
        BY <3>2, <4>2
    <3> QED
      BY <1>1, <3>1, <3>3
  <2>4. SlidesBy(gone, k)
    BY <1>8, <2>1 DEF SlidesBy
  <2> HIDE DEF gone, left
  <2>5. cache' \in Seq(Tokens) /\ Moved(gone, k)
    BY <1>6, <2>1, <2>2, <2>3
  <2>6. rounds' \in Seq(Nat)
    BY <1>1, <1>2, <2>1, BehindFacts
  <2> QED
    BY <1>5, <2>2, <2>4, <2>5, <2>6
<1> QED
  BY <1>7, <1>8

-----------------------------------------------------------------------------
(***************************************************************************)
(* A drop of the window: the tokens of some units behind the prompt.        *)
(***************************************************************************)
\* The units of the oldest turn are those at the head.
LEMMA OldestFacts ==
  ASSUME FlowInv, units # <<>>
  PROVE  \E n \in 1..Len(units) :
             /\ OldestTurn = SubSeq(units, 1, n) /\ Len(OldestTurn) = n
             /\ \A i \in 1..n : units[i].turn = units[1].turn
             /\ n < Len(units) => units[n + 1].turn # units[1].turn
<1> DEFINE others == {i \in DOMAIN units : units[i].turn # Head(units).turn}
<1>1. /\ units \in Seq(Entry) /\ Len(units) \in Nat \ {0} /\ DOMAIN units = 1..Len(units)
      /\ Head(units) = units[1]
  BY Types
<1>2. OldestTurn = SubSeq(units, 1, IF others = {} THEN Len(units) ELSE Min(others) - 1)
  BY DEF OldestTurn
<1>3. CASE others = {}
  <2>1. OldestTurn = SubSeq(units, 1, Len(units)) /\ Len(OldestTurn) = Len(units)
    BY <1>1, <1>2, <1>3
  <2>2. \A i \in 1..Len(units) : units[i].turn = units[1].turn
    BY <1>1, <1>3
  <2> HIDE DEF others
  <2>3. Len(units) \in 1..Len(units) /\ ~(Len(units) < Len(units))
    BY <1>1
  <2> QED
    BY Zenon, <2>1, <2>2, <2>3
<1>4. CASE others # {}
  <2>1. others \subseteq Nat
    BY <1>1
  <2> HIDE DEF others
  <2>2. Min(others) \in others /\ \A m \in others : Min(others) <= m
    BY <1>4, <2>1, MinOf
  <2>3. PICK m \in Nat : m = Min(others)
    BY <2>1, <2>2
  <2> USE DEF others
  <2>4. /\ m \in 1..Len(units) /\ units[m].turn # units[1].turn
        /\ \A i \in 1..Len(units) : units[i].turn # units[1].turn => m <= i
    BY <1>1, <2>2, <2>3
  <2>5. m # 1
    BY <2>4
  <2>6. m - 1 \in 1..Len(units) /\ m - 1 < Len(units) /\ (m - 1) + 1 = m
    BY <1>1, <2>4, <2>5
  <2>7. \A i \in 1..m - 1 : units[i].turn = units[1].turn
    BY <1>1, <2>4
  <2>8. OldestTurn = SubSeq(units, 1, m - 1) /\ Len(OldestTurn) = m - 1
    <3> HIDE DEF others
    <3>1. OldestTurn = SubSeq(units, 1, m - 1)
      BY <1>2, <1>4, <2>3
    <3>2. Len(SubSeq(units, 1, m - 1)) = m - 1
      BY <1>1, <2>6
    <3> QED
      BY <3>1, <3>2
  <2> HIDE DEF others
  <2> QED
    BY <2>4, <2>6, <2>7, <2>8
<1> QED
  BY <1>3, <1>4

\* The units dropped at once: those of the oldest turn, or one.
TurnGone == \E n \in 1..Len(units) :
    /\ CanDropTurn
    /\ OldestTurn = SubSeq(units, 1, n) /\ Len(OldestTurn) = n
    /\ \A i \in 1..n : units[i].turn = units[1].turn
    /\ n < Len(units) => units[n + 1].turn # units[1].turn
    /\ Upto(units, n) <= nPast - Preserve
    /\ cache' = Without(cache, Preserve, Upto(units, n))
    /\ units' = SubSeq(units, n + 1, Len(units))

UnitGone == \E n \in 1..Len(units) :
    /\ ~CanDropTurn
    /\ units[n].length <= nPast - Preserve
    /\ \A i \in 1..n - 1 : units[i].length > nPast - Preserve
    /\ cache' = Without(cache, Preserve, units[n].length)
    /\ units' = RemoveAt(units, n)

LEMMA DropFacts ==
  ASSUME FlowInv, DropTurn \/ DropUnit
  PROVE  (DropTurn /\ TurnGone) \/ (DropUnit /\ UnitGone)
<1>1. /\ units \in Seq(Entry) /\ Len(units) \in Nat /\ nPast \in Nat /\ Preserve \in Nat
  BY Types
<1>2. \A n \in 1..Len(units) : units[n].length \in Nat
  <2>1. \A n \in 1..Len(units) : units[n] \in Entry
    BY <1>1
  <2> QED
    BY <2>1 DEF Entry
<1>3. CASE DropTurn
  <2>1. units # <<>> /\ CanDropTurn
    BY <1>3 DEF DropTurn, CanDropTurn
  <2>2. PICK n \in 1..Len(units) :
             /\ OldestTurn = SubSeq(units, 1, n) /\ Len(OldestTurn) = n
             /\ \A i \in 1..n : units[i].turn = units[1].turn
             /\ n < Len(units) => units[n + 1].turn # units[1].turn
    BY <2>1, OldestFacts
  <2>3. TotalLength(OldestTurn) = Upto(units, n)
    BY <2>2 DEF Upto
  <2>4. Upto(units, n) \in Nat
    BY <1>1, UptoFacts
  <2>5. Upto(units, n) <= nPast - Preserve
    BY <1>1, <2>1, <2>3, <2>4 DEF CanDropTurn, Droppable
  <2>6. /\ cache' = Without(cache, Preserve, Upto(units, n))
        /\ units' = SubSeq(units, n + 1, Len(units))
    BY <1>3, <2>2, <2>3 DEF DropTurn, DropTokens
  <2> QED
    BY <1>3, <2>1, <2>2, <2>5, <2>6 DEF TurnGone
<1>4. CASE DropUnit
  <2> DEFINE I == {i \in 1..Len(units) : Droppable(units[i].length)}
  <2>1. NextUnit = IF I # {} THEN Min(I) ELSE 0
    BY DEF NextUnit, SelectInSeq
  <2>2. I # {} /\ I \subseteq Nat /\ ~CanDropTurn
    BY <1>4, <2>1 DEF DropUnit, MayDropUnit
  <2> HIDE DEF I
  <2>3. Min(I) \in I /\ \A m \in I : Min(I) <= m
    BY <2>2, MinOf
  <2>4. PICK n : n = NextUnit
    OBVIOUS
  <2> USE DEF I
  <2>5. n \in 1..Len(units) /\ Droppable(units[n].length)
    BY <2>1, <2>2, <2>3, <2>4
  <2>6. \A i \in 1..n - 1 : ~Droppable(units[i].length)
    <3> SUFFICES ASSUME NEW i \in 1..n - 1, Droppable(units[i].length) PROVE FALSE
      OBVIOUS
    <3>1. i \in I
      BY <1>1, <2>5
    <3> HIDE DEF I
    <3>2. n <= i
      BY <2>1, <2>2, <2>3, <2>4, <3>1
    <3> QED
      BY <2>5, <3>2
  <2> HIDE DEF I
  <2>7. /\ units[n].length <= nPast - Preserve
        /\ \A i \in 1..n - 1 : units[i].length > nPast - Preserve
    <3>1. \A i \in 1..n - 1 : i \in 1..Len(units)
      BY <1>1, <2>5
    <3> QED
      BY <1>1, <1>2, <2>5, <2>6, <3>1 DEF Droppable
  <2>8. cache' = Without(cache, Preserve, units[n].length) /\ units' = RemoveAt(units, n)
    BY <1>4, <2>4 DEF DropUnit, DropTokens
  <2> QED
    BY <1>4, <2>2, <2>5, <2>7, <2>8 DEF UnitGone
<1> QED
  BY <1>3, <1>4

\* `gone` tokens behind the protected prefix are removed.
Dropped(gone) ==
    /\ gone > 0
    /\ cache' \in Seq(Tokens) /\ Len(cache') = nPast - gone
    /\ \A i \in 1..Preserve : cache'[i] = cache[i]
    /\ \A i \in Preserve + 1..nPast - gone : cache'[i] = cache[i + gone]

LEMMA DroppedFacts ==
  ASSUME FlowInv, NEW gone \in Nat, gone > 0, gone <= nPast - Preserve,
         cache' = Without(cache, Preserve, gone)
  PROVE  Dropped(gone)
<1>1. cache \in Seq(Tokens) /\ nPast = Len(cache) /\ nPast \in Nat /\ Preserve \in Nat
  BY Types
<1>2. Preserve + gone <= Len(cache)
  BY <1>1
<1>3. /\ Without(cache, Preserve, gone) \in Seq(Tokens)
      /\ Len(Without(cache, Preserve, gone)) = Len(cache) - gone
      /\ \A i \in 1..Preserve : Without(cache, Preserve, gone)[i] = cache[i]
      /\ \A i \in Preserve + 1..Len(cache) - gone :
             Without(cache, Preserve, gone)[i] = cache[i + gone]
  <2>1. \A s \in Seq(Tokens) : \A m \in Nat : m + gone <= Len(s) =>
            /\ Without(s, m, gone) \in Seq(Tokens)
            /\ Len(Without(s, m, gone)) = Len(s) - gone
            /\ \A i \in 1..m : Without(s, m, gone)[i] = s[i]
            /\ \A i \in m + 1..Len(s) - gone : Without(s, m, gone)[i] = s[i + gone]
    BY WithoutFacts
  <2> QED
    BY <1>1, <1>2, <2>1, Zenon
<1> QED
  BY <1>1, <1>3 DEF Dropped

LEMMA DropEffect ==
  ASSUME FlowInv, DropTurn \/ DropUnit
  PROVE  units' \in Seq(Entry) /\ \E gone \in 1..nPast - Preserve : Dropped(gone)
<1>1. /\ units \in Seq(Entry) /\ Len(units) \in Nat /\ nPast \in Nat /\ Preserve \in Nat
  BY Types
<1>2. \A n \in 1..Len(units) : units[n].length \in Nat \ {0}
  <2>1. \A n \in 1..Len(units) : units[n] \in Entry
    BY <1>1
  <2> QED
    BY <2>1 DEF Entry
<1>3. CASE TurnGone
  <2>1. PICK n \in 1..Len(units) :
          /\ Upto(units, n) <= nPast - Preserve
          /\ cache' = Without(cache, Preserve, Upto(units, n))
          /\ units' = SubSeq(units, n + 1, Len(units))
    BY <1>3 DEF TurnGone
  <2>2. Upto(units, n) \in Nat /\ Upto(units, n) > 0
    <3>1. n \in 0..Len(units) /\ n - 1 \in 0..Len(units)
      BY <1>1
    <3>2. Upto(units, n - 1) \in Nat /\ Upto(units, n) = Upto(units, n - 1) + units[n].length
      BY <1>1, <3>1, UptoFacts
    <3>3. units[n].length \in Nat \ {0}
      BY <1>2
    <3> QED
      BY <3>2, <3>3
  <2>3. PICK gone \in Nat : gone = Upto(units, n)
    BY <2>2
  <2>4. Dropped(gone)
    BY <2>1, <2>2, <2>3, DroppedFacts
  <2>5. units' \in Seq(Entry)
    BY <1>1, <2>1
  <2>6. gone \in 1..nPast - Preserve
    BY <1>1, <2>1, <2>2, <2>3
  <2> QED
    BY <2>4, <2>5, <2>6
<1>4. CASE UnitGone
  <2>1. PICK n \in 1..Len(units) :
          /\ units[n].length <= nPast - Preserve
          /\ cache' = Without(cache, Preserve, units[n].length)
          /\ units' = RemoveAt(units, n)
    BY <1>4 DEF UnitGone
  <2>2. PICK gone \in Nat : gone = units[n].length /\ gone > 0
    BY <1>2
  <2>3. Dropped(gone)
    BY <2>1, <2>2, DroppedFacts
  <2>4. units' \in Seq(Entry)
    <3>1. SubSeq(units, 1, n - 1) \in Seq(Entry) /\ SubSeq(units, n + 1, Len(units)) \in Seq(Entry)
      BY <1>1
    <3> QED
      BY <2>1, <3>1 DEF RemoveAt
  <2>5. gone \in 1..nPast - Preserve
    BY <1>1, <2>1, <2>2
  <2> QED
    BY <2>3, <2>4, <2>5
<1> QED
  BY <1>3, <1>4, DropFacts

-----------------------------------------------------------------------------
(***************************************************************************)
(* Types, counters and the order of turns are kept by every step.           *)
(***************************************************************************)
\* What a write leaves in order: the newest tokens belong to the current turn.
LEMMA WriteKeepsOrder ==
  ASSUME FlowInv, NEW k \in Nat \ {0}, Evaluate(k), turn' = turn
  PROVE  /\ cache' \in Seq(Tokens) /\ rounds' \in Seq(Nat) /\ written' \in Nat
         /\ Len(cache') > KeepLen
         /\ \A i, j \in 1..Len(cache') : i <= j => cache'[i].turn <= cache'[j].turn
         /\ \A i \in 1..Len(cache') : cache'[i].turn <= turn
         /\ cache'[Len(cache')].turn = turn
<1>1. /\ KeepLen \in Nat /\ nPast \in Nat /\ nPast >= KeepLen /\ written \in Nat /\ turn \in Nat
      /\ \A i \in 1..nPast : cache[i].turn \in Int
  BY Types
<1>2. /\ \A i, j \in 1..nPast : i <= j => cache[i].turn <= cache[j].turn
      /\ \A i \in 1..nPast : cache[i].turn <= turn
  BY DEF FlowInv, Flow
<1>3. cache' \in Seq(Tokens) /\ rounds' \in Seq(Nat) /\ written' = written + k
  BY EvaluateFacts
<1>4. PICK gone \in 0..nPast - KeepLen : Moved(gone, k)
  BY EvaluateFacts
<1> DEFINE left == nPast - gone
<1>5. left \in Nat /\ left >= KeepLen /\ left <= nPast /\ Len(cache') = left + k
  BY <1>1, <1>4 DEF Moved
<1>6. \A i \in 1..left : \E m \in 1..nPast :
          cache'[i] = cache[m] /\ m = IF i <= KeepLen THEN i ELSE i + gone
  <2> TAKE i \in 1..left
  <2>1. CASE i <= KeepLen
    BY <1>1, <1>4, <1>5, <2>1 DEF Moved
  <2>2. CASE ~(i <= KeepLen)
    <3>1. i \in KeepLen + 1..nPast - gone /\ i + gone \in 1..nPast
      BY <1>1, <1>5, <2>2
    <3>2. cache'[i] = cache[i + gone]
      BY <1>4, <3>1 DEF Moved
    <3> QED
      BY <2>2, <3>1, <3>2
  <2> QED
    BY <2>1, <2>2
<1>7. \A i \in left + 1..Len(cache') : cache'[i].turn = turn
  <2> TAKE i \in left + 1..Len(cache')
  <2>1. i - left \in 1..k /\ left + (i - left) = i
    BY <1>5
  <2>2. cache'[left + (i - left)] = Token(written + (i - left))
    BY <1>4, <2>1 DEF Moved
  <2> QED
    BY <2>1, <2>2 DEF Token
<1> HIDE DEF left
<1>8. \A i \in 1..Len(cache') : i \in 1..left \/ i \in left + 1..Len(cache')
  BY <1>5
<1>9. \A i \in 1..Len(cache') : cache'[i].turn \in Int /\ cache'[i].turn <= turn
  BY <1>1, <1>2, <1>6, <1>7, <1>8
<1>10. ASSUME NEW i \in 1..Len(cache'), NEW j \in 1..Len(cache'), i <= j
       PROVE  cache'[i].turn <= cache'[j].turn
  <2>1. CASE j \in left + 1..Len(cache')
    BY <1>7, <1>9, <2>1
  <2>2. CASE j \in 1..left
    <3>1. i \in 1..left
      BY <1>5, <1>10, <2>2
    <3>2. PICK m \in 1..nPast : cache'[i] = cache[m] /\ m = IF i <= KeepLen THEN i ELSE i + gone
      BY <1>6, <3>1
    <3>3. PICK n \in 1..nPast : cache'[j] = cache[n] /\ n = IF j <= KeepLen THEN j ELSE j + gone
      BY <1>6, <2>2
    <3>4. m <= n
      BY <1>1, <1>10, <3>2, <3>3
    <3> QED
      BY <1>2, <3>2, <3>3, <3>4
  <2> QED
    BY <1>8, <2>1, <2>2
<1>11. Len(cache') > KeepLen /\ Len(cache') \in left + 1..Len(cache')
  BY <1>1, <1>5
<1>12. written' \in Nat
  BY <1>1, <1>3
<1> QED
  BY <1>3, <1>7, <1>9, <1>10, <1>11, <1>12

LEMMA DropKeepsOrder ==
  ASSUME FlowInv, DropTurn \/ DropUnit
  PROVE  /\ cache' \in Seq(Tokens) /\ Len(cache') >= KeepLen
         /\ \A i, j \in 1..Len(cache') : i <= j => cache'[i].turn <= cache'[j].turn
         /\ \A i \in 1..Len(cache') : cache'[i].turn <= turn
<1>1. /\ KeepLen \in Nat /\ Preserve \in Nat /\ Preserve >= KeepLen /\ nPast \in Nat
  BY Types
<1>2. /\ \A i, j \in 1..nPast : i <= j => cache[i].turn <= cache[j].turn
      /\ \A i \in 1..nPast : cache[i].turn <= turn
  BY DEF FlowInv, Flow
<1>3. PICK gone \in 1..nPast - Preserve : Dropped(gone)
  BY DropEffect
<1>4. cache' \in Seq(Tokens) /\ Len(cache') = nPast - gone
  BY <1>3 DEF Dropped
<1>5. \A i \in 1..nPast - gone : \E m \in 1..nPast :
          cache'[i] = cache[m] /\ m = IF i <= Preserve THEN i ELSE i + gone
  <2> TAKE i \in 1..nPast - gone
  <2>1. CASE i <= Preserve
    BY <1>1, <1>3, <2>1 DEF Dropped
  <2>2. CASE ~(i <= Preserve)
    <3>1. i \in Preserve + 1..nPast - gone /\ i + gone \in 1..nPast
      BY <1>1, <1>3, <2>2
    <3>2. cache'[i] = cache[i + gone]
      BY <1>3, <3>1 DEF Dropped
    <3> QED
      BY <2>2, <3>1, <3>2
  <2> QED
    BY <2>1, <2>2
<1>6. ASSUME NEW i \in 1..Len(cache'), NEW j \in 1..Len(cache'), i <= j
      PROVE  cache'[i].turn <= cache'[j].turn
  <2>1. PICK m \in 1..nPast : cache'[i] = cache[m] /\ m = IF i <= Preserve THEN i ELSE i + gone
    BY <1>4, <1>5
  <2>2. PICK n \in 1..nPast : cache'[j] = cache[n] /\ n = IF j <= Preserve THEN j ELSE j + gone
    BY <1>4, <1>5
  <2>3. m <= n
    BY <1>1, <1>3, <1>6, <2>1, <2>2
  <2> QED
    BY <1>2, <2>1, <2>2, <2>3
<1>7. \A i \in 1..Len(cache') : cache'[i].turn <= turn
  BY <1>2, <1>4, <1>5
<1>8. Len(cache') >= KeepLen
  BY <1>1, <1>3, <1>4
<1> QED
  BY <1>4, <1>6, <1>7, <1>8

LEMMA FlowInit == Init => FlowInv
<1> SUFFICES ASSUME Init PROVE FlowInv
  OBVIOUS
<1>1. /\ KeepLen \in Nat /\ Preserve \in Nat /\ Preserve = KeepLen + PrefixLen /\ PrefixLen \in Nat
      /\ setup.chunk \in Nat \ {0} /\ setup.forceListen \in Nat /\ setup \in Setups
  BY SetupTypes DEF Init
<1>2. cache = [i \in 1..Preserve |-> [serial |-> i, turn |-> -1, unit |-> -1]]
  BY DEF Init
<1>3. cache \in Seq(Tokens) /\ nPast = Preserve /\ \A i \in 1..nPast : cache[i].turn = -1
  <2>1. \A i \in 1..Preserve : [serial |-> i, turn |-> -1, unit |-> -1] \in Tokens
    BY <1>1 DEF Tokens
  <2>2. cache \in Seq(Tokens) /\ Len(cache) = Preserve
    BY <1>1, <1>2, <2>1
  <2> QED
    BY <1>2, <2>2 DEF nPast
<1>4. rounds \in Seq(Nat) /\ units \in Seq([id : Nat, length : Nat \ {0}, turn : Nat])
  <2>1. <<>> \in Seq(Nat) /\ <<>> \in Seq([id : Nat, length : Nat \ {0}, turn : Nat])
    OBVIOUS
  <2> QED
    BY <2>1 DEF Init
<1>5. TypeOK
  <2>1. 0 \in 0..setup.chunk /\ 0 \in 0..setup.forceListen
    BY <1>1
  <2> QED
    BY <1>1, <1>3, <1>4, <2>1 DEF TypeOK, Init
<1>6. Flow
  BY <1>1, <1>3 DEF Flow, Init
<1> QED
  BY <1>5, <1>6 DEF FlowInv

\* A step that writes k tokens.
LEMMA FlowAfterWrite ==
  ASSUME FlowInv, NEW k \in Nat \ {0}, Evaluate(k), UNCHANGED <<setup, units, turn, nextUnit, start>>,
         phase' \in {"more", "forced2", "sample", "limit", "step", "close", "wrap", "idle"},
         said' \in 0..setup.chunk, forced' = forced,
         lastListen' \in BOOLEAN, endedListen' \in BOOLEAN,
         phase' \in {"sample", "step"} => said' < setup.chunk,
         phase' \in {"forced1", "forced2", "sample", "limit", "step"} => ~endedListen'
  PROVE  FlowInv'
<1>1. /\ cache' \in Seq(Tokens) /\ rounds' \in Seq(Nat) /\ written' \in Nat
      /\ Len(cache') > KeepLen
      /\ \A i, j \in 1..Len(cache') : i <= j => cache'[i].turn <= cache'[j].turn
      /\ \A i \in 1..Len(cache') : cache'[i].turn <= turn
  BY WriteKeepsOrder
<1>2. nPast' = Len(cache') /\ nPast' \in Nat /\ KeepLen \in Nat
  BY <1>1, Types DEF nPast
<1>3. TypeOK'
  BY <1>1 DEF TypeOK, FlowInv
<1>4. Flow'
  BY <1>1, <1>2 DEF Flow
<1> QED
  BY <1>3, <1>4 DEF FlowInv

\* A step that leaves the cache as it is.
LEMMA FlowElsewhere ==
  ASSUME FlowInv, UNCHANGED <<setup, cache, written>>,
         rounds' \in Seq(Nat), units' \in Seq(Entry),
         turn' \in Nat, turn' >= turn, nextUnit' \in Nat, start' \in Nat,
         phase' \in {"idle", "prefill", "more", "enforce", "filled", "forced1",
                     "forced2", "sample", "limit", "step", "close", "wrap"},
         said' \in 0..setup.chunk, forced' \in 0..setup.forceListen,
         lastListen' \in BOOLEAN, endedListen' \in BOOLEAN,
         phase' \in {"sample", "step"} => said' < setup.chunk,
         phase' \in {"forced1", "forced2", "sample", "limit", "step"} => ~endedListen',
         phase' = "enforce" => setup.window # "off"
  PROVE  FlowInv'
<1>1. nPast' = nPast /\ turn \in Nat /\ nPast \in Nat /\ \A i \in 1..nPast : cache[i].turn \in Int
  BY Types DEF nPast
<1>2. TypeOK'
  BY DEF TypeOK, FlowInv, Entry
<1>3. Flow'
  BY <1>1 DEF Flow, FlowInv
<1> QED
  BY <1>2, <1>3 DEF FlowInv

LEMMA EntryFacts ==
  ASSUME FlowInv, Register
  PROVE  /\ units' \in Seq(Entry)
         /\ units' = units \/ (/\ nPast > start /\ UnitEntry(nPast - start) \in Entry
                               /\ units' = Append(units, UnitEntry(nPast - start)))
<1>1. /\ units \in Seq(Entry) /\ nPast \in Nat /\ start \in Nat /\ turn \in Nat /\ nextUnit \in Nat
  BY Types
<1>2. CASE setup.window # "off" /\ nPast > start
  <2>1. UnitEntry(nPast - start) \in Entry
    BY <1>1, <1>2 DEF UnitEntry, Entry
  <2>2. units' = Append(units, UnitEntry(nPast - start))
    BY <1>2 DEF Register
  <2> QED
    BY <1>1, <1>2, <2>1, <2>2
<1>3. CASE ~(setup.window # "off" /\ nPast > start)
  BY <1>1, <1>3 DEF Register
<1> QED
  BY <1>2, <1>3

LEMMA FlowNext == FlowInv /\ Next => FlowInv'
<1> SUFFICES ASSUME FlowInv, Next PROVE FlowInv'
  OBVIOUS
<1>1. /\ setup' = setup
      /\ rounds \in Seq(Nat) /\ units \in Seq(Entry) /\ nPast \in Nat
      /\ turn \in Nat /\ nextUnit \in Nat /\ start \in Nat
  BY Types DEF Next
<1>2. /\ setup.chunk \in Nat \ {0} /\ setup.step \in Nat \ {0} /\ setup.forceListen \in Nat
      /\ setup.pieces \subseteq Nat \ {0}
  BY SetupTypes DEF FlowInv, TypeOK
<1>3. /\ said \in 0..setup.chunk /\ forced \in 0..setup.forceListen
      /\ lastListen \in BOOLEAN /\ endedListen \in BOOLEAN
      /\ phase \in {"sample", "step"} => said < setup.chunk
      /\ phase \in {"forced1", "forced2", "sample", "limit", "step"} => ~endedListen
  BY DEF FlowInv, TypeOK, Flow
<1> DEFINE Same == UNCHANGED <<setup, units, turn, nextUnit, start>>
           Still == UNCHANGED <<setup, cache, written>>
<1>4. CASE PrefillBegin
  BY <1>1, <1>3, <1>4, FlowElsewhere DEF PrefillBegin, book, talk
<1>5. CASE PrefillPiece
  <2>1. PICK k \in setup.pieces : Evaluate(k)
    BY <1>5 DEF PrefillPiece
  <2>2. k \in Nat \ {0}
    BY <1>2
  <2>3. Same /\ phase' = "more" /\ UNCHANGED talk
    BY <1>1, <1>5 DEF PrefillPiece, book
  <2> QED
    BY <1>3, <2>1, <2>2, <2>3, FlowAfterWrite DEF talk
<1>6. CASE PrefillEnd
  <2>1. units' \in Seq(Entry)
    BY <1>6, EntryFacts DEF PrefillEnd
  <2>2. nextUnit' \in Nat /\ phase' \in {"enforce", "filled"}
        /\ (phase' = "enforce" => setup.window # "off")
    BY <1>1, <1>6 DEF PrefillEnd
  <2>3. Still /\ UNCHANGED <<rounds, turn, start, talk>>
    BY <1>1, <1>6 DEF PrefillEnd
  <2> QED
    BY <1>1, <1>3, <2>1, <2>2, <2>3, FlowElsewhere DEF talk
<1>7. CASE EnforceDrop
  <2>1. /\ DropTurn \/ DropUnit
        /\ UNCHANGED <<setup, rounds, turn, nextUnit, start, phase, talk, written>>
    BY <1>1, <1>7 DEF EnforceDrop
  <2>2. /\ cache' \in Seq(Tokens) /\ Len(cache') >= KeepLen
        /\ \A i, j \in 1..Len(cache') : i <= j => cache'[i].turn <= cache'[j].turn
        /\ \A i \in 1..Len(cache') : cache'[i].turn <= turn
    BY <2>1, DropKeepsOrder
  <2>3. units' \in Seq(Entry)
    BY <2>1, DropEffect
  <2>4. nPast' = Len(cache')
    BY DEF nPast
  <2>5. TypeOK'
    BY <2>1, <2>2, <2>3 DEF TypeOK, FlowInv, Entry, talk
  <2>6. Flow'
    BY <2>1, <2>2, <2>4 DEF Flow, FlowInv, talk
  <2> QED
    BY <2>5, <2>6 DEF FlowInv
<1>8. CASE EnforceEnd \/ DecodeRefused
  BY <1>1, <1>3, <1>8, FlowElsewhere DEF EnforceEnd, DecodeRefused, book, talk
<1>9. CASE DecodeBegin
  <2>1. /\ Still /\ UNCHANGED <<rounds, book, lastListen>> /\ start' = nPast
        /\ endedListen' = FALSE /\ said' = 0
    BY <1>1, <1>9 DEF DecodeBegin
  <2>2. said' \in 0..setup.chunk /\ said' < setup.chunk
    BY <1>2, <2>1
  <2>3. phase' \in {"forced1", "sample"} /\ forced' \in 0..setup.forceListen
    BY <1>2, <1>3, <1>9 DEF DecodeBegin
  <2>4. lastListen' \in BOOLEAN /\ endedListen' \in BOOLEAN /\ start' \in Nat
        /\ rounds' \in Seq(Nat) /\ units' \in Seq(Entry) /\ turn' = turn /\ nextUnit' = nextUnit
    BY <1>1, <1>3, <2>1 DEF book
  <2>5. ~endedListen' /\ phase' # "enforce" /\ turn' >= turn
    BY <1>1, <2>1, <2>3, <2>4
  <2> QED
    BY <1>1, <2>1, <2>2, <2>3, <2>4, <2>5, FlowElsewhere
<1>10. CASE ForcedListen
  <2>1. Evaluate(1) /\ Same /\ phase = "forced1" /\ phase' = "forced2" /\ UNCHANGED talk
    BY <1>1, <1>10 DEF ForcedListen, book
  <2> QED
    BY <1>3, <2>1, FlowAfterWrite DEF talk
<1>11. CASE ForcedUnitEnd
  <2>1. /\ Evaluate(1) /\ Same /\ phase' = "idle" /\ UNCHANGED <<said, forced>>
        /\ lastListen' = TRUE /\ endedListen' = TRUE
    BY <1>1, <1>11 DEF ForcedUnitEnd, book
  <2>2. lastListen' \in BOOLEAN /\ endedListen' \in BOOLEAN
    BY <2>1
  <2> QED
    BY <1>3, <2>1, <2>2, FlowAfterWrite
<1>12. CASE SampleContent
  <2>1. /\ Evaluate(1) /\ Same /\ phase = "sample"
        /\ \/ said' = said + 1 /\ phase' = AfterToken(said + 1)
           \/ said' = said /\ phase' = phase
        /\ UNCHANGED <<forced, lastListen, endedListen>>
    BY <1>1, <1>12 DEF SampleContent, book
  <2>2. said' \in 0..setup.chunk
    BY <1>2, <1>3, <2>1
  <2>3. phase' \in {"limit", "step", "sample"} /\ (phase' # "limit" => said' < setup.chunk)
    BY <1>2, <1>3, <2>1, <2>2 DEF AfterToken
  <2> QED
    BY <1>3, <2>1, <2>2, <2>3, FlowAfterWrite
<1>13. CASE SampleEnd
  <2>1. /\ Evaluate(1) /\ Same /\ phase' = "close" /\ UNCHANGED <<said, forced>>
        /\ lastListen' \in BOOLEAN /\ endedListen' \in BOOLEAN
    BY <1>1, <1>13 DEF SampleEnd, book
  <2> QED
    BY <1>3, <2>1, FlowAfterWrite
<1>14. CASE SampleBreak
  <2>1. Still /\ UNCHANGED <<rounds, book, start, talk>> /\ phase' \in {"close", "wrap"}
    BY <1>1, <1>14 DEF SampleBreak
  <2> QED
    BY <1>1, <1>3, <2>1, FlowElsewhere DEF book, talk
<1>15. CASE ChunkEos
  <2>1. Evaluate(1) /\ Same /\ phase' = "close" /\ UNCHANGED talk
    BY <1>1, <1>15 DEF ChunkEos, book
  <2> QED
    BY <1>3, <2>1, FlowAfterWrite DEF talk
<1>16. CASE UnitEnd
  <2>1. /\ Evaluate(1) /\ Same /\ UNCHANGED talk
        /\ (phase = "step" /\ phase' = "sample") \/ (phase = "close" /\ phase' = "wrap")
    BY <1>1, <1>16 DEF UnitEnd, book
  <2> QED
    BY <1>3, <2>1, FlowAfterWrite DEF talk
<1>17. CASE DecodeEnd
  <2>1. units' \in Seq(Entry)
    BY <1>17, EntryFacts DEF DecodeEnd, ResponseEntry
  <2>2. nextUnit' \in Nat /\ turn' \in Nat /\ turn' >= turn /\ rounds' \in Seq(Nat)
    <3>1. Append(rounds, nPast) \in Seq(Nat)
      BY <1>1
    <3>2. nextUnit' = nextUnit \/ nextUnit' = nextUnit + 1
      BY <1>1, <1>17 DEF DecodeEnd
    <3>3. \/ rounds' = Append(rounds, nPast) /\ turn' = turn + 1
          \/ rounds' = rounds /\ turn' = turn
      BY <1>17 DEF DecodeEnd
    <3>4. rounds' \in Seq(Nat)
      BY <1>1, <3>1, <3>3
    <3>5. turn' \in Nat /\ turn' >= turn /\ nextUnit' \in Nat
      BY <1>1, <3>2, <3>3
    <3> QED
      BY <3>4, <3>5
  <2>3. Still /\ UNCHANGED <<start, talk>> /\ phase' = "idle"
    BY <1>1, <1>17 DEF DecodeEnd
  <2> QED
    BY <1>1, <1>3, <2>1, <2>2, <2>3, FlowElsewhere DEF talk
<1> QED
  BY <1>4, <1>5, <1>6, <1>7, <1>8, <1>9, <1>10, <1>11, <1>12, <1>13, <1>14, <1>15, <1>16, <1>17
  DEF Next, Prefill, Enforce, Decode

LEMMA FlowStep == FlowInv /\ [Next]_vars => FlowInv'
<1>1. FlowInv /\ UNCHANGED vars => FlowInv'
  BY DEF vars, book, talk, FlowInv, TypeOK, Flow, nPast
<1> QED
  BY <1>1, FlowNext

\* Every variable keeps the type of the field it stands for, in every configuration.
THEOREM TypeCorrect == Spec => []TypeOK
<1>1. FlowInv => TypeOK
  BY DEF FlowInv
<1> QED
  BY <1>1, FlowInit, FlowStep, PTL DEF Spec

-----------------------------------------------------------------------------
(***************************************************************************)
(* What a step does to the cache: it writes, the window drops, or neither.  *)
(***************************************************************************)
Writes == \E k \in setup.pieces \cup {1} :
    Evaluate(k) /\ UNCHANGED <<units, turn, nextUnit, start>>

Drops == /\ phase = "enforce"
         /\ DropTurn \/ DropUnit
         /\ UNCHANGED <<rounds, turn, nextUnit, start, phase, talk, written>>

Elsewhere == UNCHANGED <<cache, written>>

LEMMA StepKinds ==
  ASSUME FlowInv, [Next]_vars
  PROVE  /\ setup' = setup
         /\ \/ Writes /\ phase \in {"prefill", "more", "forced1", "forced2", "sample", "limit",
                                    "step", "close"}
            \/ Drops
            \/ Elsewhere /\ phase # "enforce"
            \/ Elsewhere /\ phase = "enforce"
<1>1. CASE UNCHANGED vars
  BY <1>1 DEF vars, Elsewhere
<1>2. CASE Next
  <2>1. setup' = setup
    BY <1>2 DEF Next
  <2>2. CASE PrefillPiece
    BY <2>1, <2>2 DEF PrefillPiece, Writes, book
  <2>3. CASE ForcedListen \/ ForcedUnitEnd \/ SampleContent \/ SampleEnd \/ ChunkEos \/ UnitEnd
    <3>1. Evaluate(1) /\ UNCHANGED <<units, turn, nextUnit, start>>
      BY <2>3 DEF ForcedListen, ForcedUnitEnd, SampleContent, SampleEnd, ChunkEos, UnitEnd, book
    <3>2. phase \in {"forced1", "forced2", "sample", "limit", "step", "close"}
      BY <2>3 DEF ForcedListen, ForcedUnitEnd, SampleContent, SampleEnd, ChunkEos, UnitEnd
    <3> QED
      BY <2>1, <3>1, <3>2 DEF Writes
  <2>4. CASE EnforceDrop
    BY <2>1, <2>4 DEF EnforceDrop, Drops
  <2>5. CASE PrefillBegin \/ PrefillEnd \/ EnforceEnd \/ DecodeBegin \/ DecodeRefused \/ SampleBreak
             \/ DecodeEnd
    <3>1. Elsewhere
      BY <2>5 DEF PrefillBegin, PrefillEnd, EnforceEnd, DecodeBegin, DecodeRefused, SampleBreak,
                  DecodeEnd, Elsewhere
    <3> QED
      BY <2>1, <3>1
  <2> QED
    BY <1>2, <2>2, <2>3, <2>4, <2>5 DEF Next, Prefill, Enforce, Decode
<1> QED
  BY <1>1, <1>2

LEMMA PieceFacts ==
  ASSUME FlowInv
  PROVE  \A k \in setup.pieces \cup {1} : k \in Nat \ {0}
  BY SetupTypes DEF FlowInv, TypeOK

-----------------------------------------------------------------------------
(***************************************************************************)
(* The cache is the prompt and the newest tokens.  The one step that breaks *)
(* this is a slide while a window is on: it cuts behind n_keep, in front of *)
(* the tokens that the window protects (kv_cache_slide_window does not ask  *)
(* for the window's mode).  WindowAlone says that no write of the session   *)
(* finds the cache that full.                                               *)
(***************************************************************************)
NoSlide == setup.window # "off" /\ phase # "enforce" => Len(cache') - nPast = written' - written

WindowAlone == [][NoSlide]_vars

LEMMA RecentInit == Init => CacheIsRecent
<1> SUFFICES ASSUME Init PROVE CacheIsRecent
  OBVIOUS
<1>1. /\ KeepLen \in Nat /\ Preserve \in Nat /\ Preserve = KeepLen + PrefixLen /\ PrefixLen \in Nat
  BY SetupTypes DEF Init
<1>2. nPast = Preserve /\ written = Preserve /\ \A i \in 1..Preserve : cache[i].serial = i
  <2>1. cache = [i \in 1..Preserve |-> [serial |-> i, turn |-> -1, unit |-> -1]]
    BY DEF Init
  <2>2. Len(cache) = Preserve
    BY <1>1, <2>1
  <2>3. nPast = Preserve /\ written = Preserve
    BY <2>2 DEF Init, nPast
  <2>4. \A i \in 1..Preserve : cache[i].serial = i
    BY <2>1
  <2> QED
    BY <2>3, <2>4
<1>3. Protected \in Nat /\ Protected <= Preserve
  BY <1>1 DEF Protected
<1>4. nPast >= Protected /\ \A i \in 1..Protected : cache[i].serial = i
  BY <1>1, <1>2, <1>3
<1>5. \A i \in 1..nPast - Protected :
          cache[Protected + i].serial = written - (nPast - Protected) + i
  <2> TAKE i \in 1..nPast - Protected
  <2>1. Protected + i \in 1..Preserve /\ written - (nPast - Protected) + i = Protected + i
    BY <1>1, <1>2, <1>3
  <2> QED
    BY <1>2, <2>1
<1> QED
  BY <1>4, <1>5 DEF CacheIsRecent

LEMMA RecentStep ==
  ASSUME FlowInv, CacheIsRecent, [Next]_vars, [NoSlide]_vars
  PROVE  CacheIsRecent'
<1>1. /\ KeepLen \in Nat /\ Preserve \in Nat /\ Preserve >= KeepLen /\ nPast \in Nat
      /\ nPast >= KeepLen /\ written \in Nat /\ setup' = setup
  BY Types, StepKinds
<1> DEFINE P == Protected
<1>2. /\ P \in {KeepLen, Preserve} /\ P \in Nat /\ Protected' = P
      /\ setup.window = "off" => P = KeepLen
      /\ setup.window # "off" => P = Preserve
  BY <1>1 DEF Protected, Preserve
<1>3. /\ nPast >= P
      /\ \A i \in 1..P : cache[i].serial = i
      /\ \A i \in 1..nPast - P : cache[P + i].serial = written - (nPast - P) + i
  BY DEF CacheIsRecent
<1> HIDE DEF P
\* it is enough that tokens go from behind P and come at the end
<1>4. ASSUME NEW gone \in 0..nPast - P, NEW k \in Nat, written' = written + k,
             Len(cache') = nPast - gone + k,
             \A i \in 1..P : cache'[i] = cache[i],
             \A i \in P + 1..nPast - gone : cache'[i] = cache[i + gone],
             \A i \in 1..k : cache'[nPast - gone + i].serial = written + i
      PROVE  CacheIsRecent'
  <2>1. nPast' = nPast - gone + k /\ nPast' \in Int
    BY <1>1, <1>2, <1>4 DEF nPast
  <2>2. nPast' >= P /\ \A i \in 1..P : cache'[i].serial = i
    BY <1>1, <1>2, <1>3, <1>4, <2>1
  <2>3. ASSUME NEW i \in 1..nPast' - P
        PROVE  cache'[P + i].serial = written' - (nPast' - P) + i
    <3>1. written' - (nPast' - P) + i = written - (nPast - P) + gone + i
      <4>1. \A w, n, p \in Int : (w + k) - ((n - gone + k) - p) + i = w - (n - p) + gone + i
        BY <1>4, <2>1, <1>1, <1>2
      <4> QED
        BY <1>1, <1>2, <1>4, <2>1, <4>1
    <3>2. CASE P + i <= nPast - gone
      <4>1. P + i \in P + 1..nPast - gone
        BY <1>1, <1>2, <3>2
      <4>2. i + gone \in 1..nPast - P /\ (P + i) + gone = P + (i + gone)
        BY <1>1, <1>2, <3>2
      <4>3. cache'[P + i] = cache[P + (i + gone)]
        BY <1>4, <4>1, <4>2
      <4>4. cache[P + (i + gone)].serial = written - (nPast - P) + (i + gone)
        BY <1>3, <4>2
      <4> QED
        BY <1>1, <1>2, <3>1, <4>3, <4>4
    <3>3. CASE ~(P + i <= nPast - gone)
      <4> DEFINE j == P + i - (nPast - gone)
      <4>1. j \in 1..k /\ nPast - gone + j = P + i
        BY <1>1, <1>2, <1>4, <2>1, <3>3
      <4>2. cache'[P + i].serial = written + j
        BY <1>4, <4>1
      <4> QED
        BY <1>1, <1>2, <3>1, <4>2
    <3> QED
      BY <3>2, <3>3
  <2> QED
    BY <1>2, <2>2, <2>3 DEF CacheIsRecent
<1>5. CASE Writes /\ phase # "enforce"
  <2>1. PICK k \in setup.pieces \cup {1} : Evaluate(k)
    BY <1>5 DEF Writes
  <2>2. k \in Nat \ {0}
    BY PieceFacts
  <2>3. PICK gone \in 0..nPast - KeepLen : Moved(gone, k)
    BY <2>1, <2>2, EvaluateFacts
  <2>4. written' = written + k
    BY <2>1, <2>2, EvaluateFacts
  <2>5. gone \in 0..nPast - P /\ (P = KeepLen \/ gone = 0)
    <3>1. CASE setup.window = "off"
      BY <1>2, <3>1
    <3>2. CASE setup.window # "off"
      <4>1. Len(cache') - nPast = written' - written
        BY <1>1, <1>5, <2>2, <2>4, <3>2 DEF NoSlide, vars
      <4>2. gone = 0
        BY <1>1, <2>2, <2>3, <2>4, <4>1 DEF Moved
      <4> QED
        BY <1>1, <1>2, <1>3, <4>2
    <3> QED
      BY <3>1, <3>2
  <2>6. /\ \A i \in 1..P : cache'[i] = cache[i]
        /\ \A i \in P + 1..nPast - gone : cache'[i] = cache[i + gone]
    <3>1. CASE P = KeepLen
      BY <2>3, <3>1 DEF Moved
    <3>2. CASE gone = 0
      <4>1. \A i \in 1..nPast : cache'[i] = cache[i]
        <5> TAKE i \in 1..nPast
        <5>1. CASE i <= KeepLen
          BY <1>1, <2>3, <5>1 DEF Moved
        <5>2. CASE ~(i <= KeepLen)
          <6>1. i \in KeepLen + 1..nPast - gone /\ i + gone = i
            BY <1>1, <3>2, <5>2
          <6> QED
            BY <2>3, <6>1 DEF Moved
        <5> QED
          BY <5>1, <5>2
      <4>2. /\ \A i \in 1..P : i \in 1..nPast
            /\ \A i \in P + 1..nPast - gone : i \in 1..nPast /\ i + gone = i
        BY <1>1, <1>2, <1>3, <3>2
      <4> QED
        BY <4>1, <4>2
    <3> QED
      BY <2>5, <3>1, <3>2
  <2>7. \A i \in 1..k : cache'[nPast - gone + i].serial = written + i
    <3>1. \A n : Token(n).serial = n
      BY DEF Token
    <3> QED
      BY <2>3, <3>1 DEF Moved
  <2>8. Len(cache') = nPast - gone + k
    BY <2>3 DEF Moved
  <2> QED
    BY <1>4, <2>2, <2>4, <2>5, <2>6, <2>7, <2>8
<1>6. CASE Drops
  <2>1. P = Preserve
    BY <1>2, <1>6 DEF Drops, FlowInv, Flow
  <2>2. PICK gone \in 1..nPast - Preserve : Dropped(gone)
    BY <1>6, DropEffect DEF Drops
  <2>3. gone \in 0..nPast - P /\ written' = written + 0 /\ Len(cache') = nPast - gone + 0
    BY <1>1, <1>6, <2>1, <2>2 DEF Dropped, Drops
  <2>4. /\ \A i \in 1..P : cache'[i] = cache[i]
        /\ \A i \in P + 1..nPast - gone : cache'[i] = cache[i + gone]
    BY <2>1, <2>2 DEF Dropped
  <2>5. \A i \in 1..0 : cache'[nPast - gone + i].serial = written + i
    OBVIOUS
  <2>6. 0 \in Nat
    OBVIOUS
  <2> QED
    BY <1>4, <2>3, <2>4, <2>5, <2>6
<1>7. CASE Elsewhere
  BY <1>2, <1>7 DEF Elsewhere, CacheIsRecent, nPast, P
<1> QED
  BY <1>5, <1>6, <1>7, StepKinds

\* No window removes a token younger than one it keeps, nor one of the prompt.
THEOREM Recent == Spec /\ WindowAlone => []CacheIsRecent
  BY FlowInit, FlowStep, RecentInit, RecentStep, PTL DEF Spec, WindowAlone

-----------------------------------------------------------------------------
(***************************************************************************)
(* While only slides run, a boundary stays where a round ended: a slide moves *)
(* the boundaries behind its cut by as much as it moves the tokens, and     *)
(* forgets the others.                                                      *)
(***************************************************************************)
EndsARound(r) ==
    /\ KeepLen < r /\ r <= nPast
    /\ cache[r].turn < turn
    /\ r < nPast => cache[r].turn < cache[r + 1].turn

RoundsRise == \A i, j \in 1..Len(rounds) : i < j => rounds[i] < rounds[j]

\* the boundary that the end of a listening decode is about to record
ListensAtEnd == endedListen /\ phase \in {"close", "wrap"} => KeepLen < nPast /\ cache[nPast].turn = turn

Boundaries == setup.window = "off" =>
    /\ \A i \in 1..Len(rounds) : EndsARound(rounds[i])
    /\ RoundsRise
    /\ ListensAtEnd

RoundsInv == FlowInv /\ Boundaries

\* With no window on, a cut lies inside the cache and takes the boundaries with it.
LEMMA CutFacts ==
  ASSUME RoundsInv, setup.window = "off", NEW k \in Nat \ {0}, Evaluate(k)
  PROVE  \E gone \in 0..nPast - KeepLen :
             /\ Moved(gone, k)
             /\ \/ SlidesBy(gone, k) /\ KeepFrom = KeepLen + gone
                \/ gone = 0 /\ StaysBefore(k)
<1>1. FlowInv /\ nPast \in Nat /\ KeepLen \in Nat /\ rounds \in Seq(Nat) /\ setup.targetKeep \in Nat
  BY Types, SetupTypes DEF RoundsInv, FlowInv, TypeOK
<1>2. PICK gone \in 0..nPast - KeepLen :
          Moved(gone, k) /\ (SlidesBy(gone, k) \/ (gone = 0 /\ StaysBefore(k)))
  BY <1>1, EvaluateFacts
<1>3. ASSUME KeepFrom > KeepLen PROVE KeepFrom <= nPast
  <2>1. CASE Len(rounds) < 2
    BY <1>1, <1>3, <2>1, KeepFromFacts
  <2>2. CASE Len(rounds) >= 2
    <3>1. PICK c \in 1..Len(rounds) - 1 : KeepFrom = rounds[c]
      BY <1>1, <1>3, <2>2, KeepFromFacts
    <3>2. c \in 1..Len(rounds)
      BY <1>1
    <3> QED
      BY <3>1, <3>2 DEF RoundsInv, Boundaries, EndsARound
  <2> QED
    BY <1>1, <2>1, <2>2
<1>4. SlidesBy(gone, k) => KeepFrom = KeepLen + gone
  <2>1. KeepFrom \in Int
    BY <1>1, KeepFromFacts
  <2> QED
    BY <1>1, <1>3, <2>1 DEF SlidesBy
<1> QED
  BY <1>2, <1>4

\* Each boundary after a write was one before it, moved with the tokens.
Carried(g, gone) ==
    /\ g \in [1..Len(rounds') -> 1..Len(rounds)]
    /\ \A i \in 1..Len(rounds') : rounds'[i] = rounds[g[i]] - gone /\ rounds'[i] > KeepLen
    /\ \A i, j \in 1..Len(rounds') : i < j => g[i] < g[j]

LEMMA WriteCarries ==
  ASSUME RoundsInv, setup.window = "off", NEW k \in Nat \ {0}, Evaluate(k)
  PROVE  \E gone \in 0..nPast - KeepLen : Moved(gone, k) /\ \E g : Carried(g, gone)
<1>1. FlowInv /\ nPast \in Nat /\ KeepLen \in Nat /\ rounds \in Seq(Nat) /\ Len(rounds) \in Nat
  BY Types DEF RoundsInv
<1>2. PICK gone \in 0..nPast - KeepLen :
          /\ Moved(gone, k)
          /\ \/ SlidesBy(gone, k) /\ KeepFrom = KeepLen + gone
             \/ gone = 0 /\ StaysBefore(k)
  BY CutFacts
<1>3. CASE gone = 0 /\ StaysBefore(k)
  <2> DEFINE g == [i \in 1..Len(rounds) |-> i]
  <2>1. rounds' = rounds
    BY <1>3 DEF StaysBefore
  <2>2. \A i \in 1..Len(rounds) : rounds[i] \in Nat /\ rounds[i] > KeepLen
    <3>1. \A i \in 1..Len(rounds) : rounds[i] \in Nat
      BY <1>1
    <3> QED
      BY <3>1 DEF RoundsInv, Boundaries, EndsARound
  <2>3. Carried(g, gone)
    BY <1>1, <1>3, <2>1, <2>2 DEF Carried
  <2> QED
    BY <1>2, <2>3
<1>4. CASE SlidesBy(gone, k) /\ KeepFrom = KeepLen + gone
  <2>1. rounds' = RoundsBehind(KeepFrom) /\ KeepFrom \in Int /\ KeepFrom >= KeepLen
    BY <1>1, <1>4, KeepFromFacts DEF SlidesBy
  <2>2. LeftOf(rounds', rounds, KeepFrom, Len(rounds))
    BY <1>1, <2>1, BehindFacts
  <2>3. PICK g \in [1..Len(rounds') -> 1..Len(rounds)] :
          /\ \A i \in 1..Len(rounds') :
                rounds[g[i]] > KeepFrom /\ rounds'[i] = rounds[g[i]] - (KeepFrom - KeepLen)
          /\ \A i, j \in 1..Len(rounds') : i < j => g[i] < g[j]
    BY <2>2 DEF LeftOf
  <2>4. \A i \in 1..Len(rounds') : rounds[g[i]] \in Nat
    BY <1>1, <2>3
  <2>5. \A i \in 1..Len(rounds') : rounds'[i] = rounds[g[i]] - gone /\ rounds'[i] > KeepLen
    BY <1>1, <1>4, <2>3, <2>4
  <2>6. Carried(g, gone)
    BY <2>3, <2>5 DEF Carried
  <2> QED
    BY <1>2, <2>6
<1> QED
  BY <1>2, <1>3, <1>4

LEMMA WriteKeepsRounds ==
  ASSUME RoundsInv, setup.window = "off", NEW k \in Nat \ {0}, Evaluate(k), turn' = turn
  PROVE  (\A i \in 1..Len(rounds) : EndsARound(rounds[i]))' /\ RoundsRise'
<1>1. /\ FlowInv /\ nPast \in Nat /\ nPast >= KeepLen /\ KeepLen \in Nat /\ rounds \in Seq(Nat)
      /\ Len(rounds) \in Nat /\ turn \in Nat /\ \A i \in 1..nPast : cache[i].turn \in Int
  BY Types DEF RoundsInv
<1>2. PICK gone \in 0..nPast - KeepLen : Moved(gone, k) /\ \E g : Carried(g, gone)
  BY WriteCarries
<1>3. PICK g : Carried(g, gone)
  BY <1>2
<1>4. nPast' = nPast - gone + k /\ rounds' \in Seq(Nat) /\ Len(rounds') \in Nat
  <2>1. rounds' \in Seq(Nat)
    BY <1>1, EvaluateFacts
  <2> QED
    BY <1>2, <2>1 DEF Moved, nPast
<1>5. \A i \in 1..Len(rounds') : g[i] \in 1..Len(rounds) /\ rounds[g[i]] \in Nat
  BY <1>1, <1>3 DEF Carried
<1>6. ASSUME NEW i \in 1..Len(rounds') PROVE EndsARound(rounds[i])'
  <2>1. PICK s \in Nat : s = rounds[g[i]] /\ EndsARound(s)
    BY <1>5 DEF RoundsInv, Boundaries
  <2>2. PICK r \in Nat : r = rounds'[i] /\ r = s - gone /\ r > KeepLen
    BY <1>3, <1>4, <2>1 DEF Carried
  <2>3. s <= nPast /\ cache[s].turn < turn /\ (s < nPast => cache[s].turn < cache[s + 1].turn)
    BY <2>1 DEF EndsARound
  <2>4. r \in KeepLen + 1..nPast - gone /\ r + gone = s
    BY <1>1, <2>2, <2>3
  <2>5. cache'[r] = cache[s]
    BY <1>2, <2>4 DEF Moved
  <2>6. CASE s < nPast
    <3>1. r + 1 \in KeepLen + 1..nPast - gone /\ (r + 1) + gone = s + 1
      BY <1>1, <2>4, <2>6
    <3>2. cache'[r + 1] = cache[s + 1]
      BY <1>2, <3>1 DEF Moved
    <3>3. KeepLen < r /\ r <= nPast' /\ cache'[r].turn < turn' /\ cache'[r].turn < cache'[r + 1].turn
      BY <1>1, <1>4, <2>3, <2>4, <2>5, <2>6, <3>2
    <3> QED
      BY <2>2, <3>3 DEF EndsARound
  <2>7. CASE ~(s < nPast)
    <3>1. 1 \in 1..k /\ nPast - gone + 1 = r + 1
      BY <1>1, <2>3, <2>4, <2>7
    <3>2. cache'[r + 1] = Token(written + 1)
      BY <1>2, <3>1 DEF Moved
    <3>3. cache'[r + 1].turn = turn
      BY <3>2 DEF Token
    <3>4. KeepLen < r /\ r <= nPast' /\ cache'[r].turn < turn' /\ cache'[r].turn < cache'[r + 1].turn
      BY <1>1, <1>4, <2>3, <2>4, <2>5, <3>3
    <3> QED
      BY <2>2, <3>4 DEF EndsARound
  <2> QED
    BY <2>6, <2>7
<1>7. RoundsRise'
  <2>1. SUFFICES ASSUME NEW i \in 1..Len(rounds'), NEW j \in 1..Len(rounds'), i < j
                 PROVE  rounds'[i] < rounds'[j]
    BY DEF RoundsRise
  <2>2. rounds[g[i]] < rounds[g[j]]
    BY <1>3, <1>5, <2>1 DEF Carried, RoundsInv, Boundaries, RoundsRise
  <2>3. rounds'[i] = rounds[g[i]] - gone /\ rounds'[j] = rounds[g[j]] - gone
    BY <1>3 DEF Carried
  <2>4. PICK x, y \in Nat : x = rounds[g[i]] /\ y = rounds[g[j]] /\ x < y
    BY <1>5, <2>2
  <2>5. rounds'[i] = x - gone /\ rounds'[j] = y - gone
    BY <2>3, <2>4, Zenon
  <2> QED
    BY <2>4, <2>5
<1> QED
  BY <1>6, <1>7

LEMMA RoundsInit == Init => RoundsInv
<1> SUFFICES ASSUME Init PROVE RoundsInv
  OBVIOUS
<1>1. FlowInv
  BY FlowInit
<1>2. rounds = <<>> /\ endedListen = FALSE
  BY DEF Init
<1>3. Boundaries
  BY <1>2 DEF Boundaries, RoundsRise, ListensAtEnd
<1> QED
  BY <1>1, <1>3 DEF RoundsInv

\* A new boundary at the end of the cache.
LEMMA DecodeEndKeepsRounds ==
  ASSUME RoundsInv, setup.window = "off", DecodeEnd, setup' = setup
  PROVE  Boundaries'
<1>1. /\ FlowInv /\ nPast \in Nat /\ KeepLen \in Nat /\ rounds \in Seq(Nat) /\ Len(rounds) \in Nat
      /\ turn \in Nat /\ \A i \in 1..nPast : cache[i].turn \in Int
  BY Types DEF RoundsInv
<1>2. cache' = cache /\ nPast' = nPast /\ phase' = "idle" /\ phase = "wrap"
  BY DEF DecodeEnd, nPast
<1>3. ListensAtEnd'
  BY <1>2 DEF ListensAtEnd
<1>4. \A i \in 1..Len(rounds) : EndsARound(rounds[i]) /\ rounds[i] \in Nat
  <2>1. \A i \in 1..Len(rounds) : rounds[i] \in Nat
    BY <1>1
  <2> QED
    BY <2>1 DEF RoundsInv, Boundaries
<1>5. CASE endedListen
  <2>1. KeepLen < nPast /\ cache[nPast].turn = turn
    BY <1>2, <1>5 DEF RoundsInv, Boundaries, ListensAtEnd
  <2>2. rounds' = Append(rounds, nPast) /\ turn' = turn + 1
    BY <1>5 DEF DecodeEnd
  <2>3. /\ Len(rounds') = Len(rounds) + 1 /\ rounds'[Len(rounds) + 1] = nPast
        /\ \A i \in 1..Len(rounds) : rounds'[i] = rounds[i]
    BY <1>1, <2>2
  <2>4. \A i \in 1..Len(rounds') : i \in 1..Len(rounds) \/ i = Len(rounds) + 1
    BY <1>1, <2>3
  <2>5. \A i \in 1..Len(rounds) : rounds[i] < nPast
    <3> TAKE i \in 1..Len(rounds)
    <3>1. rounds[i] \in Nat /\ rounds[i] <= nPast /\ cache[rounds[i]].turn < turn
      BY <1>4 DEF EndsARound
    <3>2. rounds[i] # nPast
      BY <1>1, <2>1, <3>1
    <3> QED
      BY <1>1, <3>1, <3>2
  <2>6. \A i \in 1..Len(rounds') : EndsARound(rounds[i])'
    <3>1. ASSUME NEW i \in 1..Len(rounds) PROVE EndsARound(rounds[i])'
      <4>1. PICK r \in Nat : r = rounds[i] /\ rounds'[i] = r /\ EndsARound(r)
        BY <1>4, <2>3
      <4>2. /\ KeepLen < r /\ r <= nPast' /\ cache'[r].turn < turn'
            /\ (r < nPast' => cache'[r].turn < cache'[r + 1].turn)
        <5>1. r \in 1..nPast
          BY <1>1, <4>1 DEF EndsARound
        <5>2. cache[r].turn \in Int
          BY <1>1, <5>1
        <5>3. KeepLen < r /\ r <= nPast /\ cache[r].turn < turn
              /\ (r < nPast => cache[r].turn < cache[r + 1].turn)
          BY <4>1 DEF EndsARound
        <5>4. cache[r].turn < turn + 1
          BY <1>1, <5>2, <5>3
        <5> QED
          BY <1>2, <2>2, <5>3, <5>4, Zenon
      <4> QED
        BY <4>1, <4>2 DEF EndsARound
    <3>2. /\ KeepLen < nPast /\ nPast <= nPast' /\ cache'[nPast].turn < turn'
          /\ ~(nPast < nPast')
      BY <1>1, <1>2, <2>1, <2>2
    <3>3. ASSUME NEW i \in 1..Len(rounds'), i = Len(rounds) + 1 PROVE EndsARound(rounds[i])'
      <4>1. rounds'[i] = nPast
        BY <2>3, <3>3
      <4> QED
        BY <1>2, <3>2, <4>1 DEF EndsARound
    <3> QED
      BY <2>4, <3>1, <3>3
  <2>7. RoundsRise'
    <3>1. SUFFICES ASSUME NEW i \in 1..Len(rounds'), NEW j \in 1..Len(rounds'), i < j
                   PROVE  rounds'[i] < rounds'[j]
      BY DEF RoundsRise
    <3>2. i \in 1..Len(rounds)
      BY <1>1, <2>3, <3>1
    <3>3. CASE j = Len(rounds) + 1
      BY <2>3, <2>5, <3>2, <3>3
    <3>4. CASE j \in 1..Len(rounds)
      BY <2>3, <3>1, <3>2, <3>4 DEF RoundsInv, Boundaries, RoundsRise
    <3> QED
      BY <2>4, <3>3, <3>4
  <2> QED
    BY <1>3, <2>6, <2>7 DEF Boundaries
<1>6. CASE ~endedListen
  <2>1. rounds' = rounds /\ turn' = turn
    BY <1>6 DEF DecodeEnd
  <2> QED
    BY <1>2, <1>3, <2>1 DEF RoundsInv, Boundaries, EndsARound, RoundsRise
<1> QED
  BY <1>5, <1>6

LEMMA RoundsStep == RoundsInv /\ [Next]_vars => RoundsInv'
<1> SUFFICES ASSUME RoundsInv, [Next]_vars PROVE RoundsInv'
  OBVIOUS
<1>1. FlowInv /\ FlowInv' /\ setup' = setup
  BY FlowStep, StepKinds DEF RoundsInv
<1>2. SUFFICES ASSUME setup.window = "off" PROVE Boundaries'
  BY <1>1 DEF RoundsInv, Boundaries
<1> DEFINE Good == (\A i \in 1..Len(rounds) : EndsARound(rounds[i])) /\ RoundsRise
<1>3. ASSUME NEW k \in Nat \ {0}, Evaluate(k), turn' = turn
      PROVE  Good' /\ (phase' \in {"close", "wrap"} => KeepLen < nPast' /\ cache'[nPast'].turn = turn')
  <2>1. Len(cache') > KeepLen /\ cache'[Len(cache')].turn = turn
    BY <1>1, <1>3, WriteKeepsOrder
  <2>2. nPast' = Len(cache')
    BY DEF nPast
  <2>3. Good'
    BY <1>2, <1>3, WriteKeepsRounds
  <2> HIDE DEF Good
  <2> QED
    BY <1>3, <2>1, <2>2, <2>3
<1>4. ASSUME NEW k \in Nat \ {0}, Evaluate(k), turn' = turn PROVE Boundaries'
  BY <1>3, <1>4 DEF Boundaries, ListensAtEnd
<1>5. ASSUME UNCHANGED <<cache, rounds, turn>>, ListensAtEnd' PROVE Boundaries'
  <2>1. nPast' = nPast
    BY <1>5 DEF nPast
  <2>2. Good
    BY <1>2 DEF RoundsInv, Boundaries
  <2> QED
    BY <1>5, <2>1, <2>2 DEF Boundaries, EndsARound, RoundsRise
<1>6. CASE UNCHANGED vars
  BY <1>6 DEF vars, book, talk, RoundsInv, Boundaries, EndsARound, RoundsRise, ListensAtEnd, nPast
<1>7. CASE PrefillBegin \/ PrefillEnd \/ EnforceEnd \/ DecodeRefused
  <2>1. UNCHANGED <<cache, rounds, turn>> /\ phase' \notin {"close", "wrap"}
    BY <1>7 DEF PrefillBegin, PrefillEnd, EnforceEnd, DecodeRefused, book
  <2> QED
    BY <1>5, <2>1 DEF ListensAtEnd
<1>8. CASE DecodeBegin
  <2>1. UNCHANGED <<cache, rounds, turn>> /\ phase' \notin {"close", "wrap"}
    BY <1>8 DEF DecodeBegin, book
  <2> QED
    BY <1>5, <2>1 DEF ListensAtEnd
<1>9. CASE SampleBreak
  <2>1. UNCHANGED <<cache, rounds, turn>> /\ ~endedListen /\ endedListen' = endedListen
    BY <1>1, <1>9 DEF SampleBreak, book, talk, FlowInv, Flow
  <2> QED
    BY <1>5, <2>1 DEF ListensAtEnd
<1>10. CASE PrefillPiece
  <2>1. PICK k \in setup.pieces : Evaluate(k)
    BY <1>10 DEF PrefillPiece
  <2>2. k \in Nat \ {0}
    BY <1>1, PieceFacts
  <2> QED
    BY <1>4, <1>10, <2>1, <2>2 DEF PrefillPiece, book
<1>11. CASE ForcedListen \/ ForcedUnitEnd \/ SampleContent \/ SampleEnd \/ ChunkEos \/ UnitEnd
  <2>1. Evaluate(1) /\ turn' = turn
    BY <1>11 DEF ForcedListen, ForcedUnitEnd, SampleContent, SampleEnd, ChunkEos, UnitEnd, book
  <2> QED
    BY <1>4, <2>1
<1>12. ~EnforceDrop
  BY <1>1, <1>2 DEF EnforceDrop, FlowInv, Flow
<1>13. CASE DecodeEnd
  BY <1>1, <1>2, <1>13, DecodeEndKeepsRounds
<1> QED
  BY <1>6, <1>7, <1>8, <1>9, <1>10, <1>11, <1>12, <1>13 DEF Next, Prefill, Enforce, Decode

\* Every recorded boundary lies inside the cache, exactly where a round ended.
THEOREM BoundariesHold == Spec => []BoundariesExact
<1>1. RoundsInv => BoundariesExact
  <2> SUFFICES ASSUME RoundsInv, setup.window = "off", NEW i \in 1..Len(rounds)
               PROVE  /\ KeepLen < rounds[i] /\ rounds[i] <= nPast
                      /\ i > 1 => rounds[i - 1] < rounds[i]
                      /\ cache[rounds[i]].turn < turn
                      /\ rounds[i] < nPast => cache[rounds[i]].turn < cache[rounds[i] + 1].turn
    BY DEF BoundariesExact
  <2>1. EndsARound(rounds[i]) /\ RoundsRise
    BY DEF RoundsInv, Boundaries
  <2>2. i > 1 => i - 1 \in 1..Len(rounds) /\ i - 1 < i
    BY Types DEF RoundsInv
  <2> QED
    BY <2>1, <2>2 DEF EndsARound, RoundsRise
<1> QED
  BY <1>1, RoundsInit, RoundsStep, PTL DEF Spec

\* A slide that has two boundaries to choose from cuts at one of them.
LEMMA CutAtARound ==
  ASSUME RoundsInv, [Next]_vars, setup.window = "off",
         Len(rounds) >= 2, nPast + (written' - written) - Len(cache') > 0
  PROVE  \E c \in 1..Len(rounds) : KeepLen + (nPast + (written' - written) - Len(cache')) = rounds[c]
<1>1. FlowInv /\ nPast \in Nat /\ written \in Nat /\ KeepLen \in Nat /\ Len(rounds) \in Nat
  BY Types DEF RoundsInv
<1>2. CASE Writes
  <2>1. PICK k \in setup.pieces \cup {1} : Evaluate(k)
    BY <1>2 DEF Writes
  <2>2. k \in Nat \ {0}
    BY <1>1, PieceFacts
  <2>3. PICK gone \in 0..nPast - KeepLen :
            /\ Moved(gone, k)
            /\ \/ SlidesBy(gone, k) /\ KeepFrom = KeepLen + gone
               \/ gone = 0 /\ StaysBefore(k)
    BY <2>1, <2>2, CutFacts
  <2>4. written' = written + k
    BY <1>1, <2>1, <2>2, EvaluateFacts
  <2>5. nPast + (written' - written) - Len(cache') = gone
    BY <1>1, <2>2, <2>3, <2>4 DEF Moved
  <2>6. SlidesBy(gone, k) /\ KeepFrom = KeepLen + gone
    BY <2>3, <2>5
  <2>7. PICK c \in 1..Len(rounds) - 1 : KeepFrom = rounds[c]
    BY <1>1, <2>6, KeepFromFacts DEF SlidesBy
  <2>8. c \in 1..Len(rounds)
    BY <1>1
  <2> QED
    BY <2>5, <2>6, <2>7, <2>8
<1>3. ~Drops
  BY <1>1 DEF Drops, FlowInv, Flow
<1>4. ~Elsewhere
  BY <1>1 DEF Elsewhere, nPast
<1> QED
  BY <1>1, <1>2, <1>3, <1>4, StepKinds

\* A slide never keeps a part of a round and drops the rest.
THEOREM RoundsKeptWhole == Spec => RoundsStayWhole
<1>1. RoundsInv /\ [Next]_vars =>
        [LET gone == nPast + (written' - written) - Len(cache')
         IN setup.window = "off" /\ gone > 0 /\ Len(rounds) >= 2 /\ KeepLen + gone < nPast =>
                cache[KeepLen + gone].turn < cache[KeepLen + gone + 1].turn]_vars
  <2> SUFFICES ASSUME RoundsInv, [Next]_vars, setup.window = "off", Len(rounds) >= 2,
                      nPast + (written' - written) - Len(cache') > 0,
                      KeepLen + (nPast + (written' - written) - Len(cache')) < nPast
               PROVE  LET gone == nPast + (written' - written) - Len(cache')
                      IN cache[KeepLen + gone].turn < cache[KeepLen + gone + 1].turn
    OBVIOUS
  <2>1. PICK c \in 1..Len(rounds) :
            KeepLen + (nPast + (written' - written) - Len(cache')) = rounds[c]
    BY CutAtARound
  <2>2. EndsARound(rounds[c])
    BY DEF RoundsInv, Boundaries
  <2> QED
    BY <2>1, <2>2 DEF EndsARound
<1> QED
  BY <1>1, RoundsInit, RoundsStep, PTL DEF Spec, RoundsStayWhole

-----------------------------------------------------------------------------
(***************************************************************************)
(* With no window on, and a reserve that every piece fits into, a deferred  *)
(* slide comes in time.  What the argument asks of the configuration is     *)
(* Roomy; the code sets target_keep and the reserves so, but compares no    *)
(* piece with the reserve.                                                  *)
(***************************************************************************)
Hard(s) == s.nCtx - s.forceReserve             \* where a slide is forced

Roomy(s) ==
    /\ s.window = "off"
    /\ s.forceReserve <= s.slideReserve
    /\ Preserve < Hard(s)
    /\ \A k \in s.pieces \cup {1} : k <= s.forceReserve /\ KeepLen + s.targetKeep + k < Hard(s)

\* Below the mark; or above it after a cut that left one boundary at most, so that the next
\* slide cuts by length.
Room ==
    \/ nPast < Hard(setup)
    \/ /\ Len(rounds) <= 1
       /\ nPast <= setup.nCtx
       /\ ~(endedListen /\ phase \in {"close", "wrap"})

RoomInv == RoundsInv /\ (Roomy(setup) => Room)

\* A cut at the last boundary but one leaves one boundary at most.
LEMMA LastCut ==
  ASSUME RoundsInv, setup.window = "off", rounds' = RoundsBehind(KeepFrom), Len(rounds) >= 2,
         KeepFrom = rounds[Len(rounds) - 1], KeepFrom >= KeepLen
  PROVE  Len(rounds') <= 1
<1>1. FlowInv /\ rounds \in Seq(Nat) /\ Len(rounds) \in Nat /\ KeepFrom \in Int
  <2>1. FlowInv
    BY DEF RoundsInv
  <2>2. rounds \in Seq(Nat) /\ KeepFrom \in Int
    BY <2>1, Types, KeepFromFacts
  <2> QED
    BY <2>1, <2>2
<1>1a. \A c \in 1..Len(rounds) : rounds[c] \in Nat
  BY <1>1
<1>2. rounds' \in Seq(Nat) /\ LeftOf(rounds', rounds, KeepFrom, Len(rounds))
  BY <1>1, BehindFacts
<1>3. PICK g \in [1..Len(rounds') -> 1..Len(rounds)] :
        /\ \A i \in 1..Len(rounds') : rounds[g[i]] > KeepFrom
        /\ \A i, j \in 1..Len(rounds') : i < j => g[i] < g[j]
  BY <1>2 DEF LeftOf
<1>4. \A i \in 1..Len(rounds') : g[i] = Len(rounds)
  <2> TAKE i \in 1..Len(rounds')
  <2>1. g[i] \in 1..Len(rounds) /\ Len(rounds) - 1 \in 1..Len(rounds)
    <3>1. g[i] \in 1..Len(rounds)
      BY <1>3
    <3>2. Len(rounds) - 1 \in 1..Len(rounds)
      BY <1>1
    <3> QED
      BY <3>1, <3>2
  <2>a. rounds[g[i]] > KeepFrom /\ rounds[g[i]] \in Nat
    <3>1. rounds[g[i]] > KeepFrom
      BY <1>3
    <3>2. rounds[g[i]] \in Nat
      BY <1>1a, <2>1
    <3> QED
      BY <3>1, <3>2
  <2>b. \A m, n \in 1..Len(rounds) : m < n => rounds[m] < rounds[n]
    BY DEF RoundsInv, Boundaries, RoundsRise
  <2>2. ~(g[i] < Len(rounds) - 1)
    <3>1. PICK m \in 1..Len(rounds) : m = g[i]
      BY <2>1
    <3>2. PICK n \in 1..Len(rounds) : n = Len(rounds) - 1
      BY <2>1
    <3>a. rounds[m] \in Nat /\ rounds[n] \in Nat
      BY <1>1a
    <3>b. rounds[m] > rounds[n]
      BY <2>a, <3>1, <3>2, Zenon
    <3>3. rounds[m] > rounds[n] /\ rounds[m] \in Nat /\ rounds[n] \in Nat
      BY <3>a, <3>b
    <3>4. ~(m < n)
      BY <2>b, <3>3
    <3> QED
      BY <3>1, <3>2, <3>4
  <2>3. g[i] # Len(rounds) - 1
    BY <1>1, <2>1, <2>a
  <2> QED
    BY <1>1, <2>1, <2>2, <2>3
<1>5. Len(rounds') \in Nat
  BY <1>2
<1>6. ASSUME Len(rounds') >= 2 PROVE FALSE
  <2>1. 1 \in 1..Len(rounds') /\ 2 \in 1..Len(rounds')
    BY <1>5, <1>6
  <2> QED
    BY <1>1, <1>3, <1>4, <2>1
<1> QED
  BY <1>5, <1>6

LEMMA RoomyFacts ==
  ASSUME FlowInv, Roomy(setup)
  PROVE  /\ setup.nCtx \in Nat /\ setup.slideReserve \in Nat /\ setup.forceReserve \in Nat
         /\ setup.targetKeep \in Nat /\ Hard(setup) \in Int
         /\ Hard(setup) = setup.nCtx - setup.forceReserve
         /\ setup.window = "off" /\ setup.forceReserve <= setup.slideReserve
         /\ Preserve < Hard(setup)
         /\ \A k \in setup.pieces \cup {1} :
                /\ k \in Nat \ {0} /\ k <= setup.forceReserve
                /\ KeepLen + setup.targetKeep + k < Hard(setup)
<1>1. /\ setup.nCtx \in Nat /\ setup.slideReserve \in Nat /\ setup.forceReserve \in Nat
      /\ setup.targetKeep \in Nat
  BY SetupTypes DEF FlowInv, TypeOK
<1>2. Hard(setup) = setup.nCtx - setup.forceReserve
  BY DEF Hard
<1> QED
  BY <1>1, <1>2, PieceFacts DEF Roomy

\* Where a write would pass the mark, the slide in front of it runs.
LEMMA ForcedSlideRuns ==
  ASSUME RoundsInv, Roomy(setup), NEW k \in setup.pieces \cup {1},
         nPast + k >= Hard(setup)
  PROVE  (\A ttsBusy \in BOOLEAN : SlideDue(k, ttsBusy)) /\ KeepFrom > KeepLen
<1>1. /\ FlowInv /\ nPast \in Nat /\ KeepLen \in Nat /\ nPast >= KeepLen /\ rounds \in Seq(Nat)
      /\ Len(rounds) \in Nat
  BY Types DEF RoundsInv
<1>2. /\ setup.nCtx \in Nat /\ setup.slideReserve \in Nat /\ setup.forceReserve \in Nat
      /\ setup.targetKeep \in Nat /\ Hard(setup) = setup.nCtx - setup.forceReserve
      /\ setup.window = "off" /\ setup.forceReserve <= setup.slideReserve
      /\ k \in Nat \ {0} /\ KeepLen + setup.targetKeep + k < Hard(setup)
  BY <1>1, RoomyFacts
<1>3. SlideForced(k)
  BY <1>2 DEF SlideForced
<1>4. nPast + k >= Max({KeepLen, setup.nCtx - setup.slideReserve})
  <2>1. setup.nCtx - setup.slideReserve \in Int /\ KeepLen \in Int
    BY <1>1, <1>2
  <2>2. Max({KeepLen, setup.nCtx - setup.slideReserve})
          = IF KeepLen >= setup.nCtx - setup.slideReserve THEN KeepLen
            ELSE setup.nCtx - setup.slideReserve
    BY <2>1, MaxOf
  <2>3. nPast + k >= KeepLen /\ nPast + k >= setup.nCtx - setup.slideReserve
    BY <1>1, <1>2
  <2> QED
    BY <2>2, <2>3
<1>5. \A ttsBusy \in BOOLEAN : SlideDue(k, ttsBusy)
  BY <1>3, <1>4 DEF SlideDue
<1>6. CASE Len(rounds) < 2
  <2>1. KeepFrom >= nPast - setup.targetKeep /\ KeepFrom \in Int
    BY <1>1, <1>6, KeepFromFacts
  <2>2. nPast - setup.targetKeep > KeepLen
    <3>1. \A p, q, n, t, h \in Int : n + q >= h /\ p + t + q < h => n - t > p
      OBVIOUS
    <3>2. nPast \in Int /\ KeepLen \in Int
      BY <1>1
    <3>3. setup.targetKeep \in Int /\ k \in Int
      BY <1>2
    <3>4. Hard(setup) \in Int
      BY <1>1, RoomyFacts
    <3> QED
      BY <1>2, <3>1, <3>2, <3>3, <3>4, Zenon
  <2>3. KeepFrom > KeepLen
    BY <1>1, <1>2, <2>1, <2>2
  <2> QED
    BY <1>5, <2>3
<1>7. CASE Len(rounds) >= 2
  <2>1. PICK c \in 1..Len(rounds) - 1 : KeepFrom >= rounds[c]
    BY <1>1, <1>7, KeepFromFacts
  <2>2. c \in 1..Len(rounds) /\ KeepFrom \in Int
    BY <1>1, KeepFromFacts
  <2>3. rounds[c] > KeepLen /\ rounds[c] \in Nat
    <3>1. rounds[c] \in Nat
      BY <1>1, <2>2
    <3> QED
      BY <1>2, <2>2, <3>1 DEF RoundsInv, Boundaries, EndsARound
  <2> QED
    BY <1>1, <1>5, <2>1, <2>2, <2>3
<1> QED
  BY <1>1, <1>6, <1>7

\* A token always ends below the mark; a piece may end above it, but then one boundary is left.
LEMMA WriteKeepsRoom ==
  ASSUME RoundsInv, Roomy(setup), Room, NEW k \in setup.pieces \cup {1}, Evaluate(k)
  PROVE  \/ nPast' < Hard(setup)
         \/ k # 1 /\ Len(rounds') <= 1 /\ nPast' <= setup.nCtx
<1>1. /\ FlowInv /\ nPast \in Nat /\ KeepLen \in Nat /\ nPast >= KeepLen /\ rounds \in Seq(Nat)
      /\ Len(rounds) \in Nat
  BY Types DEF RoundsInv
<1>2. /\ setup.nCtx \in Nat /\ setup.forceReserve \in Nat /\ setup.targetKeep \in Nat
      /\ Hard(setup) = setup.nCtx - setup.forceReserve /\ setup.window = "off"
      /\ k \in Nat \ {0} /\ k <= setup.forceReserve /\ KeepLen + setup.targetKeep + k < Hard(setup)
  BY <1>1, RoomyFacts
<1>3. PICK gone \in 0..nPast - KeepLen :
        /\ Moved(gone, k)
        /\ \/ SlidesBy(gone, k) /\ KeepFrom = KeepLen + gone
           \/ gone = 0 /\ StaysBefore(k)
  BY <1>2, CutFacts
<1>4. nPast' = nPast - gone + k
  BY <1>3 DEF Moved, nPast
<1>4a. /\ nPast \in Int /\ gone \in Int /\ KeepLen \in Int /\ setup.targetKeep \in Int /\ k \in Int
      /\ Hard(setup) \in Int
  BY <1>1, <1>2
<1>5. CASE nPast + k < Hard(setup)
  BY <1>1, <1>2, <1>4, <1>5
<1>6. CASE ~(nPast + k < Hard(setup))
  <2>1. (\A ttsBusy \in BOOLEAN : SlideDue(k, ttsBusy)) /\ KeepFrom > KeepLen
    BY <1>1, <1>2, <1>6, ForcedSlideRuns
  <2>2. KeepFrom \in Int
    BY <1>1, KeepFromFacts
  <2>3. ~StaysBefore(k)
    BY <1>1, <2>1, <2>2 DEF StaysBefore
  <2>4. SlidesBy(gone, k) /\ KeepFrom = KeepLen + gone /\ gone > 0
    BY <1>1, <1>3, <2>1, <2>3
  <2>5. CASE Len(rounds) < 2
    <3>1. KeepFrom = nPast - setup.targetKeep
      BY <1>1, <2>1, <2>5, KeepFromFacts
    <3>2. KeepLen + gone = nPast - setup.targetKeep
      BY <2>4, <3>1, Zenon
    <3>3. nPast - gone = KeepLen + setup.targetKeep
      BY <1>4a, <3>2
    <3> QED
      BY <1>2, <1>4, <3>3
  <2>6. CASE Len(rounds) >= 2
    <3>1. nPast < Hard(setup)
      BY <1>1, <2>6 DEF Room
    <3>2. PICK c \in 1..Len(rounds) - 1 :
              /\ KeepFrom = rounds[c]
              /\ rounds[c] >= nPast - setup.targetKeep \/ c = Len(rounds) - 1
      BY <1>1, <2>1, <2>6, KeepFromFacts
    <3>3. CASE rounds[c] >= nPast - setup.targetKeep
      <4>1. KeepFrom >= nPast - setup.targetKeep
        BY <3>2, <3>3
      <4>2. KeepLen + gone >= nPast - setup.targetKeep
        BY <2>4, <4>1
      <4>3. nPast - gone + k <= KeepLen + setup.targetKeep + k
        <5>1. \A p, g, n, t, q \in Int : p + g >= n - t => n - g + q <= p + t + q
          OBVIOUS
        <5> QED
          BY <1>4a, <4>2, <5>1, Zenon
      <4>4. \A x, y, z \in Int : x <= y /\ y < z => x < z
        OBVIOUS
      <4>5. /\ nPast - gone + k \in Int /\ KeepLen + setup.targetKeep + k \in Int
            /\ Hard(setup) \in Int /\ KeepLen + setup.targetKeep + k < Hard(setup)
        <5>1. \A p, g, n, t, q \in Int : n - g + q \in Int /\ p + t + q \in Int
          OBVIOUS
        <5> QED
          BY <1>2, <1>4a, <5>1, Zenon
      <4>6. nPast - gone + k < Hard(setup)
        BY <4>3, <4>4, <4>5
      <4> QED
        BY <1>4, <4>6
    <3>4. CASE c = Len(rounds) - 1
      <4>1. rounds' = RoundsBehind(KeepFrom) /\ KeepFrom >= KeepLen
        BY <1>1, <2>1, <2>2, <2>4 DEF SlidesBy
      <4>a. KeepFrom = rounds[Len(rounds) - 1]
        BY <3>2, <3>4, Zenon
      <4>2. Len(rounds') <= 1
        BY <1>2, <2>6, <4>1, <4>a, LastCut
      <4>3. \A n, g, q, h, f \in Int : n < h /\ g > 0 /\ q <= f =>
                n - g + q <= h + f /\ (q = 1 => n - g + q < h)
        OBVIOUS
      <4>4. Hard(setup) + setup.forceReserve = setup.nCtx
        BY <1>2
      <4>5. nPast' <= setup.nCtx /\ (k = 1 => nPast' < Hard(setup))
        <5>1. setup.forceReserve \in Int /\ k <= setup.forceReserve
          BY <1>2
        <5>2. /\ nPast - gone + k <= Hard(setup) + setup.forceReserve
              /\ k = 1 => nPast - gone + k < Hard(setup)
          BY <1>4a, <2>4, <3>1, <4>3, <5>1, Zenon
        <5> QED
          BY <1>4, <4>4, <5>2, Zenon
      <4> QED
        BY <4>2, <4>5
    <3> QED
      BY <3>2, <3>3, <3>4
  <2> QED
    BY <1>1, <2>5, <2>6
<1> QED
  BY <1>5, <1>6

LEMMA RoomInit == Init => RoomInv
<1> SUFFICES ASSUME Init PROVE RoomInv
  OBVIOUS
<1>1. RoundsInv /\ Preserve \in Nat
  BY RoundsInit, SetupTypes DEF Init
<1>2. nPast = Preserve
  BY <1>1 DEF Init, nPast
<1>3. Roomy(setup) => Room
  BY <1>2 DEF Roomy, Room
<1> QED
  BY <1>1, <1>3 DEF RoomInv

LEMMA RoomStep == RoomInv /\ [Next]_vars => RoomInv'
<1> SUFFICES ASSUME RoomInv, [Next]_vars PROVE RoomInv'
  OBVIOUS
<1>1. RoundsInv /\ RoundsInv' /\ FlowInv /\ setup' = setup
  BY RoundsStep, StepKinds DEF RoomInv, RoundsInv
<1>2. Roomy(setup)' <=> Roomy(setup)
  BY <1>1 DEF Roomy, Hard, Preserve
<1>3. SUFFICES ASSUME Roomy(setup) PROVE Room'
  BY <1>1, <1>2 DEF RoomInv
<1>4. Room /\ setup.window = "off"
  BY <1>3 DEF RoomInv, Roomy
<1>5. Hard(setup)' = Hard(setup)
  BY <1>1 DEF Hard
<1>6. ASSUME NEW k \in setup.pieces \cup {1}, Evaluate(k), k = 1 \/ phase' \notin {"close", "wrap"}
      PROVE  Room'
  <2>1. \/ nPast' < Hard(setup)
        \/ k # 1 /\ Len(rounds') <= 1 /\ nPast' <= setup.nCtx
    BY <1>1, <1>3, <1>4, <1>6, WriteKeepsRoom
  <2> QED
    BY <1>1, <1>5, <1>6, <2>1 DEF Room
<1>7. ASSUME UNCHANGED <<cache, rounds>>,
             endedListen' /\ phase' \in {"close", "wrap"} => endedListen /\ phase \in {"close", "wrap"}
      PROVE  Room'
  <2>1. nPast' = nPast
    BY <1>7 DEF nPast
  <2> QED
    BY <1>1, <1>4, <1>5, <1>7, <2>1 DEF Room
<1>8. CASE UNCHANGED vars
  BY <1>7, <1>8 DEF vars, talk
<1>9. CASE PrefillBegin \/ PrefillEnd \/ EnforceEnd \/ DecodeRefused
  <2>1. UNCHANGED <<cache, rounds>> /\ phase' \notin {"close", "wrap"}
    BY <1>9 DEF PrefillBegin, PrefillEnd, EnforceEnd, DecodeRefused
  <2> QED
    BY <1>7, <2>1
<1>10. CASE DecodeBegin
  <2>1. UNCHANGED <<cache, rounds>> /\ phase' \notin {"close", "wrap"}
    BY <1>10 DEF DecodeBegin
  <2> QED
    BY <1>7, <2>1
<1>11. CASE SampleBreak
  <2>1. UNCHANGED <<cache, rounds>> /\ ~endedListen /\ endedListen' = endedListen
    BY <1>1, <1>11 DEF SampleBreak, talk, FlowInv, Flow
  <2> QED
    BY <1>7, <2>1
<1>12. CASE PrefillPiece
  <2>1. PICK k \in setup.pieces : Evaluate(k)
    BY <1>12 DEF PrefillPiece
  <2>2. phase' = "more" /\ k \in setup.pieces \cup {1}
    BY <1>12 DEF PrefillPiece
  <2> QED
    BY <1>6, <2>1, <2>2
<1>13. CASE ForcedListen \/ ForcedUnitEnd \/ SampleContent \/ SampleEnd \/ ChunkEos \/ UnitEnd
  <2>1. Evaluate(1) /\ 1 \in setup.pieces \cup {1}
    BY <1>13 DEF ForcedListen, ForcedUnitEnd, SampleContent, SampleEnd, ChunkEos, UnitEnd
  <2> QED
    BY <1>6, <2>1
<1>14. ~EnforceDrop
  BY <1>1, <1>4 DEF EnforceDrop, FlowInv, Flow
<1>15. CASE DecodeEnd
  <2>1. cache' = cache /\ nPast' = nPast /\ phase' = "idle" /\ phase = "wrap"
    BY <1>15 DEF DecodeEnd, nPast
  <2>2. CASE endedListen
    <3>1. nPast < Hard(setup)
      BY <1>4, <2>1, <2>2 DEF Room
    <3> QED
      BY <1>5, <2>1, <3>1 DEF Room
  <2>3. CASE ~endedListen
    <3>1. rounds' = rounds
      BY <1>15, <2>3 DEF DecodeEnd
    <3> QED
      BY <1>7, <2>1, <3>1
  <2> QED
    BY <2>2, <2>3
<1> QED
  BY <1>8, <1>9, <1>10, <1>11, <1>12, <1>13, <1>14, <1>15 DEF Next, Prefill, Enforce, Decode

\* The cache never holds more than n_ctx tokens.
THEOREM FitsWithRoom == Spec => [](Roomy(setup) => ContextFits)
<1>1. RoomInv => (Roomy(setup) => ContextFits)
  <2> SUFFICES ASSUME RoomInv, Roomy(setup) PROVE nPast <= setup.nCtx
    BY DEF ContextFits
  <2>1. FlowInv /\ Room
    BY DEF RoomInv, RoundsInv
  <2>2. /\ nPast \in Nat /\ setup.nCtx \in Nat /\ setup.forceReserve \in Nat
        /\ Hard(setup) = setup.nCtx - setup.forceReserve
    BY <2>1, Types, RoomyFacts
  <2> QED
    BY <2>1, <2>2 DEF Room
<1> QED
  BY <1>1, RoomInit, RoomStep, PTL DEF Spec

-----------------------------------------------------------------------------
(***************************************************************************)
(* With a window on, unit_history accounts for every token behind the       *)
(* protected prefix.  A forced listen writes two tokens and registers no unit *)
(* (duplex_do_decode returns before its bookkeeping), so this is said of the *)
(* sessions that force none.                                                *)
(***************************************************************************)
AllRegistered == setup.window # "off" => setup.forceListen = 0

\* The tokens of the units s, one unit after the other behind the protected prefix of c.
UnitsAt(c, s) ==
    \A i \in 1..Len(s) : \A j \in 1..s[i].length :
        /\ c[Preserve + Upto(s, i - 1) + j].unit = s[i].id
        /\ c[Preserve + Upto(s, i - 1) + j].turn = s[i].turn

LEMMA EntryTypes ==
  ASSUME NEW s \in Seq(Entry)
  PROVE  /\ Len(s) \in Nat
         /\ \A i \in 1..Len(s) : /\ s[i] \in Entry
                                 /\ s[i].id \in Nat /\ s[i].length \in Nat \ {0} /\ s[i].turn \in Nat
<1>1. Len(s) \in Nat /\ \A i \in 1..Len(s) : s[i] \in Entry
  OBVIOUS
<1>2. \A e \in Entry : e.id \in Nat /\ e.length \in Nat \ {0} /\ e.turn \in Nat
  BY DEF Entry
<1> QED
  BY <1>1, <1>2

\* The place of a unit's token among all.
LEMMA PlaceFacts ==
  ASSUME NEW s \in Seq(Entry), NEW i \in 1..Len(s), NEW j \in 1..s[i].length
  PROVE  /\ Upto(s, i - 1) \in Nat /\ TotalLength(s) \in Nat
         /\ Upto(s, i - 1) + j \in 1..TotalLength(s)
<1>1. Len(s) \in Nat /\ s[i].length \in Nat \ {0}
  BY EntryTypes
<1>2. i - 1 \in 0..Len(s) /\ i \in 0..Len(s) /\ Len(s) \in i..Len(s) /\ Len(s) \in 0..Len(s)
  BY <1>1
<1>3. /\ Upto(s, i - 1) \in Nat /\ Upto(s, i) \in Nat /\ Upto(s, Len(s)) \in Nat
      /\ Upto(s, i) = Upto(s, i - 1) + s[i].length /\ TotalLength(s) = Upto(s, Len(s))
  BY <1>2, UptoFacts
<1>4. Upto(s, i) <= Upto(s, Len(s))
  BY <1>2, UptoMonotone
<1> QED
  BY <1>1, <1>3, <1>4

LEMMA UnitsAtKeep ==
  ASSUME NEW s \in Seq(Entry), NEW c, NEW d, UnitsAt(c, s), Preserve \in Nat,
         \A m \in Preserve + 1..Preserve + TotalLength(s) : d[m] = c[m]
  PROVE  UnitsAt(d, s)
<1>1. ASSUME NEW i \in 1..Len(s), NEW j \in 1..s[i].length
      PROVE  d[Preserve + Upto(s, i - 1) + j] = c[Preserve + Upto(s, i - 1) + j]
  <2>1. /\ Upto(s, i - 1) \in Nat /\ TotalLength(s) \in Nat
        /\ Upto(s, i - 1) + j \in 1..TotalLength(s)
    BY PlaceFacts
  <2>2. Preserve + Upto(s, i - 1) + j \in Preserve + 1..Preserve + TotalLength(s)
    BY <2>1
  <2> QED
    BY <2>2
<1> QED
  BY <1>1 DEF UnitsAt

LEMMA UnitsAtAppend ==
  ASSUME NEW s \in Seq(Entry), NEW u \in Entry, NEW c, UnitsAt(c, s),
         \A j \in 1..u.length : /\ c[Preserve + TotalLength(s) + j].unit = u.id
                                /\ c[Preserve + TotalLength(s) + j].turn = u.turn
  PROVE  UnitsAt(c, Append(s, u))
<1> DEFINE t == Append(s, u)
<1>1. /\ Len(t) = Len(s) + 1 /\ t[Len(s) + 1] = u /\ Len(s) \in Nat
      /\ \A i \in 1..Len(s) : t[i] = s[i]
  OBVIOUS
<1>2. \A n \in 0..Len(s) : Upto(t, n) = Upto(s, n)
  BY TotalAppend
<1>3. TotalLength(s) = Upto(s, Len(s))
  BY UptoFacts
<1> HIDE DEF t
<1>4. ASSUME NEW i \in 1..Len(s), NEW j \in 1..t[i].length
      PROVE  /\ c[Preserve + Upto(t, i - 1) + j].unit = t[i].id
             /\ c[Preserve + Upto(t, i - 1) + j].turn = t[i].turn
  <2>1. i - 1 \in 0..Len(s) /\ t[i] = s[i]
    BY <1>1
  <2>2. Upto(t, i - 1) = Upto(s, i - 1)
    BY <1>2, <2>1
  <2> QED
    BY <2>1, <2>2 DEF UnitsAt
<1>5. ASSUME NEW i \in 1..Len(t), i = Len(s) + 1, NEW j \in 1..t[i].length
      PROVE  /\ c[Preserve + Upto(t, i - 1) + j].unit = t[i].id
             /\ c[Preserve + Upto(t, i - 1) + j].turn = t[i].turn
  <2>1. i - 1 = Len(s) /\ Len(s) \in 0..Len(s) /\ t[i] = u
    BY <1>1, <1>5
  <2>2. Upto(t, i - 1) = TotalLength(s)
    BY <1>2, <1>3, <2>1
  <2> QED
    BY <2>1, <2>2
<1>6. \A i \in 1..Len(t) : i \in 1..Len(s) \/ i = Len(s) + 1
  BY <1>1
<1>7. UnitsAt(c, t)
  BY <1>4, <1>5, <1>6 DEF UnitsAt
<1> QED
  BY <1>7 DEF t

\* t is s without its first n entries.
Behind(s, t, n) ==
    /\ s \in Seq(Entry) /\ t \in Seq(Entry) /\ n \in 1..Len(s)
    /\ Len(t) = Len(s) - n
    /\ \A i \in 1..Len(t) : t[i] = s[n + i]

LEMMA UnitsAtDrop ==
  ASSUME NEW s, NEW t, NEW n, Behind(s, t, n)
  PROVE  /\ TotalLength(t) = TotalLength(s) - Upto(s, n)
         /\ \A c, d :
               /\ UnitsAt(c, s) /\ Preserve \in Nat
               /\ \A m \in Preserve + 1..Preserve + TotalLength(t) : d[m] = c[m + Upto(s, n)]
               => UnitsAt(d, t)
<1>0. /\ s \in Seq(Entry) /\ t \in Seq(Entry) /\ n \in 1..Len(s)
      /\ Len(t) = Len(s) - n /\ \A i \in 1..Len(t) : t[i] = s[n + i]
  BY DEF Behind
<1>1. Len(s) \in Nat /\ Len(t) \in Nat /\ n \in 0..Len(s) /\ Len(t) \in 0..Len(t)
  BY <1>0
<1>2. \A k \in 0..Len(t) : Upto(s, n + k) = Upto(s, n) + Upto(t, k)
  BY <1>0, <1>1, UptoBehind
<1>3. Upto(s, n) \in Nat /\ \A k \in 0..Len(t) : Upto(t, k) \in Nat
  BY <1>0, <1>1, UptoFacts
<1>4. TotalLength(t) = Upto(t, Len(t)) /\ TotalLength(s) = Upto(s, Len(s))
  BY <1>0, UptoFacts
<1>5. TotalLength(t) = TotalLength(s) - Upto(s, n)
  <2>1. n + Len(t) = Len(s)
    BY <1>0, <1>1
  <2>2. Upto(s, n + Len(t)) = Upto(s, n) + Upto(t, Len(t))
    BY <1>1, <1>2
  <2>3. Upto(s, Len(s)) = Upto(s, n) + Upto(t, Len(t))
    BY <2>1, <2>2, Zenon
  <2>4. Upto(t, Len(t)) \in Nat
    BY <1>1, <1>3
  <2>5. TotalLength(s) = Upto(s, n) + TotalLength(t) /\ TotalLength(t) \in Nat
    BY <1>4, <2>3, <2>4, Zenon
  <2> QED
    BY <1>3, <2>5
<1>6. SUFFICES ASSUME NEW c, NEW d, UnitsAt(c, s), Preserve \in Nat,
                      \A m \in Preserve + 1..Preserve + TotalLength(t) : d[m] = c[m + Upto(s, n)]
               PROVE  UnitsAt(d, t)
  BY <1>5
<1>7. ASSUME NEW i \in 1..Len(t), NEW j \in 1..t[i].length
      PROVE  /\ d[Preserve + Upto(t, i - 1) + j].unit = t[i].id
             /\ d[Preserve + Upto(t, i - 1) + j].turn = t[i].turn
  <2>1. /\ n + i \in 1..Len(s) /\ t[i] = s[n + i] /\ i - 1 \in 0..Len(t)
        /\ (n + i) - 1 = n + (i - 1)
    <3>1. t[i] = s[n + i]
      BY <1>0
    <3>2. n + i \in 1..Len(s) /\ i - 1 \in 0..Len(t) /\ (n + i) - 1 = n + (i - 1)
      BY <1>0, <1>1
    <3> QED
      BY <3>1, <3>2
  <2>2. Upto(t, i - 1) \in Nat /\ TotalLength(t) \in Nat /\ Upto(t, i - 1) + j \in 1..TotalLength(t)
    BY <1>0, PlaceFacts
  <2>3. Upto(s, (n + i) - 1) = Upto(s, n) + Upto(t, i - 1)
    BY <1>2, <2>1
  <2>4. PICK m \in Preserve + 1..Preserve + TotalLength(t) : m = Preserve + Upto(t, i - 1) + j
    <3>1. \A x, y \in Nat : x + j \in 1..y => Preserve + x + j \in Preserve + 1..Preserve + y
      BY <1>6
    <3>2. Preserve + Upto(t, i - 1) + j \in Preserve + 1..Preserve + TotalLength(t)
      BY <2>2, <3>1
    <3> QED
      BY <3>2, Zenon
  <2>5. m + Upto(s, n) = Preserve + Upto(s, (n + i) - 1) + j
    <3>1. \A x, y \in Nat : (Preserve + x + j) + y = Preserve + (y + x) + j
      <4>1. t[i].length \in Nat
        BY <1>0, EntryTypes
      <4> QED
        BY <1>6, <4>1
    <3> QED
      BY <1>3, <2>2, <2>3, <2>4, <3>1
  <2>6. d[m] = c[Preserve + Upto(s, (n + i) - 1) + j]
    BY <1>6, <2>4, <2>5
  <2>7. j \in 1..s[n + i].length
    BY <2>1
  <2>8. /\ c[Preserve + Upto(s, (n + i) - 1) + j].unit = s[n + i].id
        /\ c[Preserve + Upto(s, (n + i) - 1) + j].turn = s[n + i].turn
    BY <1>6, <2>1, <2>7 DEF UnitsAt
  <2> QED
    BY <2>1, <2>4, <2>6, <2>8
<1> QED
  BY <1>7 DEF UnitsAt

\* A unit is open: its tokens stand behind `start` and no entry counts them yet.
Open == phase \in {"prefill", "more", "sample", "limit", "step", "close", "wrap"}

Registered == IF Open THEN start ELSE nPast

OpenUnit == Open => \A m \in start + 1..nPast : cache[m].unit = nextUnit /\ cache[m].turn = turn

UnitsInOrder ==
    /\ \A i, j \in 1..Len(units) : i < j => units[i].turn <= units[j].turn
    /\ \A i \in 1..Len(units) : units[i].turn <= turn

Books == setup.window # "off" =>
    /\ phase \notin {"forced1", "forced2"}
    /\ Registered = Preserve + TotalLength(units)
    /\ Registered <= nPast
    /\ UnitsAt(cache, units)
    /\ OpenUnit
    /\ UnitsInOrder

BooksInv == FlowInv /\ Books

LEMMA BooksInit == Init => BooksInv
<1> SUFFICES ASSUME Init PROVE BooksInv
  OBVIOUS
<1>1. FlowInv /\ Preserve \in Nat
  BY FlowInit, SetupTypes DEF Init
<1>2. phase = "idle" /\ units = <<>>
  BY DEF Init
<1>3. nPast = Preserve
  BY <1>1 DEF Init, nPast
<1>4. units \in Seq(Entry) /\ Len(units) = 0
  BY <1>2
<1>5. TotalLength(units) = 0
  BY <1>4, UptoFacts
<1>6. Registered = Preserve /\ ~Open
  BY <1>2, <1>3 DEF Registered, Open
<1>7. UnitsAt(cache, units) /\ UnitsInOrder
  BY <1>4 DEF UnitsAt, UnitsInOrder
<1>8. Books
  BY <1>1, <1>2, <1>3, <1>5, <1>6, <1>7 DEF Books, OpenUnit
<1> QED
  BY <1>1, <1>8 DEF BooksInv

\* k tokens more of the open unit, behind what was there.
LEMMA WriteKeepsBooks ==
  ASSUME BooksInv, setup.window # "off", NEW k \in Nat \ {0}, Evaluate(k), setup' = setup,
         Len(cache') = nPast + k, UNCHANGED <<units, turn, nextUnit, start>>,
         Open, Open', phase' \notin {"forced1", "forced2"}
  PROVE  Books'
<1>1. /\ FlowInv /\ nPast \in Nat /\ KeepLen \in Nat /\ Preserve \in Nat /\ start \in Nat
      /\ units \in Seq(Entry) /\ nPast >= KeepLen
  BY Types DEF BooksInv
<1>2. /\ start = Preserve + TotalLength(units) /\ start <= nPast
      /\ UnitsAt(cache, units) /\ OpenUnit /\ UnitsInOrder
  BY DEF BooksInv, Books, Registered
<1>3. PICK gone \in 0..nPast - KeepLen : Moved(gone, k)
  BY <1>1, EvaluateFacts
<1>4. gone = 0 /\ nPast' = nPast + k
  BY <1>1, <1>3 DEF Moved, nPast
<1>5. \A m \in 1..nPast : cache'[m] = cache[m]
  <2> TAKE m \in 1..nPast
  <2>1. CASE m <= KeepLen
    BY <1>1, <1>3, <2>1 DEF Moved
  <2>2. CASE ~(m <= KeepLen)
    <3>1. m \in KeepLen + 1..nPast - gone /\ m + gone = m
      BY <1>1, <1>4, <2>2
    <3> QED
      BY <1>3, <3>1 DEF Moved
  <2> QED
    BY <2>1, <2>2
<1>6. \A m \in nPast + 1..nPast' : cache'[m].unit = nextUnit /\ cache'[m].turn = turn
  <2> TAKE m \in nPast + 1..nPast'
  <2>1. m - nPast \in 1..k /\ nPast - gone + (m - nPast) = m
    BY <1>1, <1>4
  <2>2. cache'[m] = Token(written + (m - nPast))
    BY <1>3, <2>1 DEF Moved
  <2> QED
    BY <2>2 DEF Token
<1>7. UnitsAt(cache, units)'
  <2>1. TotalLength(units) \in Nat
    <3>1. Len(units) \in 0..Len(units)
      BY <1>1
    <3> QED
      BY <1>1, <3>1, UptoFacts
  <2>2. \A m \in Preserve + 1..Preserve + TotalLength(units) : m \in 1..nPast
    BY <1>1, <1>2, <2>1
  <2>3. UnitsAt(cache', units)
    BY <1>1, <1>2, <1>5, <2>2, UnitsAtKeep
  <2> QED
    BY <2>3 DEF UnitsAt, Preserve
<1>8. \A m \in start + 1..nPast' : cache'[m].unit = nextUnit /\ cache'[m].turn = turn
  <2> TAKE m \in start + 1..nPast'
  <2>1. CASE m <= nPast
    <3>1. m \in start + 1..nPast /\ m \in 1..nPast
      BY <1>1, <2>1
    <3> QED
      BY <1>2, <1>5, <3>1 DEF OpenUnit
  <2>2. CASE ~(m <= nPast)
    <3>1. m \in nPast + 1..nPast'
      BY <1>1, <1>4, <2>2
    <3> QED
      BY <1>6, <3>1
  <2> QED
    BY <2>1, <2>2
<1>9. Registered' = Preserve + TotalLength(units) /\ Registered' <= nPast'
  BY <1>1, <1>2, <1>4 DEF Registered
<1>10. (TotalLength(units))' = TotalLength(units) /\ Preserve' = Preserve
  BY DEF Preserve
<1> QED
  BY <1>2, <1>7, <1>8, <1>9, <1>10 DEF Books, OpenUnit, UnitsInOrder

\* A step that touches neither the cache nor the units.
LEMMA StillBooks ==
  ASSUME BooksInv, UNCHANGED <<setup, cache, units, turn, nextUnit>>, Registered' = Registered,
         phase' \notin {"forced1", "forced2"},
         Open' => (Open \/ start' = nPast) /\ (Open => start' = start)
  PROVE  Books'
<1>1. nPast' = nPast /\ nPast \in Nat
  BY Types DEF nPast, BooksInv
<1>2. CASE setup.window = "off"
  BY <1>2 DEF Books
<1>3. CASE setup.window # "off"
  <2>1. /\ Registered = Preserve + TotalLength(units) /\ Registered <= nPast
        /\ UnitsAt(cache, units) /\ OpenUnit /\ UnitsInOrder
    BY <1>3 DEF BooksInv, Books
  <2>2. UnitsAt(cache, units)' /\ UnitsInOrder'
    BY <2>1 DEF UnitsAt, UnitsInOrder, Preserve
  <2>3. OpenUnit'
    BY <1>1, <2>1 DEF OpenUnit
  <2>4. Registered' = (Preserve + TotalLength(units))' /\ Registered' <= nPast'
    BY <1>1, <2>1 DEF Preserve
  <2> QED
    BY <2>2, <2>3, <2>4 DEF Books
<1> QED
  BY <1>2, <1>3

\* The end of a unit: its entry counts the tokens since `start`.
LEMMA RegisterKeepsBooks ==
  ASSUME BooksInv, setup.window # "off", Open, Register, UNCHANGED <<setup, cache>>,
         turn' \in Nat, turn' >= turn, ~Open', phase' \notin {"forced1", "forced2"}
  PROVE  Books'
<1>1. /\ FlowInv /\ nPast \in Nat /\ Preserve \in Nat /\ start \in Nat /\ units \in Seq(Entry)
      /\ turn \in Nat /\ nPast' = nPast /\ Preserve' = Preserve
  BY Types DEF BooksInv, nPast, Preserve
<1>2. /\ start = Preserve + TotalLength(units) /\ start <= nPast
      /\ UnitsAt(cache, units) /\ OpenUnit /\ UnitsInOrder
  BY DEF BooksInv, Books, Registered
<1>3. Registered' = nPast /\ OpenUnit'
  BY <1>1 DEF Registered, OpenUnit
<1>4. TotalLength(units) \in Nat
  <2>1. Len(units) \in 0..Len(units)
    BY <1>1
  <2> QED
    BY <1>1, <2>1, UptoFacts
<1>5. \A i \in 1..Len(units) : units[i].turn \in Nat
  BY <1>1, EntryTypes
<1>6. CASE nPast > start
  <2> DEFINE u == UnitEntry(nPast - start)
  <2>1. u \in Entry /\ u.id = nextUnit /\ u.turn = turn /\ u.length = nPast - start
    <3>1. u \in Entry
      BY <1>1, <1>6, Types DEF UnitEntry, Entry
    <3> QED
      BY <3>1 DEF UnitEntry
  <2>2. units' = Append(units, u)
    BY <1>6 DEF Register
  <2> HIDE DEF u
  <2>3. TotalLength(units') = TotalLength(units) + (nPast - start)
    BY <1>1, <2>1, <2>2, TotalAppend
  <2>4. Registered' = Preserve + TotalLength(units')
    BY <1>1, <1>2, <1>3, <1>4, <2>3
  <2>5. \A j \in 1..u.length : /\ cache[Preserve + TotalLength(units) + j].unit = u.id
                               /\ cache[Preserve + TotalLength(units) + j].turn = u.turn
    <3> TAKE j \in 1..u.length
    <3>1. start + j \in start + 1..nPast
      BY <1>1, <1>2, <2>1
    <3>2. cache[start + j].unit = u.id /\ cache[start + j].turn = u.turn
      BY <1>2, <2>1, <3>1 DEF OpenUnit
    <3> QED
      BY <1>2, <3>2
  <2>6. UnitsAt(cache, Append(units, u))
    BY <1>1, <1>2, <2>1, <2>5, UnitsAtAppend
  <2>7. UnitsAt(cache, units)'
    BY <2>2, <2>6 DEF UnitsAt, Preserve
  <2>8. UnitsInOrder'
    <3>1. /\ Len(units') = Len(units) + 1 /\ Len(units) \in Nat /\ units'[Len(units) + 1] = u
          /\ \A i \in 1..Len(units) : units'[i] = units[i]
      BY <1>1, <2>2
    <3>2. \A i \in 1..Len(units') : i \in 1..Len(units) \/ i = Len(units) + 1
      BY <3>1
    <3>3. \A i \in 1..Len(units) : units'[i].turn \in Nat /\ units'[i].turn <= turn
      BY <1>2, <1>5, <3>1 DEF UnitsInOrder
    <3>4. \A i \in 1..Len(units') : units'[i].turn <= turn /\ units'[i].turn \in Nat
      <4>1. ASSUME NEW i \in 1..Len(units'), i = Len(units) + 1
            PROVE  units'[i].turn = turn
        BY <2>1, <3>1, <4>1
      <4> QED
        BY <1>1, <3>2, <3>3, <4>1
    <3>5. ASSUME NEW i \in 1..Len(units'), NEW j \in 1..Len(units'), i < j
          PROVE  units'[i].turn <= units'[j].turn
      <4>1. i \in 1..Len(units)
        BY <3>1, <3>5
      <4>2. CASE j \in 1..Len(units)
        BY <1>2, <3>1, <3>5, <4>1, <4>2 DEF UnitsInOrder
      <4>3. CASE j = Len(units) + 1
        <5>1. units'[j].turn = turn
          BY <2>1, <3>1, <4>3
        <5> QED
          BY <3>3, <4>1, <5>1
      <4> QED
        BY <3>2, <4>2, <4>3
    <3>6. \A i \in 1..Len(units') : units'[i].turn <= turn'
      BY <1>1, <3>4
    <3> QED
      BY <3>5, <3>6 DEF UnitsInOrder
  <2>9. (TotalLength(units))' = TotalLength(units')
    BY Zenon DEF TotalLength
  <2> QED
    BY <1>1, <1>3, <2>4, <2>7, <2>8, <2>9 DEF Books
<1>7. CASE ~(nPast > start)
  <2>1. units' = units /\ nPast = start
    BY <1>1, <1>2, <1>7 DEF Register
  <2>2. UnitsAt(cache, units)' /\ Registered' = (Preserve + TotalLength(units))'
    BY <1>2, <1>3, <2>1 DEF UnitsAt, Preserve
  <2>3. UnitsInOrder'
    <3>1. \A i \in 1..Len(units) : units[i].turn <= turn'
      BY <1>1, <1>2, <1>5 DEF UnitsInOrder
    <3> QED
      BY <1>2, <2>1, <3>1 DEF UnitsInOrder
  <2> QED
    BY <1>1, <1>3, <2>2, <2>3 DEF Books
<1> QED
  BY <1>6, <1>7

\* A drop takes units from the head: those of one turn, or the first.
HeadGone(n) ==
    /\ cache' = Without(cache, Preserve, Upto(units, n))
    /\ units' = SubSeq(units, n + 1, Len(units))
    /\ CanDropTurn => /\ \A i \in 1..n : units[i].turn = units[1].turn
                      /\ n < Len(units) => units[n + 1].turn # units[1].turn

LEMMA DropTakesHead ==
  ASSUME BooksInv, setup.window # "off", phase = "enforce", DropTurn \/ DropUnit
  PROVE  /\ nPast = Preserve + TotalLength(units)
         /\ \E n \in 1..Len(units) : Upto(units, n) \in 1..nPast - Preserve /\ HeadGone(n)
<1>1. /\ FlowInv /\ nPast \in Nat /\ Preserve \in Nat /\ units \in Seq(Entry) /\ Len(units) \in Nat
  BY Types DEF BooksInv
<1>2. nPast = Preserve + TotalLength(units)
  BY DEF BooksInv, Books, Registered, Open
<1>3. \A i \in 1..Len(units) : units[i].length \in Nat \ {0}
  BY <1>1, EntryTypes
<1>4. \A n \in 1..Len(units) : Upto(units, n) \in 1..nPast - Preserve
  <2> TAKE n \in 1..Len(units)
  <2>1. /\ n \in 0..Len(units) /\ n - 1 \in 0..Len(units) /\ Len(units) \in n..Len(units)
        /\ Len(units) \in 0..Len(units)
    BY <1>1
  <2>2. /\ Upto(units, n) \in Nat /\ Upto(units, n - 1) \in Nat /\ Upto(units, Len(units)) \in Nat
        /\ Upto(units, n) = Upto(units, n - 1) + units[n].length
        /\ TotalLength(units) = Upto(units, Len(units))
    BY <1>1, <2>1, UptoFacts
  <2>3. Upto(units, n) <= Upto(units, Len(units))
    BY <1>1, <2>1, UptoMonotone
  <2>4. units[n].length \in Nat \ {0}
    BY <1>3
  <2>5. Upto(units, n) >= 1
    BY <2>2, <2>4
  <2>6. nPast - Preserve = Upto(units, Len(units))
    BY <1>1, <1>2, <2>2
  <2> QED
    BY <2>2, <2>3, <2>5, <2>6
<1>5. CASE TurnGone
  <2>1. PICK n \in 1..Len(units) :
          /\ \A i \in 1..n : units[i].turn = units[1].turn
          /\ n < Len(units) => units[n + 1].turn # units[1].turn
          /\ cache' = Without(cache, Preserve, Upto(units, n))
          /\ units' = SubSeq(units, n + 1, Len(units))
    BY <1>5 DEF TurnGone
  <2>2. HeadGone(n)
    BY <2>1 DEF HeadGone
  <2> QED
    BY <1>2, <1>4, <2>2
<1>6. CASE UnitGone
  <2>1. PICK n \in 1..Len(units) :
          /\ ~CanDropTurn
          /\ \A i \in 1..n - 1 : units[i].length > nPast - Preserve
          /\ cache' = Without(cache, Preserve, units[n].length)
          /\ units' = RemoveAt(units, n)
    BY <1>6 DEF UnitGone
  <2>2. 1 \in 1..Len(units) /\ 1 - 1 = 0
    BY <1>1
  <2>3. Upto(units, 1) = units[1].length
    <3>1. Upto(units, 1) = Upto(units, 1 - 1) + units[1].length /\ Upto(units, 0) = 0
      BY <1>1, <2>2, UptoFacts
    <3>2. units[1].length \in Nat
      BY <1>3, <2>2
    <3> QED
      BY <2>2, <3>1, <3>2
  <2>4. n = 1
    <3> SUFFICES ASSUME n # 1 PROVE FALSE
      OBVIOUS
    <3>1. 1 \in 1..n - 1
      BY <1>1
    <3>2. units[1].length > nPast - Preserve
      BY <2>1, <3>1
    <3>3. Upto(units, 1) <= nPast - Preserve /\ Upto(units, 1) \in Nat
      BY <1>1, <1>4, <2>2
    <3> QED
      BY <1>1, <2>3, <3>2, <3>3
  <2>5. RemoveAt(units, 1) = SubSeq(units, 1 + 1, Len(units))
    <3>1. SubSeq(units, 1, 1 - 1) = <<>> /\ SubSeq(units, 1 + 1, Len(units)) \in Seq(Entry)
      BY <1>1, <2>2
    <3>2. <<>> \o SubSeq(units, 1 + 1, Len(units)) = SubSeq(units, 1 + 1, Len(units))
      BY <3>1
    <3> QED
      BY <3>1, <3>2 DEF RemoveAt
  <2>6. /\ cache' = Without(cache, Preserve, Upto(units, 1))
        /\ units' = SubSeq(units, 1 + 1, Len(units))
    BY <2>1, <2>3, <2>4, <2>5
  <2>7. HeadGone(1)
    BY <2>1, <2>6, Zenon DEF HeadGone
  <2> QED
    BY <1>2, <1>4, <2>2, <2>7
<1> QED
  BY <1>1, <1>5, <1>6, DropFacts

LEMMA DropKeepsBooks ==
  ASSUME BooksInv, setup.window # "off", Drops, setup' = setup
  PROVE  Books'
<1>1. /\ FlowInv /\ nPast \in Nat /\ Preserve \in Nat /\ units \in Seq(Entry) /\ Len(units) \in Nat
      /\ cache \in Seq(Tokens) /\ nPast = Len(cache)
  BY Types DEF BooksInv
<1>2. UnitsAt(cache, units) /\ UnitsInOrder
  BY DEF BooksInv, Books
<1>3. nPast = Preserve + TotalLength(units)
  BY DropTakesHead DEF Drops
<1>4. PICK n \in 1..Len(units) : Upto(units, n) \in 1..nPast - Preserve /\ HeadGone(n)
  BY DropTakesHead DEF Drops
<1>5. PICK gone \in Nat : gone = Upto(units, n) /\ gone > 0 /\ gone <= nPast - Preserve
  BY <1>1, <1>4
<1>6. Dropped(gone)
  <2>1. cache' = Without(cache, Preserve, gone)
    BY <1>4, <1>5, Zenon DEF HeadGone
  <2> QED
    BY <1>1, <1>5, <2>1, DroppedFacts
<1>7. units' = SubSeq(units, n + 1, Len(units))
  BY <1>4 DEF HeadGone
<1>8. /\ units' \in Seq(Entry) /\ Len(units') = Len(units) - n
      /\ \A i \in 1..Len(units') : units'[i] = units[n + i] /\ n + i \in 1..Len(units)
  BY <1>1, <1>7
<1>9. nPast' = nPast - gone
  BY <1>6 DEF Dropped, nPast
<1>10. TotalLength(units') \in Nat /\ TotalLength(units) \in Nat
  <2>1. Len(units') \in 0..Len(units') /\ Len(units) \in 0..Len(units)
    BY <1>1, <1>8
  <2> QED
    BY <1>1, <1>8, <2>1, UptoFacts
<1>11. UnitsAt(cache', units') /\ Preserve + TotalLength(units') = nPast - gone
  <2>1. Behind(units, units', n)
    BY <1>1, <1>8 DEF Behind
  <2>2. TotalLength(units') = TotalLength(units) - gone
    BY <1>5, <2>1, UnitsAtDrop
  <2>3. Preserve + TotalLength(units') = nPast - gone
    BY <1>1, <1>3, <1>5, <1>10, <2>2
  <2>4. \A m \in Preserve + 1..Preserve + TotalLength(units') : cache'[m] = cache[m + Upto(units, n)]
    BY <1>5, <1>6, <2>3 DEF Dropped
  <2>5. UnitsAt(cache', units')
    BY <1>1, <1>2, <2>1, <2>4, UnitsAtDrop
  <2> QED
    BY <2>3, <2>5
<1>12. phase' = "enforce" /\ UNCHANGED <<turn, nextUnit, start>>
  BY DEF Drops
<1>13. ~Open' /\ Registered' = nPast' /\ OpenUnit'
  BY <1>12 DEF Open, Registered, OpenUnit
<1>14. nPast' = Preserve + TotalLength(units') /\ nPast' \in Nat
  <2>1. nPast' = Preserve + TotalLength(units')
    BY <1>9, <1>11, Zenon
  <2>2. \A x \in Nat : Preserve + x \in Nat
    BY <1>1
  <2> QED
    BY <1>10, <2>1, <2>2
<1>15. UnitsInOrder'
  <2>1. \A i \in 1..Len(units') : units'[i].turn <= turn'
    BY <1>2, <1>8, <1>12 DEF UnitsInOrder
  <2>2. ASSUME NEW i \in 1..Len(units'), NEW j \in 1..Len(units'), i < j
        PROVE  units'[i].turn <= units'[j].turn
    <3>1. n + i < n + j
      BY <1>1, <2>2
    <3> QED
      BY <1>2, <1>8, <2>2, <3>1 DEF UnitsInOrder
  <2> QED
    BY <2>1, <2>2 DEF UnitsInOrder
<1>16. UnitsAt(cache, units)' /\ Preserve' = Preserve /\ (TotalLength(units))' = TotalLength(units')
  <2>1. UnitsAt(cache, units)'
    BY <1>11 DEF UnitsAt, Preserve
  <2> QED
    BY <2>1, Zenon DEF Preserve, TotalLength
<1>17. Registered' = (Preserve + TotalLength(units))' /\ Registered' <= nPast'
  BY <1>13, <1>14, <1>16
<1> QED
  BY <1>12, <1>13, <1>15, <1>16, <1>17 DEF Books

LEMMA BooksStep ==
  ASSUME BooksInv, [Next]_vars, [NoSlide]_vars, AllRegistered
  PROVE  BooksInv'
<1>1. FlowInv /\ FlowInv' /\ setup' = setup
  BY FlowStep, StepKinds DEF BooksInv
<1>2. SUFFICES ASSUME setup.window # "off" PROVE Books'
  BY <1>1 DEF BooksInv, Books
<1>3. phase \notin {"forced1", "forced2"} /\ nPast \in Nat /\ written \in Nat
  BY <1>1, <1>2, Types DEF BooksInv, Books
<1>4. /\ Registered = (IF Open THEN start ELSE nPast)
      /\ Registered' = (IF Open' THEN start' ELSE nPast')
  BY DEF Registered
<1>5. ASSUME NEW k \in Nat \ {0}, Evaluate(k), phase # "enforce",
             UNCHANGED <<units, turn, nextUnit, start>>,
             Open, Open', phase' \notin {"forced1", "forced2"}
      PROVE  Books'
  <2>1. written' = written + k
    BY <1>1, <1>5, EvaluateFacts
  <2>2. vars' # vars
    BY <1>3, <2>1, <1>5 DEF vars
  <2>3. Len(cache') - nPast = written' - written
    BY <1>2, <1>5, <2>2 DEF NoSlide
  <2>4. Len(cache') \in Nat
    <3>1. cache' \in Seq(Tokens)
      BY <1>1, <1>5, EvaluateFacts
    <3> QED
      BY <3>1
  <2>5. Len(cache') = nPast + k
    BY <1>3, <1>5, <2>1, <2>3, <2>4
  <2> QED
    BY <1>1, <1>2, <1>5, <2>5, WriteKeepsBooks
<1>6. CASE UNCHANGED vars
  <2>1. Registered' = Registered /\ (Open' => Open)
    BY <1>6 DEF vars, Registered, Open, nPast
  <2> QED
    BY <1>3, <1>6, <2>1, StillBooks DEF vars, book
<1>7. CASE PrefillBegin
  <2>1. ~Open /\ Open' /\ start' = nPast /\ phase' \notin {"forced1", "forced2"}
    BY <1>7 DEF PrefillBegin, Open
  <2> QED
    BY <1>1, <1>4, <1>7, <2>1, StillBooks DEF PrefillBegin, book
<1>8. CASE EnforceEnd \/ DecodeRefused
  <2>1. ~Open /\ ~Open' /\ phase' \notin {"forced1", "forced2"} /\ cache' = cache
    BY <1>8 DEF EnforceEnd, DecodeRefused, Open
  <2>2. nPast' = nPast
    BY <2>1 DEF nPast
  <2> QED
    BY <1>1, <1>4, <1>8, <2>1, <2>2, StillBooks DEF EnforceEnd, DecodeRefused, book
<1>9. CASE DecodeBegin
  <2>1. ~(forced < setup.forceListen)
    <3>1. setup.forceListen = 0 /\ forced \in 0..setup.forceListen
      BY <1>1, <1>2 DEF AllRegistered, FlowInv, TypeOK
    <3> QED
      BY <3>1
  <2>2. ~Open /\ Open' /\ start' = nPast /\ phase' = "sample"
    BY <1>9, <2>1 DEF DecodeBegin, Open
  <2> QED
    BY <1>1, <1>4, <1>9, <2>2, StillBooks DEF DecodeBegin, book
<1>10. CASE SampleBreak
  <2>1. Open /\ Open' /\ start' = start /\ phase' \notin {"forced1", "forced2"}
    BY <1>10 DEF SampleBreak, Open
  <2> QED
    BY <1>1, <1>4, <1>10, <2>1, StillBooks DEF SampleBreak, book
<1>11. CASE PrefillPiece
  <2>1. PICK k \in setup.pieces : Evaluate(k)
    BY <1>11 DEF PrefillPiece
  <2>2. k \in Nat \ {0}
    BY <1>1, PieceFacts
  <2>3. Open /\ Open' /\ phase # "enforce" /\ phase' = "more"
    BY <1>11 DEF PrefillPiece, Open
  <2> QED
    BY <1>5, <1>11, <2>1, <2>2, <2>3 DEF PrefillPiece, book
<1>12. CASE SampleContent
  <2>1. phase' \in {"limit", "step", "sample"}
    BY <1>12 DEF SampleContent, AfterToken
  <2>2. Open /\ Open' /\ phase # "enforce" /\ phase' \notin {"forced1", "forced2"}
    BY <1>12, <2>1 DEF SampleContent, Open
  <2>3. Evaluate(1) /\ UNCHANGED <<units, turn, nextUnit, start>>
    BY <1>12 DEF SampleContent, book
  <2> QED
    BY <1>5, <2>2, <2>3
<1>13. CASE SampleEnd \/ ChunkEos \/ UnitEnd
  <2>1. Open /\ Open' /\ phase # "enforce" /\ phase' \notin {"forced1", "forced2"}
    BY <1>13 DEF SampleEnd, ChunkEos, UnitEnd, Open
  <2>2. Evaluate(1) /\ UNCHANGED <<units, turn, nextUnit, start>>
    BY <1>13 DEF SampleEnd, ChunkEos, UnitEnd, book
  <2> QED
    BY <1>5, <2>1, <2>2
<1>14. ~ForcedListen /\ ~ForcedUnitEnd
  BY <1>3 DEF ForcedListen, ForcedUnitEnd
<1>15. CASE PrefillEnd
  <2>1. /\ Open /\ ~Open' /\ phase' \notin {"forced1", "forced2"} /\ Register
        /\ cache' = cache /\ turn' = turn
    BY <1>15 DEF PrefillEnd, Open
  <2>2. turn' \in Nat /\ turn' >= turn
    BY <1>1, <2>1, Types
  <2> QED
    BY <1>1, <1>2, <2>1, <2>2, RegisterKeepsBooks
<1>16. CASE DecodeEnd
  <2>1. /\ Open /\ ~Open' /\ phase' \notin {"forced1", "forced2"} /\ Register
        /\ cache' = cache /\ (turn' = turn \/ turn' = turn + 1)
    BY <1>16 DEF DecodeEnd, ResponseEntry, Open
  <2>2. turn' \in Nat /\ turn' >= turn
    BY <1>1, <2>1, Types
  <2> QED
    BY <1>1, <1>2, <2>1, <2>2, RegisterKeepsBooks
<1>17. CASE EnforceDrop
  <2>1. Drops
    BY <1>17 DEF EnforceDrop, Drops
  <2> QED
    BY <1>1, <1>2, <2>1, DropKeepsBooks
<1> QED
  BY <1>6, <1>7, <1>8, <1>9, <1>10, <1>11, <1>12, <1>13, <1>14, <1>15, <1>16, <1>17
  DEF Next, Prefill, Enforce, Decode

\* When no unit is open the cache is the protected prefix and then the units of unit_history.
THEOREM BooksBalance == Spec /\ WindowAlone /\ []AllRegistered => []Accounted
<1>1. BooksInv => Accounted
  <2> SUFFICES ASSUME BooksInv, setup.window # "off", phase \in {"idle", "enforce", "filled"}
               PROVE  /\ nPast = Preserve + TotalLength(units)
                      /\ \A i \in 1..Len(units) : \A j \in 1..units[i].length :
                            cache[Before(i) + j].unit = units[i].id
    BY DEF Accounted
  <2>1. Registered = nPast
    BY DEF Registered, Open
  <2>2. \A i : Before(i) = Preserve + Upto(units, i - 1)
    BY DEF Before, Upto
  <2> QED
    BY <2>1, <2>2 DEF BooksInv, Books, UnitsAt
<1> QED
  BY <1>1, BooksInit, BooksStep, PTL DEF Spec, WindowAlone

\* In turn mode a drop takes a finished turn as a whole.
LEMMA TurnLeaves ==
  ASSUME BooksInv, [Next]_vars, setup.window = "turn", EnforceDrop, cache[Preserve + 1].turn < turn
  PROVE  \A i \in Preserve + 1..Len(cache') : cache'[i].turn > cache[Preserve + 1].turn
<1>1. /\ FlowInv /\ FlowInv' /\ nPast \in Nat /\ Preserve \in Nat /\ units \in Seq(Entry)
      /\ Len(units) \in Nat /\ cache \in Seq(Tokens) /\ nPast = Len(cache)
      /\ \A i \in 1..nPast : cache[i].turn \in Int
  BY Types, FlowStep DEF BooksInv
<1>2. phase = "enforce" /\ (DropTurn \/ DropUnit) /\ setup.window # "off"
  BY DEF EnforceDrop
<1>3. UnitsAt(cache, units) /\ UnitsInOrder
  BY <1>2 DEF BooksInv, Books
<1>4. nPast = Preserve + TotalLength(units) /\ \E n \in 1..Len(units) : HeadGone(n)
  BY <1>2, DropTakesHead
<1>5. PICK n \in 1..Len(units) : Upto(units, n) \in 1..nPast - Preserve /\ HeadGone(n)
  BY <1>2, DropTakesHead
<1>6. \A i \in 1..Len(units) : units[i].length \in Nat \ {0} /\ units[i].turn \in Nat
  BY <1>1, EntryTypes
\* the first token of a unit has the unit's turn
<1>7. ASSUME NEW i \in 1..Len(units)
      PROVE  cache[Preserve + Upto(units, i - 1) + 1].turn = units[i].turn
  <2>1. 1 \in 1..units[i].length
    BY <1>6
  <2> QED
    BY <1>3, <2>1 DEF UnitsAt
<1>8. cache[Preserve + 1].turn = units[1].turn
  <2>1. 1 \in 1..Len(units) /\ 1 - 1 = 0
    BY <1>1
  <2>2. Upto(units, 1 - 1) = 0
    BY <1>1, <2>1, UptoFacts
  <2>3. Preserve + Upto(units, 1 - 1) + 1 = Preserve + 1
    BY <1>1, <2>2
  <2>4. cache[Preserve + Upto(units, 1 - 1) + 1].turn = units[1].turn
    BY <1>7, <2>1
  <2> QED
    BY <2>3, <2>4
<1>9. CanDropTurn
  <2>1. units # <<>> /\ Head(units) = units[1]
    BY <1>1
  <2>2. PICK k \in 1..Len(units) : OldestTurn = SubSeq(units, 1, k)
    BY <1>1, <2>1, OldestFacts
  <2>3. TotalLength(OldestTurn) = Upto(units, k)
    BY <2>2 DEF Upto
  <2>4. k \in 0..Len(units) /\ Len(units) \in k..Len(units) /\ Len(units) \in 0..Len(units)
    BY <1>1
  <2>5. /\ Upto(units, k) <= Upto(units, Len(units)) /\ TotalLength(units) = Upto(units, Len(units))
        /\ Upto(units, k) \in Nat /\ Upto(units, Len(units)) \in Nat
    BY <1>1, <2>4, UptoFacts, UptoMonotone
  <2>6. nPast - Preserve >= TotalLength(OldestTurn)
    BY <1>1, <1>4, <2>3, <2>5
  <2>7. Droppable(TotalLength(OldestTurn))
    BY <2>6 DEF Droppable
  <2> QED
    BY <1>8, <2>1, <2>7 DEF CanDropTurn
<1>10. /\ units[n].turn = units[1].turn
       /\ n < Len(units) => units[n + 1].turn # units[1].turn
       /\ cache' = Without(cache, Preserve, Upto(units, n))
  <2>1. n \in 1..n
    BY <1>1
  <2> QED
    BY <1>5, <1>9, <2>1 DEF HeadGone
<1>11. PICK gone \in Nat : gone = Upto(units, n) /\ gone > 0 /\ gone <= nPast - Preserve
  BY <1>1, <1>5
<1>12. Dropped(gone)
  <2>1. cache' = Without(cache, Preserve, gone)
    BY <1>10, <1>11, Zenon
  <2> QED
    BY <1>1, <1>11, <2>1, DroppedFacts
<1>13. CASE n = Len(units)
  <2>1. TotalLength(units) = Upto(units, n)
    BY <1>1, <1>13, UptoFacts
  <2>2. Len(cache') = Preserve
    BY <1>1, <1>4, <1>11, <1>12, <2>1 DEF Dropped
  <2> QED
    BY <1>1, <2>2
<1>14. CASE n < Len(units)
  <2>1. n + 1 \in 1..Len(units) /\ (n + 1) - 1 = n /\ 1 \in 1..Len(units) /\ 1 < n + 1
    BY <1>1, <1>14
  <2>2. cache[Preserve + gone + 1].turn = units[n + 1].turn
    <3>1. cache[Preserve + Upto(units, (n + 1) - 1) + 1].turn = units[n + 1].turn
      BY <1>7, <2>1
    <3>2. Preserve + Upto(units, (n + 1) - 1) + 1 = Preserve + gone + 1
      BY <1>11, <2>1, Zenon
    <3> QED
      BY <3>1, <3>2
  <2>3. units[n + 1].turn > units[1].turn
    <3>1. units[1].turn <= units[n + 1].turn
      BY <1>3, <2>1 DEF UnitsInOrder
    <3>2. units[1].turn \in Nat /\ units[n + 1].turn \in Nat
      BY <1>6, <2>1
    <3> QED
      BY <1>10, <1>14, <3>1, <3>2
  <2>4. SUFFICES ASSUME NEW i \in Preserve + 1..Len(cache')
                 PROVE  cache'[i].turn > cache[Preserve + 1].turn
    OBVIOUS
  <2>5. Len(cache') = nPast - gone
    BY <1>12 DEF Dropped
  <2>6. /\ i \in Preserve + 1..nPast - gone /\ Preserve + 1 \in Preserve + 1..nPast - gone
        /\ i \in 1..Len(cache') /\ Preserve + 1 \in 1..Len(cache') /\ Preserve + 1 <= i
        /\ (Preserve + 1) + gone = Preserve + gone + 1
    <3>1. i \in Preserve + 1..nPast - gone
      BY <2>5
    <3>2. /\ Preserve + 1 \in Preserve + 1..nPast - gone /\ Preserve + 1 <= i
          /\ (Preserve + 1) + gone = Preserve + gone + 1
      <4>1. /\ i \in Int /\ Preserve + 1 <= i /\ i <= nPast - gone /\ nPast - gone \in Int
            /\ Preserve + 1 \in Int
        BY <1>1, <1>11, <3>1
      <4>2. Preserve + 1 <= nPast - gone
        BY <4>1
      <4>3. (Preserve + 1) + gone = Preserve + gone + 1
        BY <1>1, <1>11
      <4> QED
        BY <4>1, <4>2, <4>3
    <3>3. Preserve + 1 \in 1..nPast - gone /\ i \in 1..nPast - gone
      BY <1>1, <1>11, <3>1
    <3> QED
      BY <2>5, <3>1, <3>2, <3>3
  <2>7. cache'[Preserve + 1] = cache[Preserve + gone + 1]
    BY <1>12, <2>6 DEF Dropped
  <2>8. cache'[Preserve + 1].turn <= cache'[i].turn /\ cache'[i].turn \in Int
    <3>1. nPast' = Len(cache')
      BY DEF nPast
    <3>2. \A a, b \in 1..Len(cache') : a <= b => cache'[a].turn <= cache'[b].turn
      BY <1>1, <3>1 DEF FlowInv, Flow
    <3>3. cache'[i] = cache[i + gone]
      BY <1>12, <2>6 DEF Dropped
    <3>4. i + gone \in 1..nPast
      <4>1. \A p, l, g \in Nat : \A m \in p + 1..l - g : m + g \in 1..l
        OBVIOUS
      <4> QED
        BY <1>1, <2>6, <4>1
    <3> QED
      BY <1>1, <2>6, <3>2, <3>3, <3>4
  <2>9. units[1].turn \in Nat /\ units[n + 1].turn \in Nat
    BY <1>6, <2>1
  <2> QED
    BY <1>8, <2>2, <2>3, <2>7, <2>8, <2>9
<1> QED
  BY <1>1, <1>13, <1>14

\* The question never stays without its answer, nor the answer without its question.
THEOREM TurnsDroppedWhole == Spec /\ WindowAlone /\ []AllRegistered => TurnsDropWhole
<1>1. BooksInv /\ [Next]_vars =>
        [setup.window = "turn" /\ EnforceDrop =>
            LET oldest == cache[Preserve + 1].turn
            IN oldest < turn => \A i \in Preserve + 1..Len(cache') : cache'[i].turn > oldest]_vars
  BY TurnLeaves
<1> QED
  BY <1>1, BooksInit, BooksStep, PTL DEF Spec, WindowAlone, TurnsDropWhole
=============================================================================
