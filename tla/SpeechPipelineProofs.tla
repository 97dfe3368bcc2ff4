------------------------ MODULE SpeechPipelineProofs ------------------------
(***************************************************************************)
(* Proofs about SpeechPipeline, for every capacity, window, number of tokens *)
(* and number of breaks: the vocoder is fed one stream, and the mark of a   *)
(* turn is written when the turn was fed.                                   *)
(***************************************************************************)
EXTENDS SpeechPipeline, FiniteSetTheorems, WellFoundedInduction, TLAPS

-----------------------------------------------------------------------------
(***************************************************************************)
(* The inductive invariant.                                                 *)
(***************************************************************************)
Items  == [turn : Nat, words : BOOLEAN, fin : BOOLEAN, eot : BOOLEAN]
Audio  == [tokens : Seq(Nat), final : BOOLEAN, turn : Nat]
Places == {"idle", "sample", "push", "top", "test", "make", "finish", "feed", "drowsy", "asleep", "gone"}

\* Every variable has its type: counters and tokens are naturals, queues are sequences of
\* the records that the threads hand over, and the token buffer never holds less than the
\* lookahead.
TypeOK ==
    /\ brk \in BOOLEAN /\ listened \in BOOLEAN
    /\ pc \in [Threads -> Places]
    /\ stage \in {"serving", "llm", "tts", "t2w", "done"}
    /\ turn \in Nat /\ items \in Nat /\ breaks \in Nat /\ ended \in Nat
    /\ queue \in Seq(Items) /\ t2w \in Seq(Audio)
    /\ tts \in [item : Items, fin : BOOLEAN, flushed : BOOLEAN]
    /\ feed \in [final : BOOLEAN, turn : Nat]
    /\ buffer \in Seq(Nat) /\ Len(buffer) >= Look
    /\ window \in Seq(Nat) /\ spoken \in Seq(Nat) /\ turnOf \in Seq(Nat)

\* what token2wav and its flags may be when a thread stands somewhere
PlaceInv ==
    /\ stage = "done" => pc["t2w"] = "gone"
    /\ pc["t2w"] = "feed" => MoreToFeed(buffer, feed.final)
    /\ breaks = 0 => ~brk

\* b[k] tokens were made before the k-th of the chunks s; the last was the n-th made
Marks(b, s, n) ==
    /\ b \in [1..Len(s) + 1 -> Nat]
    /\ \A k \in 1..Len(s) : b[k] <= b[k + 1]
                            /\ s[k].tokens = [i \in 1..b[k + 1] - b[k] |-> b[k] + i]
    /\ b[Len(s) + 1] = n

\* the buffer holds the tokens up to the m-th, behind silence or a lookahead
Behind(m) ==
    /\ Len(buffer) - Look <= m
    /\ \A i \in Look + 1..Len(buffer) : buffer[i] = m - Len(buffer) + i
    /\ \A i \in 1..Len(spoken) : spoken[i] <= m - (Len(buffer) - Look)
    /\ breaks = 0 => Len(spoken) = m - (Len(buffer) - Look)

\* What was spoken, the buffer and the queue of token2wav are one stream.
StreamInv ==
    /\ stage # "done" => \E b : Marks(b, t2w, Len(turnOf)) /\ Behind(b[1])
    /\ \A i \in 1..Len(spoken) - 1 : spoken[i] < spoken[i + 1]
    /\ breaks = 0 => \A i \in 1..Len(spoken) : spoken[i] = i

\* the buffer opens with silence, or with the end of what was spoken
OpenInv ==
    \/ \A i \in 1..Look : buffer[i] = 0
    \/ Len(spoken) >= Look /\ \A i \in 1..Look : buffer[i] = spoken[Len(spoken) - Look + i]

\* the window fed last
WindowInv == window # <<>> =>
    LET new    == SubSeq(window, Look + 1, Len(window))
        before == SubSeq(spoken, 1, Len(spoken) - Len(new))
        open   == SubSeq(window, 1, Look)
    IN  /\ LastOf(spoken, Len(new)) = new
        /\ open = Silence \/ open = LastOf(Silence \o before, Look)

\* the turn behind an item
Beyond(item) == IF item.eot THEN item.turn + 1 ELSE item.turn
\* the turn of what comes behind the TTS thread's item
NextTurn == IF queue = <<>> THEN turn ELSE queue[1].turn
\* no token to come is of an earlier turn
Lowest == IF pc["tts"] = "make" THEN tts.item.turn ELSE NextTurn

\* Turns only go up along the queue and past the item of the TTS thread.
OrderInv ==
    /\ \A k \in 1..Len(queue) : Beyond(queue[k]) <= turn
    /\ \A k \in 1..Len(queue) : \A j \in 1..k - 1 : Beyond(queue[j]) <= queue[k].turn
    /\ pc["tts"] \in {"make", "finish"} => Beyond(tts.item) <= NextTurn

\* What is marked as the end of a turn is of a turn that gets no more tokens.
ClosedInv ==
    /\ \A k \in 1..Len(t2w) : t2w[k].final => t2w[k].turn < Lowest
    /\ pc["t2w"] = "feed" /\ feed.final => feed.turn < Lowest
    /\ ended < Lowest

\* the tokens of the turns up to t are the first m
Within(t, m) == \A n \in 1..Len(turnOf) : turnOf[n] <= t => n <= m

MarkInv == breaks = 0 =>
    /\ pc["t2w"] = "feed" /\ feed.final => Within(feed.turn, Len(spoken) + Len(buffer) - Look)
    /\ Within(ended, Len(spoken))

-----------------------------------------------------------------------------
(***************************************************************************)
(* The operators: sets of numbers, the concatenation of a queue, the batch  *)
(* that the TTS thread takes, the places of the threads.                    *)
(***************************************************************************)
\* A set of naturals that is not empty has a least element.
LEMMA LeastOf ==
  ASSUME NEW T, T \subseteq Nat, T # {}
  PROVE  \E n \in T : \A m \in T : n <= m
<1>1. PICK n \in T : \A m \in T : ~ (<<m, n>> \in OpToRel(<, Nat))
  BY WFMin, NatLessThanWellFounded
<1>2. \A m \in T : ~ (m < n)
  BY <1>1, Zenon DEF OpToRel
<1> QED
  BY <1>2

LEMMA GreatestOf ==
  ASSUME NEW m \in Nat, NEW T, T \subseteq 1..m, T # {}
  PROVE  \E k \in T : \A j \in T : j <= k
<1> DEFINE U == {u \in Nat : m - u \in T}
<1>1. PICK k \in T : TRUE
  OBVIOUS
<1>2. m - k \in U
  <2>1. m - k \in Nat /\ m - (m - k) = k
    BY <1>1
  <2> QED
    BY <1>1, <2>1
<1>3. PICK u \in U : \A v \in U : u <= v
  <2>1. U \subseteq Nat /\ U # {}
    BY <1>2
  <2> HIDE DEF U
  <2> QED
    BY <2>1, LeastOf
<1>4. ASSUME NEW j \in T  PROVE j <= m - u
  <2>1. m - j \in Nat /\ m - (m - j) = j
    OBVIOUS
  <2>2. m - j \in U
    BY <2>1
  <2> QED
    BY <2>2, <1>3
<1> QED
  BY <1>3, <1>4

LEMMA JoinFacts ==
  ASSUME NEW E, NEW a \in Seq(E), NEW c \in Seq(E)
  PROVE  /\ a \o c \in Seq(E) /\ Len(a \o c) = Len(a) + Len(c)
         /\ \A i \in 1..Len(a) : (a \o c)[i] = a[i]
         /\ \A i \in Len(a) + 1..Len(a) + Len(c) : (a \o c)[i] = c[i - Len(a)]
  OBVIOUS

LEMMA PartFacts ==
  ASSUME NEW E, NEW s \in Seq(E), NEW m \in 1..Len(s) + 1, NEW n \in m - 1..Len(s)
  PROVE  /\ SubSeq(s, m, n) \in Seq(E) /\ Len(SubSeq(s, m, n)) = n - m + 1
         /\ \A i \in 1..n - m + 1 : SubSeq(s, m, n)[i] = s[i + m - 1]
  OBVIOUS

\* Two sequences with the same length and the same entries are the same.
LEMMA SameSequence ==
  ASSUME NEW E, NEW s \in Seq(E), NEW t \in Seq(E), Len(s) = Len(t),
         \A i \in 1..Len(s) : s[i] = t[i]
  PROVE  s = t
  OBVIOUS

\* Two runs of numbers, the second behind the first, make one.
LEMMA RunsJoin ==
  ASSUME NEW x \in Nat, NEW y \in Nat, NEW z \in Nat, x <= y, y <= z
  PROVE  [i \in 1..y - x |-> x + i] \o [i \in 1..z - y |-> y + i] = [i \in 1..z - x |-> x + i]
<1> DEFINE a == [i \in 1..y - x |-> x + i]
           c == [i \in 1..z - y |-> y + i]
<1>1. y - x \in Nat /\ z - y \in Nat /\ (y - x) + (z - y) = z - x
  OBVIOUS
<1>2. a \in Seq(Nat) /\ Len(a) = y - x /\ \A i \in 1..y - x : a[i] = x + i
  BY <1>1
<1>3. c \in Seq(Nat) /\ Len(c) = z - y /\ \A i \in 1..z - y : c[i] = y + i
  BY <1>1
<1> HIDE DEF a, c
<1>4. /\ a \o c \in Seq(Nat) /\ Len(a \o c) = z - x
      /\ \A i \in 1..y - x : (a \o c)[i] = a[i]
      /\ \A i \in y - x + 1..z - x : (a \o c)[i] = c[i - (y - x)]
  <2>1. /\ a \o c \in Seq(Nat) /\ Len(a \o c) = Len(a) + Len(c)
        /\ \A i \in 1..Len(a) : (a \o c)[i] = a[i]
        /\ \A i \in Len(a) + 1..Len(a) + Len(c) : (a \o c)[i] = c[i - Len(a)]
    BY <1>2, <1>3, JoinFacts
  <2> QED
    BY <1>1, <1>2, <1>3, <2>1
<1>5. ASSUME NEW i \in 1..z - x  PROVE (a \o c)[i] = x + i
  <2>1. CASE i <= y - x
    <3>1. i \in 1..y - x
      BY <2>1
    <3> QED
      BY <3>1, <1>2, <1>4
  <2>2. CASE ~(i <= y - x)
    <3>1. i \in y - x + 1..z - x /\ i - (y - x) \in 1..z - y /\ y + (i - (y - x)) = x + i
      BY <2>2
    <3> QED
      BY <3>1, <1>3, <1>4
  <2> QED
    BY <2>1, <2>2
<1> DEFINE d == [i \in 1..z - x |-> x + i]
<1>6. z - x \in Nat
  OBVIOUS
<1>7. d \in Seq(Nat) /\ Len(d) = z - x /\ \A i \in 1..z - x : d[i] = x + i
  BY <1>6
<1> HIDE DEF d
<1>8. a \o c = d
  BY <1>4, <1>5, <1>7, SameSequence
<1> QED
  BY <1>8, Zenon DEF a, c, d

\* A queue whose chunks follow one another holds a run of consecutive tokens.
LEMMA FlatMarks ==
  ASSUME NEW s \in Seq(Audio), NEW n, NEW b, Marks(b, s, n), s # <<>>
  PROVE  /\ b[1] \in Nat /\ n \in Nat /\ b[1] <= n
         /\ FlattenSeq([k \in 1..Len(s) |-> s[k].tokens]) = [i \in 1..n - b[1] |-> b[1] + i]
<1> DEFINE q == [k \in 1..Len(s) |-> s[k].tokens]
           Run(k) == [i \in 1..b[k + 1] - b[1] |-> b[1] + i]
           Flat(f) == f = [k \in 1..Len(q) |-> IF k = 1 THEN q[k] ELSE f[k - 1] \o q[k]]
<1>1. Len(s) \in Nat \ {0} /\ Len(q) = Len(s)
  OBVIOUS
<1>2. /\ \A k \in 1..Len(s) + 1 : b[k] \in Nat
      /\ \A k \in 1..Len(s) : b[k] <= b[k + 1] /\ s[k].tokens = [i \in 1..b[k + 1] - b[k] |-> b[k] + i]
      /\ b[Len(s) + 1] = n
  BY DEF Marks
<1>3. \A k \in 1..Len(s) : b[1] <= b[k]
  <2> DEFINE T == {k \in 1..Len(s) : ~(b[1] <= b[k])}
  <2>1. SUFFICES ASSUME T # {}  PROVE FALSE
    OBVIOUS
  <2>2. T \subseteq Nat
    OBVIOUS
  <2> HIDE DEF T
  <2>3. PICK k \in T : \A m \in T : k <= m
    BY <2>1, <2>2, LeastOf
  <2>4. k - 1 \notin T /\ k \in Nat
    BY <2>2, <2>3
  <2> USE DEF T
  <2>5. k \in 1..Len(s) /\ ~(b[1] <= b[k]) /\ k # 1 /\ k - 1 \in 1..Len(s)
    BY <1>1, <1>2
  <2>6. b[1] <= b[k - 1]
    BY <2>4, <2>5
  <2>7. b[k - 1] <= b[k]
    <3>1. (k - 1) + 1 = k
      BY <2>5
    <3>2. b[k - 1] <= b[(k - 1) + 1]
      BY <1>2, <2>5, Zenon
    <3> QED
      BY <3>1, <3>2
  <2>8. b[1] \in Nat /\ b[k] \in Nat /\ b[k - 1] \in Nat
    BY <1>1, <1>2, <2>5
  <2> QED
    BY <2>5, <2>6, <2>7, <2>8
<1>4. ASSUME NEW k \in 1..Len(s), k # 1
      PROVE  Run(k - 1) \o q[k] = Run(k)
  <2>1. /\ b[1] \in Nat /\ b[k] \in Nat /\ b[k + 1] \in Nat /\ b[1] <= b[k] /\ b[k] <= b[k + 1]
        /\ q[k] = [i \in 1..b[k + 1] - b[k] |-> b[k] + i]
    <3>1. k \in 1..Len(s) + 1 /\ k + 1 \in 1..Len(s) + 1 /\ 1 \in 1..Len(s) + 1
      BY <1>1
    <3>2. b[1] \in Nat /\ b[k] \in Nat /\ b[k + 1] \in Nat
      BY <1>2, <3>1, Zenon
    <3>3. b[1] <= b[k] /\ b[k] <= b[k + 1]
      BY <1>2, <1>3, Zenon
    <3> QED
      BY <1>2, <3>2, <3>3
  <2>2. Run(k - 1) = [i \in 1..b[k] - b[1] |-> b[1] + i]
    <3>1. (k - 1) + 1 = k
      OBVIOUS
    <3> QED
      BY <3>1
  <2> HIDE DEF q
  <2>3. \A x, y, z \in Nat : x <= y /\ y <= z =>
           [i \in 1..y - x |-> x + i] \o [i \in 1..z - y |-> y + i] = [i \in 1..z - x |-> x + i]
    BY RunsJoin
  <2>4. Run(k) = [i \in 1..b[k + 1] - b[1] |-> b[1] + i]
    OBVIOUS
  <2> HIDE DEF Run
  <2>5. [i \in 1..b[k] - b[1] |-> b[1] + i] \o [i \in 1..b[k + 1] - b[k] |-> b[k] + i]
           = [i \in 1..b[k + 1] - b[1] |-> b[1] + i]
    BY <2>1, <2>3, Zenon
  <2>6. q[k] = [i \in 1..b[k + 1] - b[k] |-> b[k] + i]
    BY <2>1
  <2> QED
    BY <2>2, <2>4, <2>5, <2>6
<1>5. q[1] = Run(1)
  BY <1>1, <1>2
<1>6. Flat([k \in 1..Len(s) |-> Run(k)])
  <2> DEFINE g == [k \in 1..Len(s) |-> Run(k)]
  <2>1. ASSUME NEW k \in 1..Len(s)
        PROVE  g[k] = IF k = 1 THEN q[k] ELSE g[k - 1] \o q[k]
    <3>1. CASE k = 1
      BY <1>5, <3>1
    <3>2. CASE k # 1
      <4>1. k - 1 \in 1..Len(s)
        BY <3>2
      <4>2. g[k] = Run(k) /\ g[k - 1] = Run(k - 1)
        BY <4>1
      <4> QED
        BY <1>4, <3>2, <4>2
    <3> QED
      BY <3>1, <3>2
  <2>2. [k \in 1..Len(s) |-> IF k = 1 THEN q[k] ELSE g[k - 1] \o q[k]] = [k \in 1..Len(s) |-> g[k]]
    <3> HIDE DEF g, q
    <3> QED
      BY <2>1
  <2> QED
    BY <1>1, <2>2, Zenon
<1> HIDE DEF q
<1>7. ASSUME NEW f, Flat(f)  PROVE f[Len(q)] = Run(Len(s))
  <2>1. ASSUME NEW k \in 1..Len(s)
        PROVE  f[k] = IF k = 1 THEN q[k] ELSE f[k - 1] \o q[k]
    BY <1>7, <1>1
  <2> HIDE DEF Flat
  <2> DEFINE T == {k \in 1..Len(s) : f[k] # Run(k)}
  <2>2. SUFFICES ASSUME T # {}  PROVE FALSE
    <3>1. Len(s) \in 1..Len(s) /\ Len(q) = Len(s)
      BY <1>1
    <3> HIDE DEF Run
    <3> QED
      BY <3>1
  <2>3. T \subseteq Nat
    OBVIOUS
  <2> HIDE DEF T
  <2>4. PICK k \in T : \A m \in T : k <= m
    BY <2>2, <2>3, LeastOf
  <2>5. k - 1 \notin T /\ k \in Nat
    BY <2>3, <2>4
  <2> USE DEF T
  <2> HIDE DEF Run
  <2>6. k \in 1..Len(s) /\ f[k] # Run(k)
    OBVIOUS
  <2>7. CASE k = 1
    BY <2>1, <2>6, <2>7, <1>5
  <2>8. CASE k # 1
    <3>1. k - 1 \in 1..Len(s)
      BY <2>6, <2>8
    <3>2. f[k - 1] = Run(k - 1)
      BY <2>5, <3>1
    <3>3. f[k] = Run(k - 1) \o q[k]
      BY <2>1, <2>6, <2>8, <3>2
    <3> QED
      BY <1>4, <2>6, <2>8, <3>3, Zenon
  <2> QED
    BY <2>7, <2>8
<1>8. FlattenSeq(q) = Run(Len(s))
  <2> DEFINE f == CHOOSE g : Flat(g)
  <2>1. Flat(f)
    BY <1>6, Zenon
  <2>2. FlattenSeq(q) = f[Len(q)]
    BY <1>1, Zenon DEF FlattenSeq
  <2> HIDE DEF Flat, f
  <2> QED
    BY <1>7, <2>1, <2>2
<1>9. b[1] <= n /\ b[1] \in Nat /\ n \in Nat
  <2>1. Len(s) \in 1..Len(s) /\ 1 \in 1..Len(s) + 1 /\ Len(s) + 1 \in 1..Len(s) + 1
    BY <1>1
  <2>2. b[1] <= b[Len(s)]
    BY <1>3, <2>1, Zenon
  <2>3. b[Len(s)] <= b[Len(s) + 1]
    BY <1>2, <2>1, Zenon
  <2>4. b[Len(s)] \in Nat
    BY <1>2, <2>1
  <2> QED
    BY <1>2, <2>1, <2>2, <2>3, <2>4
<1>10. Run(Len(s)) = [i \in 1..n - b[1] |-> b[1] + i]
  BY <1>2
<1> QED
  BY <1>8, <1>9, <1>10 DEF q

\* The TTS thread takes at least one chunk, and none behind the end of a turn.
LEMMA TakenFacts ==
  ASSUME queue \in Seq(Items), queue # <<>>
  PROVE  /\ Cardinality(Taken) \in 1..Len(queue)
         /\ \A j \in 1..Cardinality(Taken) - 1 : ~queue[j].eot
<1> DEFINE T == {k \in 1..Len(queue) : k = Len(queue) \/ queue[k].eot}
<1>1. Len(queue) \in 1..Len(queue) /\ Len(queue) \in Nat
  OBVIOUS
<1>2. T \subseteq Nat /\ T # {}
  BY <1>1
<1>3. PICK m \in T : \A k \in T : m <= k
  <2> HIDE DEF T
  <2> QED
    BY <1>2, LeastOf
<1>4. m \in 1..Len(queue) /\ (m = Len(queue) \/ queue[m].eot)
  OBVIOUS
<1>5. \A j \in 1..m - 1 : ~queue[j].eot
  BY <1>3, <1>4
<1>6. Taken = 1..m
  <2>1. ASSUME NEW k \in Taken  PROVE k \in 1..m
    <3>1. k \in 1..Len(queue) /\ \A j \in 1..k - 1 : ~queue[j].eot
      BY DEF Taken
    <3>2. CASE k > m
      <4>1. m \in 1..k - 1 /\ m # Len(queue)
        BY <1>4, <3>1, <3>2
      <4>2. queue[m].eot /\ ~queue[m].eot
        BY <1>4, <3>1, <4>1, Zenon
      <4> QED
        BY <4>2
    <3> QED
      BY <1>4, <3>1, <3>2
  <2>2. ASSUME NEW k \in 1..m  PROVE k \in Taken
    <3>1. k \in 1..Len(queue) /\ 1..k - 1 \subseteq 1..m - 1
      BY <1>4
    <3> QED
      BY <1>5, <3>1 DEF Taken
  <2> QED
    BY <2>1, <2>2
<1>7. Cardinality(Taken) = m
  <2>1. Cardinality(1..m) = m
    BY <1>4, FS_Interval
  <2> QED
    BY <1>6, <2>1
<1> QED
  BY <1>4, <1>5, <1>7

\* t is at l, and the others are where they were or were woken
MovedTo(t, l) ==
    /\ pc' \in [Threads -> Places]
    /\ pc'[t] = l
    /\ \A x \in Threads : x # t /\ pc[x] # "asleep" => pc'[x] = pc[x]
    /\ \A x \in Threads : x # t /\ pc[x] = "asleep" => pc'[x] \in {"asleep", "push", "test"}

LEMMA MovedFacts ==
  ASSUME pc \in [Threads -> Places], NEW t \in Threads, NEW l \in Places, NEW who,
         pc' = Moved(t, l, who)
  PROVE  MovedTo(t, l)
<1>1. \A x \in Threads : Awake[x] \in {"push", "test"}
  BY DEF Awake, Threads
<1>2. \A x \in Threads : pc'[x] = IF x = t THEN l
                                  ELSE IF x \in who /\ pc[x] = "asleep" THEN Awake[x] ELSE pc[x]
  BY DEF Moved
<1>3. pc' = [x \in Threads |-> pc'[x]]
  BY DEF Moved
<1>4. \A x \in Threads : pc'[x] \in Places
  BY <1>1, <1>2 DEF Places
<1> QED
  BY <1>1, <1>2, <1>3, <1>4 DEF MovedTo

LEMMA GotoFacts ==
  ASSUME pc \in [Threads -> Places], NEW t \in Threads, NEW l \in Places, Goto(t, l)
  PROVE  MovedTo(t, l)
  BY MovedFacts DEF Goto

\* What the TTS thread hands to token2wav: n tokens of the turn of its item.
Handed(n, final) ==
    /\ n \in Nat /\ final \in BOOLEAN
    /\ t2w' = Append(t2w, [tokens |-> [i \in 1..n |-> Len(turnOf) + i], final |-> final,
                           turn |-> tts.item.turn])
    /\ turnOf' = turnOf \o [i \in 1..n |-> tts.item.turn]

LEMMA PushFacts ==
  ASSUME TypeOK, NEW n \in Nat, NEW final \in BOOLEAN, NEW l \in Places, PushAudio(n, final, l)
  PROVE  /\ Handed(n, final) /\ MovedTo("tts", l)
         /\ t2w' \in Seq(Audio) /\ turnOf' \in Seq(Nat)
<1>1. Handed(n, final)
  BY DEF PushAudio, Handed
<1>2. MovedTo("tts", l)
  BY MovedFacts DEF PushAudio, TypeOK, Threads
<1>3. tts.item.turn \in Nat /\ Len(turnOf) \in Nat
  BY DEF TypeOK, Items
<1>4. [tokens |-> [i \in 1..n |-> Len(turnOf) + i], final |-> final, turn |-> tts.item.turn] \in Audio
  <2>1. [i \in 1..n |-> Len(turnOf) + i] \in Seq(Nat)
    BY <1>3
  <2> QED
    BY <1>3, <2>1 DEF Audio
<1>5. t2w' \in Seq(Audio)
  BY <1>1, <1>4 DEF Handed, TypeOK
<1>6. turnOf' \in Seq(Nat)
  <2>1. [i \in 1..n |-> tts.item.turn] \in Seq(Nat)
    BY <1>3
  <2> QED
    BY <1>1, <2>1, JoinFacts DEF Handed, TypeOK
<1> QED
  BY <1>1, <1>2, <1>5, <1>6

-----------------------------------------------------------------------------
(***************************************************************************)
(* Types.                                                                   *)
(***************************************************************************)
LEMMA Basics ==
  ASSUME TypeOK
  PROVE  /\ pc \in [Threads -> Places] /\ Look \in Nat \ {0} /\ Chunk \in Nat \ {0} /\ Look <= Chunk
         /\ Window \in Nat /\ Window = Chunk + Look
         /\ Silence \in Seq(Nat) /\ Len(Silence) = Look /\ \A i \in 1..Look : Silence[i] = 0
         /\ "llm" \in Threads /\ "tts" \in Threads /\ "t2w" \in Threads
<1>1. Look \in Nat \ {0} /\ Chunk \in Nat \ {0} /\ Look <= Chunk
  BY WindowAssumption
<1>2. Silence \in Seq(Nat) /\ Len(Silence) = Look /\ \A i \in 1..Look : Silence[i] = 0
  BY <1>1 DEF Silence
<1> QED
  BY <1>1, <1>2 DEF TypeOK, Window, Threads

\* token2wav takes what is queued: the buffer, whose last token was the m-th, ends with the
\* last token made.
Extended(m) ==
    /\ stage # "done" /\ m \in Nat /\ m <= Len(turnOf) /\ Behind(m)
    /\ buffer' \in Seq(Nat) /\ Len(buffer') = Len(buffer) + (Len(turnOf) - m)
    /\ \A i \in 1..Len(buffer) : buffer'[i] = buffer[i]
    /\ \A i \in Len(buffer) + 1..Len(buffer') : buffer'[i] = m - Len(buffer) + i

LEMMA TakeFacts ==
  ASSUME TypeOK, PlaceInv, StreamInv, VocTake
  PROVE  \E m : Extended(m)
<1>1. stage # "done"
  BY DEF VocTake, PlaceInv
<1>2. PICK b : Marks(b, t2w, Len(turnOf)) /\ Behind(b[1])
  BY <1>1 DEF StreamInv
<1> DEFINE m == b[1]
           F == FlattenSeq([k \in 1..Len(t2w) |-> t2w[k].tokens])
<1>3. /\ m \in Nat /\ Len(turnOf) \in Nat /\ m <= Len(turnOf)
      /\ F = [i \in 1..Len(turnOf) - m |-> m + i]
  BY <1>2, FlatMarks DEF VocTake, TypeOK
<1>4. Behind(m)
  BY <1>2
<1>5. buffer' = buffer \o F
  BY DEF VocTake
<1> HIDE DEF m, F
<1>6. F \in Seq(Nat) /\ Len(F) = Len(turnOf) - m /\ \A i \in 1..Len(turnOf) - m : F[i] = m + i
  BY <1>3
<1>7. buffer \in Seq(Nat) /\ Len(buffer) \in Nat
  BY DEF TypeOK
<1>8. /\ buffer' \in Seq(Nat) /\ Len(buffer') = Len(buffer) + Len(F)
      /\ \A i \in 1..Len(buffer) : buffer'[i] = buffer[i]
      /\ \A i \in Len(buffer) + 1..Len(buffer) + Len(F) : buffer'[i] = F[i - Len(buffer)]
  BY <1>5, <1>6, <1>7, JoinFacts
<1>9. ASSUME NEW i \in Len(buffer) + 1..Len(buffer')  PROVE buffer'[i] = m - Len(buffer) + i
  <2>1. i - Len(buffer) \in 1..Len(turnOf) - m /\ m + (i - Len(buffer)) = m - Len(buffer) + i
    BY <1>3, <1>6, <1>7, <1>8
  <2>2. buffer'[i] = F[i - Len(buffer)]
    BY <1>8
  <2> QED
    BY <1>6, <2>1, <2>2
<1>10. Extended(m)
  BY <1>1, <1>3, <1>4, <1>6, <1>8, <1>9 DEF Extended
<1> QED
  BY <1>10

\* The turn of what it takes is that of a chunk which ends one.
LEMMA FeedFacts ==
  ASSUME TypeOK, VocTake
  PROVE  /\ feed' \in [final : BOOLEAN, turn : Nat]
         /\ feed'.final => \E k \in 1..Len(t2w) : t2w[k].final /\ feed'.turn = t2w[k].turn
<1> DEFINE ends == {k \in 1..Len(t2w) : t2w[k].final}
           last == CHOOSE k \in ends : \A j \in ends : j <= k
           f == \E k \in 1..Len(t2w) : t2w[k].final
           t == IF ends = {} THEN 0 ELSE t2w[last].turn
<1>1. feed' = [final |-> f, turn |-> t]
  BY DEF VocTake
<1>2. Len(t2w) \in Nat /\ \A k \in 1..Len(t2w) : t2w[k] \in Audio
  BY DEF TypeOK
<1>3. ends # {} => last \in ends
  <2>1. ends # {} => \E k \in ends : \A j \in ends : j <= k
    <3>1. ends \subseteq 1..Len(t2w)
      OBVIOUS
    <3> HIDE DEF ends
    <3> QED
      BY <1>2, <3>1, GreatestOf
  <2> HIDE DEF ends
  <2> QED
    BY <2>1, Zenon
<1>4. f => ends # {}
  OBVIOUS
<1>5. t \in Nat
  <2>1. ends # {} => t2w[last] \in Audio
    <3> HIDE DEF last
    <3> QED
      BY <1>2, <1>3
  <2> HIDE DEF ends, last
  <2> QED
    BY <2>1 DEF Audio
<1>6. f \in BOOLEAN
  OBVIOUS
<1>7. f => last \in 1..Len(t2w) /\ t2w[last].final /\ t = t2w[last].turn
  <2> HIDE DEF last
  <2> QED
    BY <1>3, <1>4
<1> HIDE DEF f, t, last, ends
<1> QED
  BY <1>1, <1>5, <1>6, <1>7

\* One window: w tokens are fed, those behind the lookahead for the first time.
Fed(w) ==
    /\ w \in Look..Len(buffer)
    /\ window' \in Seq(Nat) /\ Len(window') = w /\ \A i \in 1..w : window'[i] = buffer[i]
    /\ spoken' \in Seq(Nat) /\ Len(spoken') = Len(spoken) + (w - Look)
    /\ spoken' = spoken \o SubSeq(window', Look + 1, Len(window'))
    /\ \A i \in 1..Len(spoken) : spoken'[i] = spoken[i]
    /\ \A i \in 1..w - Look : spoken'[Len(spoken) + i] = buffer[Look + i]

\* the buffer behind it: silence after the end of a turn, else all but a chunk
Slid(w) ==
    \/ feed.final /\ w = Len(buffer) /\ buffer' = Silence /\ ended' = feed.turn /\ pc'["t2w"] = "top"
    \/ /\ w = Window /\ ended' = ended
       /\ buffer' \in Seq(Nat) /\ Len(buffer') = Len(buffer) - Chunk
       /\ \A i \in 1..Len(buffer) - Chunk : buffer'[i] = buffer[i + Chunk]

LEMMA FedFacts ==
  ASSUME TypeOK, PlaceInv, VocWindow
  PROVE  \E w : Fed(w) /\ Slid(w)
<1> DEFINE len == Len(buffer)
           w == IF len < Window THEN len ELSE Window
           new == SubSeq(window', Look + 1, Len(window'))
<1>1. /\ Look \in Nat \ {0} /\ Chunk \in Nat \ {0} /\ Look <= Chunk /\ Window = Chunk + Look
      /\ buffer \in Seq(Nat) /\ len \in Nat /\ len >= Look
      /\ spoken \in Seq(Nat) /\ Len(spoken) \in Nat
  BY Basics DEF TypeOK
<1>2. w \in Look..len
  BY <1>1
<1>3. window' = SubSeq(buffer, 1, w)
  BY DEF VocWindow
<1>4. spoken' = spoken \o new
  BY DEF VocWindow
<1> HIDE DEF w
<1>5. window' \in Seq(Nat) /\ Len(window') = w /\ \A i \in 1..w : window'[i] = buffer[i]
  <2>1. 1 \in 1..len + 1 /\ w \in 1 - 1..len /\ w - 1 + 1 = w /\ \A i \in 1..w : i + 1 - 1 = i
    BY <1>1, <1>2
  <2>2. /\ SubSeq(buffer, 1, w) \in Seq(Nat) /\ Len(SubSeq(buffer, 1, w)) = w
        /\ \A i \in 1..w : SubSeq(buffer, 1, w)[i] = buffer[i]
    BY <1>1, <2>1, PartFacts
  <2> QED
    BY <1>3, <2>2
<1>6. new \in Seq(Nat) /\ Len(new) = w - Look /\ \A i \in 1..w - Look : new[i] = buffer[Look + i]
  <2>1. Look + 1 \in 1..Len(window') + 1 /\ Len(window') \in (Look + 1) - 1..Len(window')
    BY <1>1, <1>2, <1>5
  <2>2. /\ new \in Seq(Nat) /\ Len(new) = Len(window') - (Look + 1) + 1
        /\ \A i \in 1..Len(window') - (Look + 1) + 1 : new[i] = window'[i + (Look + 1) - 1]
    BY <1>5, <2>1, PartFacts
  <2>3. Len(window') - (Look + 1) + 1 = w - Look
    BY <1>1, <1>2, <1>5
  <2>4. ASSUME NEW i \in 1..w - Look  PROVE new[i] = buffer[Look + i]
    <3>1. i + (Look + 1) - 1 = Look + i /\ Look + i \in 1..w
      BY <1>1, <1>2
    <3>2. new[i] = window'[i + (Look + 1) - 1]
      BY <2>2, <2>3
    <3> QED
      BY <1>5, <3>1, <3>2
  <2> QED
    BY <2>2, <2>3, <2>4
<1> HIDE DEF new
<1>7. /\ spoken' \in Seq(Nat) /\ Len(spoken') = Len(spoken) + Len(new)
      /\ \A i \in 1..Len(spoken) : spoken'[i] = spoken[i]
      /\ \A i \in Len(spoken) + 1..Len(spoken) + Len(new) : spoken'[i] = new[i - Len(spoken)]
  <2>1. \A s, t \in Seq(Nat) :
           /\ s \o t \in Seq(Nat) /\ Len(s \o t) = Len(s) + Len(t)
           /\ \A i \in 1..Len(s) : (s \o t)[i] = s[i]
           /\ \A i \in Len(s) + 1..Len(s) + Len(t) : (s \o t)[i] = t[i - Len(s)]
    BY JoinFacts
  <2>2. spoken \in Seq(Nat) /\ new \in Seq(Nat)
    BY <1>1, <1>6
  <2> QED
    BY <1>4, <2>1, <2>2
<1>8. ASSUME NEW i \in 1..w - Look  PROVE spoken'[Len(spoken) + i] = buffer[Look + i]
  <2>1. Len(spoken) + i \in Len(spoken) + 1..Len(spoken) + Len(new) /\ (Len(spoken) + i) - Len(spoken) = i
    BY <1>1, <1>2, <1>6
  <2>2. spoken'[Len(spoken) + i] = new[(Len(spoken) + i) - Len(spoken)]
    BY <1>7, <2>1
  <2> QED
    BY <1>6, <2>1, <2>2
<1>9. Fed(w)
  BY <1>2, <1>4, <1>5, <1>6, <1>7, <1>8 DEF Fed, new
<1>10. CASE IsLast(len)
  <2>1. feed.final /\ w = len
    BY <1>1, <1>10 DEF IsLast, w
  <2>2. buffer' = Silence /\ ended' = feed.turn /\ Goto("t2w", "top")
    BY <1>10 DEF VocWindow
  <2>3. pc'["t2w"] = "top"
    BY <2>2, GotoFacts, Basics DEF MovedTo, Places
  <2> QED
    BY <1>9, <2>1, <2>2, <2>3 DEF Slid
<1>11. CASE ~IsLast(len)
  <2>1. len >= Window
    <3>1. MoreToFeed(buffer, feed.final)
      BY DEF VocWindow, PlaceInv
    <3> QED
      BY <1>1, <1>11, <3>1 DEF IsLast, MoreToFeed
  <2>2. w = Window /\ SlideBy(len) = Chunk
    BY <1>1, <1>11, <2>1 DEF SlideBy, Advance, w
  <2>3. buffer' = SubSeq(buffer, Chunk + 1, len) /\ ended' = ended
    BY <1>11, <2>2 DEF VocWindow
  <2>4. Chunk + 1 \in 1..len + 1 /\ len \in (Chunk + 1) - 1..len /\ len - (Chunk + 1) + 1 = len - Chunk
    BY <1>1, <2>1
  <2>5. /\ buffer' \in Seq(Nat) /\ Len(buffer') = len - Chunk
        /\ \A i \in 1..len - Chunk : buffer'[i] = buffer[i + (Chunk + 1) - 1]
    <3> DEFINE p == SubSeq(buffer, Chunk + 1, len)
    <3>1. /\ p \in Seq(Nat) /\ Len(p) = len - (Chunk + 1) + 1
          /\ \A i \in 1..len - (Chunk + 1) + 1 : p[i] = buffer[i + (Chunk + 1) - 1]
      BY <1>1, <2>4, PartFacts
    <3> HIDE DEF p
    <3>2. /\ p \in Seq(Nat) /\ Len(p) = len - Chunk
          /\ \A i \in 1..len - Chunk : p[i] = buffer[i + (Chunk + 1) - 1]
      BY <2>4, <3>1
    <3> QED
      BY <2>3, <3>2, Zenon DEF p
  <2>6. ASSUME NEW i \in 1..len - Chunk  PROVE buffer'[i] = buffer[i + Chunk]
    <3>1. i + (Chunk + 1) - 1 = i + Chunk
      BY <1>1
    <3> QED
      BY <2>5, <3>1
  <2> QED
    BY <1>9, <2>2, <2>3, <2>5, <2>6 DEF Slid
<1> QED
  BY <1>10, <1>11

LEMMA TypeInit == Init => TypeOK
<1> SUFFICES ASSUME Init  PROVE TypeOK
  OBVIOUS
<1>1. Look \in Nat \ {0}
  BY WindowAssumption
<1>2. Silence \in Seq(Nat) /\ Len(Silence) = Look
  BY <1>1 DEF Silence
<1>3. pc \in [Threads -> Places]
  BY DEF Init, Threads, Places
<1>4. NoItem \in Items
  BY DEF NoItem, Items
<1>5. /\ brk \in BOOLEAN /\ listened \in BOOLEAN /\ turn \in Nat /\ items \in Nat /\ breaks \in Nat
      /\ ended \in Nat /\ stage \in {"serving", "llm", "tts", "t2w", "done"}
  BY DEF Init
<1>6. /\ queue \in Seq(Items) /\ t2w \in Seq(Audio) /\ window \in Seq(Nat) /\ spoken \in Seq(Nat)
      /\ turnOf \in Seq(Nat)
  BY DEF Init
<1>7. tts \in [item : Items, fin : BOOLEAN, flushed : BOOLEAN]
  BY <1>4 DEF Init
<1>8. feed \in [final : BOOLEAN, turn : Nat] /\ buffer \in Seq(Nat) /\ Len(buffer) >= Look
  BY <1>1, <1>2 DEF Init
<1> QED
  BY <1>3, <1>5, <1>6, <1>7, <1>8 DEF TypeOK

\* Every step moves at most one thread, to a place there is.
LEMMA StepMoves ==
  ASSUME TypeOK, Next
  PROVE  pc' \in [Threads -> Places]
<1> USE Basics
<1>1. \A t \in Threads, l \in Places : Goto(t, l) => pc' \in [Threads -> Places]
  BY GotoFacts DEF MovedTo
<1>2. \A t \in Threads, l \in Places : \A who : pc' = Moved(t, l, who) => pc' \in [Threads -> Places]
  BY MovedFacts DEF MovedTo
<1>3. \A l \in Places : \A n \in Nat, f \in BOOLEAN : PushAudio(n, f, l) => pc' \in [Threads -> Places]
  BY PushFacts DEF MovedTo
<1>4. Tails \cup {PerText} \subseteq Nat
  BY WindowAssumption
<1>5. tts.item.eot \in BOOLEAN
  BY DEF TypeOK, Items
<1>6. {"idle", "sample", "push", "top", "test", "make", "finish", "feed", "drowsy", "asleep", "gone"}
        \subseteq Places
  BY DEF Places
<1> HIDE DEF Places, Threads
<1>7. CASE DecodeBegin \/ ForcedListen \/ Sampled \/ SampleBreak \/ NoRoom \/ RaiseBreak
           \/ StopBegin \/ LlmGone \/ StopEnd
  BY <1>1, <1>6, <1>7
  DEF DecodeBegin, ForcedListen, Sampled, SampleBreak, NoRoom, RaiseBreak, StopBegin, LlmGone, StopEnd
<1>8. ASSUME NEW t \in Threads, FallAsleep(t)  PROVE pc' \in [Threads -> Places]
  BY <1>1, <1>6, <1>8 DEF FallAsleep
<1>9. ASSUME NEW w, NEW f, NEW e, PushText(w, f, e)  PROVE pc' \in [Threads -> Places]
  BY <1>2, <1>6, <1>9 DEF PushText
<1>10. CASE StopTts \/ StopT2w
  BY <1>2, <1>6, <1>10 DEF StopTts, StopT2w
<1>11. CASE TtsBreak \/ TtsTop \/ TtsWait
  BY <1>1, <1>6, <1>11 DEF TtsBreak, TtsTop, TtsWait
<1>12. CASE TtsTake
  BY <1>2, <1>6, <1>12 DEF TtsTake
<1>13. CASE TtsChunkEnd \/ TtsFinish
  <2>1. CASE TtsChunkEnd
    <3>1. PushAudio(0, FALSE, "top") /\ "top" \in Places /\ 0 \in Nat /\ FALSE \in BOOLEAN
      BY <1>6, <2>1 DEF TtsChunkEnd
    <3> QED
      BY <1>3, <3>1, Zenon
  <2>2. CASE TtsFinish
    <3>1. Goto("tts", "top") \/ PushAudio(0, tts.item.eot, "top")
      BY <2>2 DEF TtsFinish
    <3>2. "top" \in Places /\ 0 \in Nat
      BY <1>6
    <3> QED
      BY <1>1, <1>3, <1>5, <3>1, <3>2, Zenon
  <2> QED
    BY <1>13, <2>1, <2>2
<1>14. ASSUME NEW n \in Tails \cup {PerText}, TtsMake(n) \/ TtsFlush(n)
       PROVE  pc' \in [Threads -> Places]
  <2>1. n \in Nat
    BY <1>4
  <2>2. CASE TtsMake(n)
    BY <1>3, <1>5, <1>6, <2>1, <2>2 DEF TtsMake
  <2>3. CASE TtsFlush(n)
    BY <1>1, <1>3, <1>6, <2>1, <2>3 DEF TtsFlush
  <2> QED
    BY <1>14, <2>2, <2>3
<1>15. CASE VocStep
  <2>1. CASE VocBreak \/ VocTop \/ VocWait \/ VocTake
    BY <1>1, <1>6, <2>1 DEF VocBreak, VocTop, VocWait, VocTake
  <2>2. CASE VocWindow
    BY <1>1, <1>6, <2>2 DEF VocWindow
  <2> QED
    BY <1>8, <1>15, <2>1, <2>2 DEF VocStep
<1>16. CASE LlmStep
  BY <1>7, <1>8, <1>9, <1>16 DEF LlmStep, MoreText, ChunkLimit, ChunkEos, Listen
<1>17. CASE TtsStep
  BY <1>8, <1>11, <1>12, <1>13, <1>14, <1>17 DEF TtsStep
<1> QED
  BY <1>7, <1>10, <1>15, <1>16, <1>17 DEF Next, Stopping

LEMMA TypeStep == TypeOK /\ PlaceInv /\ StreamInv /\ [Next]_vars => TypeOK'
<1> SUFFICES ASSUME TypeOK, PlaceInv, StreamInv, [Next]_vars  PROVE TypeOK'
  OBVIOUS
<1>1. CASE UNCHANGED vars
  BY <1>1 DEF vars, llmVars, ttsVars, vocVars, TypeOK
<1>2. CASE DecodeBegin \/ ForcedListen \/ Sampled \/ SampleBreak \/ NoRoom \/ RaiseBreak
           \/ StopBegin \/ LlmGone \/ StopTts \/ StopT2w
  <2>1. pc' \in [Threads -> Places]
    BY <1>2, StepMoves DEF Next, LlmStep, Stopping
  <2>2. /\ UNCHANGED <<ttsVars, vocVars, t2w, turnOf, turn>> /\ brk' \in BOOLEAN
        /\ listened' \in BOOLEAN /\ items' = items /\ breaks' \in Nat
        /\ stage' \in {"serving", "llm", "tts", "t2w", "done"}
    <3>1. CASE DecodeBegin \/ ForcedListen
      BY <3>1 DEF TypeOK, DecodeBegin, ForcedListen, LlmLeaves, llmVars
    <3>2. CASE Sampled \/ SampleBreak \/ NoRoom
      BY <3>2 DEF TypeOK, Sampled, SampleBreak, NoRoom, LlmLeaves, llmVars
    <3>3. CASE RaiseBreak
      BY <3>3 DEF TypeOK, RaiseBreak, llmVars
    <3>4. CASE StopBegin \/ LlmGone
      BY <3>4 DEF TypeOK, StopBegin, LlmGone, StopLeaves, llmVars
    <3>5. CASE StopTts \/ StopT2w
      BY <3>5 DEF TypeOK, StopTts, StopT2w, StopLeaves, llmVars
    <3> QED
      BY <1>2, <3>1, <3>2, <3>3, <3>4, <3>5
  <2> QED
    BY <2>1, <2>2 DEF TypeOK, ttsVars, vocVars
<1>3. CASE \E t \in Threads : FallAsleep(t)
  <2>1. pc' \in [Threads -> Places]
    BY <1>3, StepMoves DEF Next, LlmStep, TtsStep, VocStep, Threads
  <2> QED
    BY <1>3, <2>1 DEF TypeOK, FallAsleep, llmVars, ttsVars, vocVars
<1>4. CASE StopEnd
  BY <1>4 DEF TypeOK, StopEnd, llmVars, ttsVars, vocVars
<1>5. ASSUME NEW w \in BOOLEAN, NEW f \in BOOLEAN, NEW e \in BOOLEAN, PushText(w, f, e),
             listened' \in BOOLEAN
      PROVE  TypeOK'
  <2>1. pc' \in [Threads -> Places]
    BY <1>5, MovedFacts, Basics DEF PushText, MovedTo, Places
  <2>2. [turn |-> turn, words |-> w, fin |-> f, eot |-> e] \in Items
    BY DEF TypeOK, Items
  <2>3. queue' \in Seq(Items)
    BY <1>5, <2>2 DEF PushText, TypeOK
  <2> QED
    BY <1>5, <2>1, <2>3 DEF TypeOK, PushText, vocVars
<1>6. CASE LlmStep
  <2>1. CASE \E e \in BOOLEAN : MoreText(e) \/ ChunkLimit(e)
    BY <1>5, <2>1 DEF MoreText, ChunkLimit, TypeOK
  <2>2. CASE \E w, e \in BOOLEAN : ChunkEos(w, e)
    BY <1>5, <2>2 DEF ChunkEos
  <2>3. CASE \E w, e \in BOOLEAN : Listen(w, e)
    <3>1. \A e \in BOOLEAN : ListenEnds(e) \in BOOLEAN
      BY DEF ListenEnds, TypeOK
    <3> QED
      BY <1>5, <2>3, <3>1 DEF Listen
  <2> QED
    BY <1>2, <1>3, <1>6, <2>1, <2>2, <2>3 DEF LlmStep, Threads
<1>7. CASE TtsStep
  <2>1. pc' \in [Threads -> Places]
    BY <1>7, StepMoves DEF Next
  <2>2. CASE TtsBreak \/ TtsTop \/ TtsWait
    <3>1. /\ UNCHANGED <<brk, stage, llmVars, vocVars, breaks, t2w, turnOf>>
          /\ queue' = queue \/ queue' = <<>>
          /\ tts' = tts \/ tts' = [tts EXCEPT !.fin = FALSE]
      BY <2>2 DEF TtsBreak, TtsTop, TtsWait, TtsLeaves, ttsVars
    <3>2. queue' \in Seq(Items)
      <4>1. queue \in Seq(Items) /\ <<>> \in Seq(Items)
        BY DEF TypeOK
      <4> QED
        BY <3>1, <4>1
    <3>3. tts' \in [item : Items, fin : BOOLEAN, flushed : BOOLEAN]
      BY <3>1 DEF TypeOK
    <3> QED
      BY <2>1, <3>1, <3>2, <3>3 DEF TypeOK, llmVars, vocVars
  <2>3. CASE TtsTake
    <3> DEFINE n == Cardinality(Taken)
    <3>1. n \in 1..Len(queue)
      BY <2>3, TakenFacts DEF TtsTake, TypeOK
    <3>2. queue' \in Seq(Items)
      <4>1. queue' = SubSeq(queue, n + 1, Len(queue)) /\ queue \in Seq(Items)
        BY <2>3 DEF TtsTake, TypeOK
      <4>2. Len(queue) \in Nat
        BY <4>1
      <4> HIDE DEF n
      <4>3. n + 1 \in 1..Len(queue) + 1 /\ Len(queue) \in (n + 1) - 1..Len(queue)
        BY <3>1, <4>2
      <4> QED
        BY <4>1, <4>3, PartFacts
    <3>3. queue[n] \in Items /\ (\E k \in 1..n : queue[k].words) \in BOOLEAN
      BY <3>1 DEF TypeOK
    <3>4. [queue[n] EXCEPT !.words = \E k \in 1..n : queue[k].words] \in Items
      <4> HIDE DEF n
      <4> QED
        BY <3>3 DEF Items
    <3>5. tts' \in [item : Items, fin : BOOLEAN, flushed : BOOLEAN]
      <4>1. /\ tts' = [tts EXCEPT !.fin = @ \/ \E k \in 1..n : queue[k].fin,
                                  !.item = [queue[n] EXCEPT !.words = \E k \in 1..n : queue[k].words]]
        BY <2>3 DEF TtsTake
      <4>2. (tts.fin \/ \E k \in 1..n : queue[k].fin) \in BOOLEAN
        BY DEF TypeOK
      <4> HIDE DEF n
      <4> QED
        BY <3>4, <4>1, <4>2 DEF TypeOK
    <3> QED
      BY <2>1, <2>3, <3>2, <3>5 DEF TypeOK, TtsTake, TtsLeaves, llmVars, vocVars
  <2>4. ASSUME NEW n \in Nat, NEW f \in BOOLEAN, NEW l \in Places, PushAudio(n, f, l),
               TtsLeaves, UNCHANGED queue, tts' \in [item : Items, fin : BOOLEAN, flushed : BOOLEAN]
        PROVE  TypeOK'
    BY <2>1, <2>4, PushFacts DEF TypeOK, TtsLeaves, llmVars, vocVars
  <2>5. CASE TtsChunkEnd \/ TtsFinish
    <3>1. /\ \/ \E f \in BOOLEAN : PushAudio(0, f, "top")
             \/ UNCHANGED <<t2w, turnOf>>
          /\ TtsLeaves /\ UNCHANGED queue
          /\ tts' \in [item : Items, fin : BOOLEAN, flushed : BOOLEAN]
      BY <2>5 DEF TtsChunkEnd, TtsFinish, TypeOK, Items
    <3> QED
      BY <2>1, <2>4, <3>1 DEF Places, TypeOK, TtsLeaves, llmVars, vocVars
  <2>6. ASSUME NEW n \in Tails \cup {PerText}, TtsMake(n) \/ TtsFlush(n)
        PROVE  TypeOK'
    <3>1. /\ \/ \E f \in BOOLEAN, l \in Places : PushAudio(n, f, l)
             \/ UNCHANGED <<t2w, turnOf>>
          /\ TtsLeaves /\ UNCHANGED queue
          /\ tts' \in [item : Items, fin : BOOLEAN, flushed : BOOLEAN]
      <4>1. tts.item.eot \in BOOLEAN /\ tts.flushed \in BOOLEAN
        BY DEF TypeOK, Items
      <4>2. CASE TtsMake(n)
        <5>1. PushAudio(n, tts.item.eot, IF tts.fin THEN "finish" ELSE "top")
          BY <4>2 DEF TtsMake
        <5>2. (IF tts.fin THEN "finish" ELSE "top") \in Places
          BY DEF Places
        <5>3. TtsLeaves /\ queue' = queue /\ tts' \in [item : Items, fin : BOOLEAN, flushed : BOOLEAN]
          <6>1. ((tts.item.eot /\ n > 0) \/ AfterWords(tts.flushed)) \in BOOLEAN
            BY <4>1 DEF AfterWords
          <6> QED
            BY <4>2, <6>1 DEF TtsMake, TypeOK
        <5> QED
          BY <4>1, <5>1, <5>2, <5>3, Zenon
      <4>3. CASE TtsFlush(n)
        <5>1. \/ PushAudio(n, TRUE, "finish") /\ tts' = [tts EXCEPT !.flushed = n > 0]
              \/ tts' = tts /\ UNCHANGED <<t2w, turnOf>>
          BY <4>3 DEF TtsFlush
        <5>2. "finish" \in Places /\ TRUE \in BOOLEAN
          BY DEF Places
        <5>3. TtsLeaves /\ queue' = queue /\ tts' \in [item : Items, fin : BOOLEAN, flushed : BOOLEAN]
          <6>1. (n > 0) \in BOOLEAN
            OBVIOUS
          <6> QED
            BY <4>3, <5>1, <6>1 DEF TtsFlush, TypeOK
        <5> QED
          BY <5>1, <5>2, <5>3, Zenon
      <4> QED
        BY <2>6, <4>2, <4>3
    <3>2. n \in Nat
      BY WindowAssumption
    <3> QED
      BY <2>1, <2>4, <3>1, <3>2 DEF TypeOK, TtsLeaves, llmVars, vocVars
  <2> QED
    BY <1>3, <1>7, <2>2, <2>3, <2>5, <2>6 DEF TtsStep, Threads
<1>8. CASE VocStep
  <2>1. pc' \in [Threads -> Places]
    BY <1>8, StepMoves DEF Next
  <2>2. CASE VocBreak
    <3>1. buffer' \in Seq(Nat) /\ Len(buffer') >= Look /\ t2w' \in Seq(Audio)
      BY <2>2, Basics DEF VocBreak
    <3> QED
      BY <2>1, <2>2, <3>1 DEF TypeOK, VocBreak, VocLeaves, llmVars, ttsVars
  <2>3. CASE VocTop \/ VocWait
    BY <2>1, <2>3 DEF TypeOK, VocTop, VocWait, VocLeaves, llmVars, ttsVars, vocVars
  <2>4. CASE VocTake
    <3>1. buffer' \in Seq(Nat) /\ Len(buffer') >= Look
      <4>1. PICK m : Extended(m)
        BY <2>4, TakeFacts
      <4>2. Len(buffer) \in Nat /\ Len(buffer) >= Look /\ Look \in Nat /\ Len(turnOf) \in Nat
        BY Basics DEF TypeOK
      <4>3. /\ buffer' \in Seq(Nat) /\ Len(buffer') = Len(buffer) + (Len(turnOf) - m)
            /\ m \in Nat /\ m <= Len(turnOf)
        BY <4>1 DEF Extended
      <4> QED
        BY <4>2, <4>3
    <3>2. feed' \in [final : BOOLEAN, turn : Nat]
      BY <2>4, FeedFacts
    <3> QED
      BY <2>1, <2>4, <3>1, <3>2 DEF TypeOK, VocTake, VocLeaves, llmVars, ttsVars
  <2>5. CASE VocWindow
    <3>1. /\ window' \in Seq(Nat) /\ spoken' \in Seq(Nat) /\ buffer' \in Seq(Nat)
          /\ Len(buffer') >= Look
      <4>1. PICK w : Fed(w) /\ Slid(w)
        BY <2>5, FedFacts
      <4>2. window' \in Seq(Nat) /\ spoken' \in Seq(Nat) /\ w \in Look..Len(buffer)
        BY <4>1 DEF Fed
      <4>3. \/ buffer' = Silence
            \/ w = Window /\ buffer' \in Seq(Nat) /\ Len(buffer') = Len(buffer) - Chunk
        BY <4>1 DEF Slid
      <4>4. Len(buffer) \in Nat
        BY DEF TypeOK
      <4> QED
        BY <4>2, <4>3, <4>4, Basics
    <3>2. ended' \in Nat
      BY <2>5 DEF VocWindow, TypeOK
    <3> QED
      BY <2>1, <2>5, <3>1, <3>2 DEF TypeOK, VocWindow, VocLeaves, llmVars, ttsVars
  <2> QED
    BY <1>3, <1>8, <2>2, <2>3, <2>4, <2>5 DEF VocStep, Threads
<1> QED
  BY <1>1, <1>2, <1>4, <1>6, <1>7, <1>8 DEF Next, Stopping

-----------------------------------------------------------------------------
(***************************************************************************)
(* The steps, as token2wav and its queue see them.                          *)
(***************************************************************************)
\* token2wav stays where it is, or goes where it feeds nothing
Calm == pc'["t2w"] = pc["t2w"] \/ (pc["t2w"] # "gone" /\ pc'["t2w"] # "feed")

\* nothing in front of the vocoder changes
Quiet == UNCHANGED <<t2w, turnOf, vocVars>> /\ Calm

\* The TTS thread hands over tokens of its item, only while it makes them, and the end of a
\* turn only with an item that ends one.
Hands(n, final) ==
    /\ Handed(n, final) /\ (final => tts.item.eot) /\ (n > 0 => pc["tts"] = "make")
    /\ pc["tts"] \in {"make", "finish"} /\ pc'["tts"] \in {"top", "finish"}
    /\ UNCHANGED <<queue, turn, stage, breaks, vocVars>> /\ tts'.item = tts.item
    /\ pc'["t2w"] = pc["t2w"] \/ (pc["t2w"] = "asleep" /\ pc'["t2w"] = "test")

LEMMA LlmCalm ==
  ASSUME TypeOK, DecodeBegin \/ ForcedListen \/ LlmStep
  PROVE  Quiet /\ UNCHANGED <<tts, stage, breaks>> /\ pc'["t2w"] = pc["t2w"]
<1>1. CASE DecodeBegin \/ Sampled \/ SampleBreak \/ NoRoom
  <2>1. \E l \in Places : Goto("llm", l)
    BY <1>1 DEF DecodeBegin, Sampled, SampleBreak, NoRoom, Places
  <2>2. pc'["t2w"] = pc["t2w"]
    BY <2>1 DEF Goto, Moved, Threads
  <2> QED
    BY <1>1, <2>2
    DEF DecodeBegin, Sampled, SampleBreak, NoRoom, LlmLeaves, Quiet, Calm, vocVars, ttsVars
<1>2. CASE ForcedListen
  BY <1>2 DEF ForcedListen, LlmLeaves, Quiet, Calm, vocVars, ttsVars
<1>3. CASE FallAsleep("llm")
  BY <1>3 DEF FallAsleep, Goto, Moved, Quiet, Calm, vocVars, ttsVars, Threads
<1>4. ASSUME NEW w, NEW f, NEW e, PushText(w, f, e)
      PROVE  Quiet /\ UNCHANGED <<tts, stage, breaks>> /\ pc'["t2w"] = pc["t2w"]
  <2>1. pc'["t2w"] = pc["t2w"]
    BY <1>4 DEF PushText, Moved, Threads
  <2> QED
    BY <1>4, <2>1 DEF PushText, Quiet, Calm, vocVars
<1>5. CASE \E w, e \in BOOLEAN : MoreText(e) \/ ChunkLimit(e) \/ ChunkEos(w, e) \/ Listen(w, e)
  BY <1>4, <1>5 DEF MoreText, ChunkLimit, ChunkEos, Listen
<1> QED
  BY <1>1, <1>2, <1>3, <1>5 DEF LlmStep

LEMMA PushHands ==
  ASSUME TypeOK, NEW n \in Nat, NEW final \in BOOLEAN, NEW l \in {"top", "finish"},
         PushAudio(n, final, l), TtsLeaves, UNCHANGED queue, tts'.item = tts.item,
         final => tts.item.eot, n > 0 => pc["tts"] = "make", pc["tts"] \in {"make", "finish"}
  PROVE  Hands(n, final)
<1>1. l \in Places
  BY DEF Places
<1>2. Handed(n, final) /\ pc'["tts"] = l
  BY <1>1, PushFacts DEF MovedTo
<1>3. pc'["t2w"] = pc["t2w"] \/ (pc["t2w"] = "asleep" /\ pc'["t2w"] = "test")
  BY Basics DEF PushAudio, Moved, Awake, Threads
<1> QED
  BY <1>2, <1>3 DEF Hands, TtsLeaves, llmVars

LEMMA TtsKinds ==
  ASSUME TypeOK, TtsStep
  PROVE  /\ UNCHANGED <<stage, breaks, turn>>
         /\ (Quiet /\ pc'["t2w"] = pc["t2w"]) \/ \E n, final : Hands(n, final)
<1>1. UNCHANGED <<stage, breaks, turn>>
  <2>1. CASE FallAsleep("tts")
    BY <2>1 DEF FallAsleep, llmVars
  <2>2. CASE TtsBreak \/ TtsTop \/ TtsWait \/ TtsTake \/ TtsChunkEnd \/ TtsFinish
             \/ \E n \in Tails \cup {PerText} : TtsMake(n) \/ TtsFlush(n)
    <3>1. TtsLeaves
      BY <2>2 DEF TtsBreak, TtsTop, TtsWait, TtsTake, TtsChunkEnd, TtsFinish, TtsMake, TtsFlush
    <3> QED
      BY <3>1 DEF TtsLeaves, llmVars
  <2> QED
    BY <2>1, <2>2 DEF TtsStep
<1>2. CASE TtsBreak \/ TtsTop \/ TtsWait
  BY <1>1, <1>2 DEF TtsBreak, TtsTop, TtsWait, TtsLeaves, Goto, Moved, Quiet, Calm, vocVars, Threads
<1>3. CASE TtsTake
  BY <1>1, <1>3 DEF TtsTake, TtsLeaves, Moved, Roomy, Quiet, Calm, vocVars, Threads
<1>4. CASE FallAsleep("tts")
  BY <1>1, <1>4 DEF FallAsleep, Goto, Moved, Quiet, Calm, vocVars, Threads
<1>5. tts.item.eot \in BOOLEAN /\ tts.item.words \in BOOLEAN
  BY DEF TypeOK, Items
<1>6. CASE TtsChunkEnd
  <2>1. /\ PushAudio(0, FALSE, "top") /\ TtsLeaves /\ UNCHANGED queue /\ tts'.item = tts.item
        /\ pc["tts"] = "make"
    BY <1>6 DEF TtsChunkEnd, TypeOK
  <2>2. Hands(0, FALSE)
    BY <2>1, PushHands
  <2> QED
    BY <1>1, <2>2
<1>7. CASE TtsFinish
  <2>1. TtsLeaves /\ UNCHANGED queue /\ tts'.item = tts.item /\ pc["tts"] = "finish"
    BY <1>7 DEF TtsFinish, TypeOK
  <2>2. CASE PushAudio(0, tts.item.eot, "top")
    <3>1. Hands(0, tts.item.eot)
      BY <1>5, <2>1, <2>2, PushHands
    <3> QED
      BY <1>1, <3>1
  <2>3. CASE Goto("tts", "top") /\ UNCHANGED <<t2w, turnOf>>
    BY <1>1, <2>1, <2>3 DEF TtsLeaves, Goto, Moved, Quiet, Calm, vocVars, Threads
  <2> QED
    BY <1>7, <2>2, <2>3 DEF TtsFinish
<1>8. ASSUME NEW n \in Tails \cup {PerText}, TtsMake(n)
      PROVE  Hands(n, tts.item.eot)
  <2>1. n \in Nat
    BY WindowAssumption
  <2>2. TtsLeaves /\ UNCHANGED queue /\ tts'.item = tts.item /\ pc["tts"] = "make"
    BY <1>8 DEF TtsMake, TypeOK
  <2>3. PushAudio(n, tts.item.eot, IF tts.fin THEN "finish" ELSE "top")
    BY <1>8 DEF TtsMake
  <2> QED
    BY <1>5, <2>1, <2>2, <2>3, PushHands
<1>9. ASSUME NEW n \in Tails \cup {PerText}, TtsFlush(n)
      PROVE  (Quiet /\ pc'["t2w"] = pc["t2w"]) \/ Hands(n, TRUE)
  <2>1. n \in Nat
    BY WindowAssumption
  <2>2. TtsLeaves /\ UNCHANGED queue /\ tts'.item = tts.item /\ pc["tts"] = "make" /\ tts.item.eot
    BY <1>9 DEF TtsFlush, TypeOK
  <2>3. CASE PushAudio(n, TRUE, "finish")
    BY <2>1, <2>2, <2>3, PushHands
  <2>4. CASE Goto("tts", "finish") /\ UNCHANGED <<t2w, turnOf>>
    BY <2>2, <2>4 DEF TtsLeaves, Goto, Moved, Quiet, Calm, vocVars, Threads
  <2> QED
    BY <1>9, <2>3, <2>4 DEF TtsFlush
<1> QED
  BY <1>1, <1>2, <1>3, <1>4, <1>6, <1>7, <1>8, <1>9 DEF TtsStep

\* What any step is for token2wav.
LEMMA Kinds ==
  ASSUME TypeOK, [Next]_vars
  PROVE  /\ breaks <= breaks'
         /\ stage' # "done" => stage # "done"
         /\ Quiet \/ (\E n, final : Hands(n, final)) \/ VocBreak \/ VocTake \/ VocWindow \/ StopEnd
<1>1. breaks \in Nat
  BY DEF TypeOK
<1>2. CASE DecodeBegin \/ ForcedListen \/ LlmStep
  BY <1>1, <1>2, LlmCalm
<1>3. CASE TtsStep
  BY <1>1, <1>3, TtsKinds
<1>4. CASE VocTop \/ VocWait
  <2>1. \E l \in {"test", "gone", "drowsy", "top"} : Goto("t2w", l) /\ pc["t2w"] # "gone"
    BY <1>4 DEF VocTop, VocWait
  <2>2. Calm
    BY <2>1, GotoFacts, Basics DEF Calm, MovedTo, Places
  <2> QED
    BY <1>1, <1>4, <2>2 DEF VocTop, VocWait, VocLeaves, Quiet, vocVars
<1>5. CASE FallAsleep("t2w")
  <2>1. Calm
    BY <1>5 DEF FallAsleep, Goto, Moved, Calm, Threads
  <2> QED
    BY <1>1, <1>5, <2>1 DEF FallAsleep, Quiet, vocVars
<1>6. CASE VocBreak \/ VocTake \/ VocWindow
  <2>1. VocLeaves
    BY <1>6 DEF VocBreak, VocTake, VocWindow
  <2> QED
    BY <1>1, <1>6, <2>1 DEF VocLeaves
<1>7. CASE RaiseBreak \/ StopBegin
  BY <1>1, <1>7 DEF RaiseBreak, StopBegin, StopLeaves, Quiet, Calm, vocVars
<1>8. CASE LlmGone
  BY <1>1, <1>8 DEF LlmGone, StopLeaves, Goto, Moved, Quiet, Calm, vocVars, Threads
<1>9. CASE StopTts
  BY <1>1, <1>9 DEF StopTts, StopLeaves, Moved, Quiet, Calm, vocVars, Threads
<1>10. CASE StopT2w
  <2>1. Calm
    BY <1>10 DEF StopT2w, Moved, Calm, Awake, Threads
  <2> QED
    BY <1>1, <1>10, <2>1 DEF StopT2w, StopLeaves, Quiet, vocVars
<1>11. CASE StopEnd
  BY <1>1, <1>11 DEF StopEnd
<1>12. CASE UNCHANGED vars
  BY <1>1, <1>12 DEF vars, Quiet, Calm, llmVars, ttsVars, vocVars
<1> QED
  BY <1>2, <1>3, <1>4, <1>5, <1>6, <1>7, <1>8, <1>9, <1>10, <1>11, <1>12
  DEF Next, VocStep, Stopping

\* break_event is raised by RaiseBreak alone.
LEMMA StepBreaks ==
  ASSUME TypeOK, [Next]_vars
  PROVE  brk' = brk \/ brk' = FALSE \/ RaiseBreak
<1>1. CASE DecodeBegin \/ ForcedListen \/ LlmStep
  BY <1>1
  DEF DecodeBegin, ForcedListen, LlmStep, Sampled, SampleBreak, NoRoom, FallAsleep, MoreText,
      ChunkLimit, ChunkEos, Listen, PushText
<1>2. CASE TtsStep
  BY <1>2
  DEF TtsStep, TtsBreak, TtsTop, TtsWait, TtsTake, TtsChunkEnd, TtsFinish, TtsMake, TtsFlush,
      FallAsleep, TtsLeaves
<1>3. CASE VocStep
  BY <1>3 DEF VocStep, VocBreak, VocTop, VocWait, VocTake, VocWindow, FallAsleep
<1>4. CASE StopBegin \/ LlmGone \/ StopTts \/ StopT2w \/ StopEnd
  BY <1>4 DEF StopBegin, LlmGone, StopTts, StopT2w, StopEnd, StopLeaves
<1>5. CASE UNCHANGED vars
  BY <1>5 DEF vars
<1> QED
  BY <1>1, <1>2, <1>3, <1>4, <1>5 DEF Next, Stopping

LEMMA BreaksOnce ==
  ASSUME TypeOK, [Next]_vars
  PROVE  breaks' \in Nat /\ (breaks' = 0 => breaks = 0)
<1>1. breaks' = breaks \/ breaks' = breaks + 1
  <2>1. CASE RaiseBreak
    BY <2>1 DEF RaiseBreak
  <2>2. CASE DecodeBegin \/ ForcedListen \/ LlmStep
    BY <2>2, LlmCalm
  <2>3. CASE TtsStep
    BY <2>3, TtsKinds
  <2>4. CASE VocStep
    BY <2>4
    DEF VocStep, VocBreak, VocTop, VocWait, VocTake, VocWindow, FallAsleep, VocLeaves
  <2>5. CASE StopBegin \/ LlmGone \/ StopTts \/ StopT2w \/ StopEnd
    BY <2>5 DEF StopBegin, LlmGone, StopTts, StopT2w, StopEnd, StopLeaves
  <2>6. CASE UNCHANGED vars
    BY <2>6 DEF vars
  <2> QED
    BY <2>1, <2>2, <2>3, <2>4, <2>5, <2>6 DEF Next, Stopping
<1> QED
  BY <1>1 DEF TypeOK

-----------------------------------------------------------------------------
(***************************************************************************)
(* The stream.                                                              *)
(***************************************************************************)
LEMMA PlaceStep == TypeOK /\ PlaceInv /\ [Next]_vars => PlaceInv'
<1> SUFFICES ASSUME TypeOK, PlaceInv, [Next]_vars  PROVE PlaceInv'
  OBVIOUS
<1>1. ASSUME stage' = "done"  PROVE pc'["t2w"] = "gone"
  <2>1. CASE stage = "done"
    <3>1. pc["t2w"] = "gone"
      BY <2>1 DEF PlaceInv
    <3>2. ~VocBreak /\ ~VocTake /\ ~VocWindow /\ ~StopEnd
      BY <2>1, <3>1 DEF VocBreak, VocTake, VocWindow, StopEnd
    <3>3. pc["t2w"] = "gone" /\ Calm => pc'["t2w"] = "gone"
      BY DEF Calm
    <3>4. ASSUME NEW n, NEW final, Hands(n, final)  PROVE pc'["t2w"] = "gone"
      BY <3>1, <3>4 DEF Hands
    <3> QED
      BY <3>1, <3>2, <3>3, <3>4, Kinds DEF Quiet
  <2>2. CASE stage # "done"
    <3>1. CASE StopEnd
      BY <3>1 DEF StopEnd
    <3>2. CASE DecodeBegin \/ ForcedListen \/ LlmStep
      BY <1>1, <2>2, <3>2, LlmCalm
    <3>3. CASE TtsStep
      BY <1>1, <2>2, <3>3, TtsKinds
    <3>4. CASE VocStep \/ RaiseBreak
      BY <1>1, <2>2, <3>4
      DEF VocStep, VocBreak, VocTop, VocWait, VocTake, VocWindow, FallAsleep, VocLeaves, RaiseBreak
    <3>5. CASE StopBegin \/ LlmGone \/ StopTts \/ StopT2w
      BY <1>1, <2>2, <3>5 DEF StopBegin, LlmGone, StopTts, StopT2w, StopLeaves
    <3>6. CASE UNCHANGED vars
      BY <1>1, <2>2, <3>6 DEF vars
    <3> QED
      BY <3>1, <3>2, <3>3, <3>4, <3>5, <3>6 DEF Next, Stopping
  <2> QED
    BY <2>1, <2>2
<1>2. ASSUME pc'["t2w"] = "feed"  PROVE MoreToFeed(buffer, feed.final)'
  <2>1. CASE Quiet
    <3>1. pc["t2w"] = "feed" /\ buffer' = buffer /\ feed' = feed
      BY <1>2, <2>1 DEF Quiet, Calm, vocVars
    <3> QED
      BY <3>1 DEF PlaceInv, MoreToFeed
  <2>2. ASSUME NEW n, NEW final, Hands(n, final)  PROVE MoreToFeed(buffer, feed.final)'
    <3>1. pc["t2w"] = "feed" /\ buffer' = buffer /\ feed' = feed
      BY <1>2, <2>2 DEF Hands, vocVars
    <3> QED
      BY <3>1 DEF PlaceInv, MoreToFeed
  <2>3. ASSUME NEW l, Goto("t2w", l), l \in Places  PROVE l = "feed"
    BY <1>2, <2>3, GotoFacts, Basics DEF MovedTo
  <2>4. CASE VocBreak
    <3>1. pc["t2w"] = "top" /\ pc' = pc
      BY <2>4 DEF VocBreak
    <3> QED
      BY <1>2, <3>1
  <2>5. CASE VocTake
    <3> DEFINE l == IF MoreToFeed(buffer', feed'.final) THEN "feed" ELSE "top"
    <3>1. Goto("t2w", l) /\ l \in Places
      BY <2>5 DEF VocTake, Places
    <3>2. l = "feed"
      BY <2>3, <3>1, Zenon
    <3> QED
      BY <3>2 DEF MoreToFeed
  <2>6. CASE VocWindow
    <3> DEFINE l == IF ~IsLast(Len(buffer)) /\ MoreToFeed(buffer', feed.final) THEN "feed" ELSE "top"
    <3>1. Goto("t2w", l) /\ l \in Places /\ feed' = feed
      BY <2>6 DEF VocWindow, Places
    <3>2. l = "feed"
      BY <2>3, <3>1, Zenon
    <3> QED
      BY <3>1, <3>2 DEF MoreToFeed
  <2>7. CASE StopEnd
    BY <1>2, <2>7 DEF StopEnd
  <2> QED
    BY <2>1, <2>2, <2>4, <2>5, <2>6, <2>7, Kinds
<1>3. breaks' = 0 => ~brk'
  <2>1. breaks' = 0 => breaks = 0
    BY BreaksOnce
  <2>2. CASE RaiseBreak
    BY <2>2 DEF RaiseBreak, TypeOK
  <2>3. brk' = brk \/ brk' = FALSE \/ RaiseBreak
    BY StepBreaks
  <2> QED
    BY <2>1, <2>2, <2>3 DEF PlaceInv
<1> QED
  BY <1>1, <1>2, <1>3 DEF PlaceInv

LEMMA MarksBound ==
  ASSUME NEW s \in Seq(Audio), NEW n, NEW b, Marks(b, s, n)
  PROVE  b[1] \in Nat /\ n \in Nat /\ b[1] <= n
<1>1. CASE s # <<>>
  BY <1>1, FlatMarks
<1>2. CASE s = <<>>
  <2>1. Len(s) = 0
    BY <1>2
  <2>2. b \in [1..1 -> Nat] /\ b[1] = n
    BY <2>1 DEF Marks
  <2> QED
    BY <2>2
<1> QED
  BY <1>1, <1>2

\* nothing is queued
LEMMA MarksEmpty ==
  ASSUME NEW n \in Nat
  PROVE  \E b : Marks(b, <<>>, n) /\ b[1] = n
<1> DEFINE b == [k \in 1..1 |-> n]
<1>1. Len(<<>>) = 0 /\ b[1] = n /\ b \in [1..1 -> Nat]
  OBVIOUS
<1> HIDE DEF b
<1>2. Marks(b, <<>>, n)
  BY <1>1 DEF Marks
<1> QED
  BY <1>1, <1>2

\* the chunk c holds m tokens made behind the n-th
Holds(c, m, n) == c.tokens = [i \in 1..m |-> n + i]

\* a chunk is queued
LEMMA MarksAppend ==
  ASSUME NEW s \in Seq(Audio), NEW n, NEW b, Marks(b, s, n), NEW c \in Audio, NEW m \in Nat,
         Holds(c, m, n)
  PROVE  \E d : Marks(d, Append(s, c), n + m) /\ d[1] = b[1]
<1> DEFINE len == Len(s)
           d == [k \in 1..len + 2 |-> IF k <= len + 1 THEN b[k] ELSE n + m]
<1>1. len \in Nat /\ n \in Nat
  BY MarksBound
<1>2. Len(Append(s, c)) = len + 1 /\ Append(s, c)[len + 1] = c /\ \A k \in 1..len : Append(s, c)[k] = s[k]
  OBVIOUS
<1>3. /\ b \in [1..len + 1 -> Nat] /\ b[len + 1] = n
      /\ \A k \in 1..len : b[k] <= b[k + 1]
      /\ \A k \in 1..len : s[k].tokens = [i \in 1..b[k + 1] - b[k] |-> b[k] + i]
  BY DEF Marks
<1>4. d \in [1..(len + 1) + 1 -> Nat]
  <2>1. (len + 1) + 1 = len + 2 /\ \A k \in 1..len + 2 : k <= len + 1 => b[k] \in Nat
    BY <1>1, <1>3
  <2> QED
    BY <1>1, <2>1
<1>5. (\A k \in 1..len + 1 : d[k] = b[k]) /\ d[len + 2] = n + m
  BY <1>1
<1> HIDE DEF d, len
<1>6. ASSUME NEW k \in 1..len + 1
      PROVE  d[k] <= d[k + 1] /\ Append(s, c)[k].tokens = [i \in 1..d[k + 1] - d[k] |-> d[k] + i]
  <2>1. CASE k \in 1..len
    <3>1. d[k] = b[k] /\ d[k + 1] = b[k + 1]
      BY <1>1, <1>5, <2>1
    <3> QED
      BY <1>2, <1>3, <2>1, <3>1
  <2>2. CASE k = len + 1
    <3>1. d[k] = n /\ k + 1 = len + 2 /\ d[k + 1] = n + m
      BY <1>1, <1>3, <1>5, <2>2
    <3>2. (n + m) - n = m /\ n <= n + m
      BY <1>1
    <3>3. Append(s, c)[k].tokens = [i \in 1..(n + m) - n |-> n + i]
      BY <1>2, <2>2, <3>2 DEF Holds
    <3> QED
      BY <3>1, <3>2, <3>3
  <2>3. k \in 1..len \/ k = len + 1
    BY <1>1
  <2> QED
    BY <2>1, <2>2, <2>3, Zenon
<1>7. d[(len + 1) + 1] = n + m /\ d[1] = b[1]
  <2>1. (len + 1) + 1 = len + 2 /\ 1 \in 1..len + 1
    BY <1>1
  <2> QED
    BY <1>5, <2>1
<1>8. Marks(d, Append(s, c), n + m)
  BY <1>2, <1>4, <1>6, <1>7 DEF Marks
<1> QED
  BY <1>7, <1>8

\* What Behind says in numbers.
LEMMA BehindNumbers ==
  ASSUME TypeOK
  PROVE  /\ Len(buffer) \in Nat /\ Len(spoken) \in Nat /\ Len(turnOf) \in Nat /\ breaks \in Nat
         /\ Look \in Nat \ {0} /\ Chunk \in Nat \ {0} /\ Look <= Chunk /\ Window = Chunk + Look
         /\ Look <= Len(buffer)
         /\ \A i \in 1..Len(spoken) : spoken[i] \in Nat
         /\ \A i \in 1..Len(buffer) : buffer[i] \in Nat
<1>1. /\ buffer \in Seq(Nat) /\ spoken \in Seq(Nat) /\ turnOf \in Seq(Nat) /\ breaks \in Nat
      /\ Look <= Len(buffer)
  BY WindowAssumption DEF TypeOK
<1>2. \A s \in Seq(Nat) : Len(s) \in Nat /\ \A i \in 1..Len(s) : s[i] \in Nat
  OBVIOUS
<1> QED
  BY <1>1, <1>2, Basics

LEMMA BehindTake ==
  ASSUME TypeOK, NEW m, Extended(m), spoken' = spoken, turnOf' = turnOf, breaks' = breaks
  PROVE  Behind(Len(turnOf))'
<1> DEFINE L == Len(turnOf)
           old == Len(buffer)
           new == Len(buffer')
<1>1. /\ m \in Nat /\ m <= L /\ L \in Nat /\ old \in Nat /\ Look \in Nat /\ Look <= old
      /\ new = old + (L - m) /\ new \in Nat
  BY BehindNumbers DEF Extended
<1>2. /\ old - Look <= m
      /\ \A i \in Look + 1..old : buffer[i] = m - old + i
      /\ \A i \in 1..Len(spoken) : spoken[i] <= m - (old - Look)
      /\ breaks = 0 => Len(spoken) = m - (old - Look)
  BY DEF Extended, Behind
<1>3. /\ \A i \in 1..old : buffer'[i] = buffer[i]
      /\ \A i \in old + 1..new : buffer'[i] = m - old + i
  BY DEF Extended
<1>4. m - (old - Look) = L - (new - Look) /\ new - Look <= L /\ \A i \in Int : m - old + i = L - new + i
  BY <1>1, <1>2
<1> HIDE DEF L, old, new
<1>5. ASSUME NEW i \in Look + 1..new  PROVE buffer'[i] = L - new + i
  <2>1. CASE i <= old
    <3>1. i \in Look + 1..old /\ i \in 1..old
      BY <1>1, <2>1
    <3>2. buffer'[i] = m - old + i
      BY <1>2, <1>3, <3>1
    <3> QED
      BY <1>4, <3>2
  <2>2. CASE ~(i <= old)
    <3>1. i \in old + 1..new
      BY <1>1, <2>2
    <3> QED
      BY <1>3, <1>4, <3>1
  <2> QED
    BY <2>1, <2>2
<1> QED
  BY <1>2, <1>4, <1>5 DEF Behind, L, old, new

LEMMA BehindWindow ==
  ASSUME TypeOK, NEW m \in Nat, Behind(m), NEW w, Fed(w), Slid(w), breaks' = breaks
  PROVE  Behind(m)'
<1> DEFINE len == Len(buffer)
           said == Len(spoken)
<1>1. /\ len \in Nat /\ said \in Nat /\ Look \in Nat \ {0} /\ Chunk \in Nat \ {0} /\ Window = Chunk + Look
      /\ w \in Look..len
  BY BehindNumbers DEF Fed
<1>2. /\ len - Look <= m
      /\ \A i \in Look + 1..len : buffer[i] = m - len + i
      /\ \A i \in 1..said : spoken[i] <= m - (len - Look)
      /\ breaks = 0 => said = m - (len - Look)
  BY DEF Behind
<1>3. /\ Len(spoken') = said + (w - Look)
      /\ \A i \in 1..said : spoken'[i] = spoken[i]
      /\ \A i \in 1..w - Look : spoken'[said + i] = buffer[Look + i]
  BY DEF Fed
<1>4. \A i \in 1..said : spoken[i] \in Nat
  BY BehindNumbers
<1> HIDE DEF len, said
<1>5. ASSUME NEW i \in 1..Len(spoken')  PROVE spoken'[i] <= m - len + w
  <2>1. CASE i \in 1..said
    <3>1. spoken'[i] <= m - (len - Look) /\ spoken'[i] \in Nat
      BY <1>2, <1>3, <1>4, <2>1
    <3> QED
      BY <1>1, <3>1
  <2>2. CASE i \notin 1..said
    <3>1. i - said \in 1..w - Look /\ said + (i - said) = i
      BY <1>1, <1>3, <2>2
    <3>2. Look + (i - said) \in Look + 1..len
      BY <1>1, <3>1
    <3>3. spoken'[said + (i - said)] = buffer[Look + (i - said)]
      BY <1>3, <3>1
    <3>4. spoken'[i] = m - len + (Look + (i - said))
      BY <1>2, <3>1, <3>2, <3>3
    <3> QED
      BY <1>1, <3>1, <3>4
  <2> QED
    BY <2>1, <2>2
<1>6. breaks = 0 => Len(spoken') = m - len + w
  BY <1>1, <1>2, <1>3
<1>7. CASE w = len /\ buffer' = Silence
  <2>1. Len(buffer') = Look
    BY <1>7, Basics
  <2>2. m - len + w = m - (Look - Look) /\ Look - Look = 0 /\ 0 <= m
    BY <1>1, <1>7
  <2>3. \A i \in Look + 1..Look : FALSE
    BY <1>1
  <2>4. /\ \A i \in 1..Len(spoken') : spoken'[i] <= m - (Look - Look)
        /\ breaks' = 0 => Len(spoken') = m - (Look - Look)
    BY <1>5, <1>6, <2>2
  <2> QED
    BY <2>1, <2>2, <2>3, <2>4 DEF Behind
<1>8. CASE /\ w = Window /\ Len(buffer') = len - Chunk
           /\ \A i \in 1..len - Chunk : buffer'[i] = buffer[i + Chunk]
  <2>1. m - len + w = m - ((len - Chunk) - Look) /\ (len - Chunk) - Look <= m
    BY <1>1, <1>2, <1>8
  <2>2. ASSUME NEW i \in Look + 1..len - Chunk  PROVE buffer'[i] = m - (len - Chunk) + i
    <3>1. i \in 1..len - Chunk /\ i + Chunk \in Look + 1..len /\ m - len + (i + Chunk) = m - (len - Chunk) + i
      BY <1>1
    <3> QED
      BY <1>2, <1>8, <3>1
  <2>4. /\ \A i \in 1..Len(spoken') : spoken'[i] <= m - ((len - Chunk) - Look)
        /\ breaks' = 0 => Len(spoken') = m - ((len - Chunk) - Look)
    BY <1>5, <1>6, <2>1
  <2> QED
    BY <1>8, <2>1, <2>2, <2>4 DEF Behind
<1> QED
  BY <1>7, <1>8 DEF Slid, len

\* What is fed goes on where it stopped.
LEMMA SpokenWindow ==
  ASSUME TypeOK, StreamInv, NEW m \in Nat, Behind(m), NEW w, Fed(w), breaks' = breaks
  PROVE  /\ \A i \in 1..Len(spoken') - 1 : spoken'[i] < spoken'[i + 1]
         /\ breaks' = 0 => \A i \in 1..Len(spoken') : spoken'[i] = i
<1> DEFINE len == Len(buffer)
           said == Len(spoken)
<1>1. /\ len \in Nat /\ said \in Nat /\ Look \in Nat \ {0} /\ w \in Look..len
  BY BehindNumbers DEF Fed
<1>2. /\ \A i \in Look + 1..len : buffer[i] = m - len + i
      /\ \A i \in 1..said : spoken[i] <= m - (len - Look)
      /\ breaks = 0 => said = m - (len - Look)
  BY DEF Behind
<1>3. /\ Len(spoken') = said + (w - Look)
      /\ \A i \in 1..said : spoken'[i] = spoken[i]
      /\ \A i \in 1..w - Look : spoken'[said + i] = buffer[Look + i]
  BY DEF Fed
<1>4. \A i \in 1..said : spoken[i] \in Nat
  BY BehindNumbers
<1>5. /\ \A i \in 1..said - 1 : spoken[i] < spoken[i + 1]
      /\ breaks = 0 => \A i \in 1..said : spoken[i] = i
  BY DEF StreamInv
<1> HIDE DEF len, said
<1>6. ASSUME NEW i \in said + 1..said + (w - Look)  PROVE spoken'[i] = m - len + Look + (i - said)
  <2>1. i - said \in 1..w - Look /\ said + (i - said) = i /\ Look + (i - said) \in Look + 1..len
    BY <1>1
  <2>2. spoken'[said + (i - said)] = buffer[Look + (i - said)]
    BY <1>3, <2>1
  <2>3. spoken'[i] = m - len + (Look + (i - said))
    BY <1>2, <2>1, <2>2
  <2> QED
    BY <1>1, <2>3
<1>7. ASSUME NEW i \in 1..Len(spoken') - 1  PROVE spoken'[i] < spoken'[i + 1]
  <2>1. CASE i < said
    <3>1. i \in 1..said - 1 /\ i \in 1..said /\ i + 1 \in 1..said
      BY <1>1, <2>1
    <3> QED
      BY <1>3, <1>5, <3>1
  <2>2. CASE i = said
    <3>1. i \in 1..said /\ i + 1 \in said + 1..said + (w - Look) /\ (i + 1) - said = 1
      BY <1>1, <1>3, <2>2
    <3>2. spoken'[i] <= m - (len - Look) /\ spoken'[i] \in Nat
      BY <1>2, <1>3, <1>4, <3>1
    <3>3. spoken'[i + 1] = m - len + Look + 1
      BY <1>6, <3>1
    <3> QED
      BY <1>1, <3>2, <3>3
  <2>3. CASE i > said
    <3>1. i \in said + 1..said + (w - Look) /\ i + 1 \in said + 1..said + (w - Look)
      BY <1>1, <1>3, <2>3
    <3>2. spoken'[i] = m - len + Look + (i - said) /\ spoken'[i + 1] = m - len + Look + ((i + 1) - said)
      BY <1>6, <3>1
    <3> QED
      BY <1>1, <3>2
  <2> QED
    BY <1>1, <2>1, <2>2, <2>3
<1>8. ASSUME breaks' = 0, NEW i \in 1..Len(spoken')  PROVE spoken'[i] = i
  <2>1. CASE i \in 1..said
    BY <1>3, <1>5, <1>8, <2>1
  <2>2. CASE i \notin 1..said
    <3>1. i \in said + 1..said + (w - Look)
      BY <1>1, <1>3, <2>2
    <3>2. spoken'[i] = m - len + Look + (i - said) /\ said = m - (len - Look)
      BY <1>2, <1>6, <1>8, <3>1
    <3> QED
      BY <1>1, <3>2
  <2> QED
    BY <2>1, <2>2
<1> QED
  BY <1>7, <1>8

LEMMA StreamStep == TypeOK /\ PlaceInv /\ StreamInv /\ [Next]_vars => StreamInv'
<1> SUFFICES ASSUME TypeOK, PlaceInv, StreamInv, [Next]_vars  PROVE StreamInv'
  OBVIOUS
<1>1. breaks' = 0 => breaks = 0
  BY BreaksOnce
<1>2. t2w \in Seq(Audio) /\ Len(turnOf) \in Nat /\ turnOf \in Seq(Nat)
  BY DEF TypeOK
<1>3. stage # "done" => \E b : Marks(b, t2w, Len(turnOf)) /\ Behind(b[1])
  BY DEF StreamInv
<1>4. ASSUME spoken' = spoken
      PROVE  /\ \A i \in 1..Len(spoken') - 1 : spoken'[i] < spoken'[i + 1]
             /\ breaks' = 0 => \A i \in 1..Len(spoken') : spoken'[i] = i
  BY <1>1, <1>4 DEF StreamInv
<1>5. ASSUME NEW m, Behind(m), vocVars' = vocVars  PROVE Behind(m)'
  BY <1>1, <1>5 DEF Behind, vocVars
<1>6. CASE Quiet
  <2>1. spoken' = spoken /\ vocVars' = vocVars /\ t2w' = t2w /\ turnOf' = turnOf
    BY <1>6 DEF Quiet, vocVars
  <2>2. ASSUME stage' # "done"  PROVE (\E b : Marks(b, t2w, Len(turnOf)) /\ Behind(b[1]))'
    <3>1. PICK b : Marks(b, t2w, Len(turnOf)) /\ Behind(b[1])
      BY <1>3, <2>2, Kinds
    <3>2. Behind(b[1])'
      BY <1>5, <2>1, <3>1
    <3> QED
      BY <2>1, <3>1, <3>2
  <2> QED
    BY <1>4, <2>1, <2>2 DEF StreamInv
<1>7. ASSUME NEW n, NEW final, Hands(n, final)  PROVE StreamInv'
  <2>1. spoken' = spoken /\ vocVars' = vocVars
    BY <1>7 DEF Hands, vocVars
  <2> DEFINE c == [tokens |-> [i \in 1..n |-> Len(turnOf) + i], final |-> final, turn |-> tts.item.turn]
  <2>2. n \in Nat /\ final \in BOOLEAN /\ t2w' = Append(t2w, c)
        /\ turnOf' = turnOf \o [i \in 1..n |-> tts.item.turn]
    BY <1>7 DEF Hands, Handed
  <2>3. tts.item.turn \in Nat
    BY DEF TypeOK, Items
  <2>4. c \in Audio /\ Holds(c, n, Len(turnOf))
    <3>1. [i \in 1..n |-> Len(turnOf) + i] \in Seq(Nat)
      BY <1>2, <2>2
    <3> QED
      BY <2>2, <2>3, <3>1 DEF Audio, Holds
  <2>5. Len(turnOf') = Len(turnOf) + n
    <3>1. [i \in 1..n |-> tts.item.turn] \in Seq(Nat) /\ Len([i \in 1..n |-> tts.item.turn]) = n
      BY <2>2, <2>3
    <3> QED
      BY <1>2, <2>2, <3>1, JoinFacts
  <2> HIDE DEF c
  <2>6. ASSUME stage' # "done"  PROVE (\E b : Marks(b, t2w, Len(turnOf)) /\ Behind(b[1]))'
    <3>1. PICK b : Marks(b, t2w, Len(turnOf)) /\ Behind(b[1])
      BY <1>3, <2>6, Kinds
    <3>2. PICK d : Marks(d, Append(t2w, c), Len(turnOf) + n) /\ d[1] = b[1]
      <4>1. t2w \in Seq(Audio) /\ c \in Audio /\ n \in Nat /\ Holds(c, n, Len(turnOf))
        BY <1>2, <2>2, <2>4
      <4>2. Marks(b, t2w, Len(turnOf))
        BY <3>1
      <4>3. \A s \in Seq(Audio), e \in Audio, l \in Nat : \A x, y :
               Marks(y, s, x) /\ Holds(e, l, x)
                  => \E d : Marks(d, Append(s, e), x + l) /\ d[1] = y[1]
        BY MarksAppend
      <4>4. \A l \in Nat : \A x, y :
               Marks(y, t2w, x) /\ Holds(c, l, x)
                  => \E d : Marks(d, Append(t2w, c), x + l) /\ d[1] = y[1]
        BY <4>1, <4>3
      <4> QED
        BY <4>1, <4>2, <4>4
    <3>3. Behind(d[1])'
      BY <1>5, <2>1, <3>1, <3>2
    <3>4. Marks(d, t2w, Len(turnOf))'
      BY <2>2, <2>5, <3>2
    <3> QED
      BY <3>3, <3>4
  <2> QED
    BY <1>4, <2>1, <2>6 DEF StreamInv
<1>8. CASE VocBreak
  <2>1. /\ spoken' = spoken /\ t2w' = <<>> /\ turnOf' = turnOf /\ brk /\ breaks' = breaks
        /\ buffer' = Silence
    BY <1>8 DEF VocBreak, VocLeaves
  <2>2. breaks # 0
    BY <2>1 DEF PlaceInv
  <2>3. ASSUME stage' # "done"  PROVE (\E b : Marks(b, t2w, Len(turnOf)) /\ Behind(b[1]))'
    <3>1. PICK b : Marks(b, t2w, Len(turnOf)) /\ Behind(b[1])
      BY <1>3, <2>3, Kinds
    <3>2. b[1] \in Nat /\ b[1] <= Len(turnOf)
      BY <1>2, <3>1, MarksBound
    <3>3. PICK d : Marks(d, <<>>, Len(turnOf)) /\ d[1] = Len(turnOf)
      BY <1>2, MarksEmpty
    <3>4. \A i \in 1..Len(spoken) : spoken[i] <= Len(turnOf) - (Look - Look)
      <4>1. ASSUME NEW i \in 1..Len(spoken)  PROVE spoken[i] <= Len(turnOf) - (Look - Look)
        <5>1. spoken[i] <= b[1] - (Len(buffer) - Look)
          BY <3>1 DEF Behind
        <5>2. spoken[i] \in Nat /\ Len(buffer) \in Nat /\ Look \in Nat /\ Look <= Len(buffer)
          BY BehindNumbers
        <5> QED
          BY <1>2, <3>2, <5>1, <5>2
      <4> QED
        BY <4>1
    <3>5. Len(buffer') = Look /\ Look \in Nat
      BY <2>1, Basics
    <3>6. Behind(Len(turnOf))'
      <4>1. Look - Look <= Len(turnOf) /\ \A i \in Look + 1..Look : FALSE
        BY <1>2, <3>5
      <4> QED
        BY <2>1, <2>2, <3>4, <3>5, <4>1 DEF Behind
    <3>7. Behind(d[1])'
      BY <2>1, <3>3, <3>6
    <3> QED
      BY <2>1, <3>3, <3>7
  <2> QED
    BY <1>4, <2>1, <2>3 DEF StreamInv
<1>9. CASE VocTake
  <2>1. spoken' = spoken /\ t2w' = <<>> /\ turnOf' = turnOf /\ breaks' = breaks
    BY <1>9 DEF VocTake, VocLeaves
  <2>2. PICK m : Extended(m)
    BY <1>9, TakeFacts
  <2>3. Behind(Len(turnOf))'
    BY <2>1, <2>2, BehindTake
  <2>4. PICK d : Marks(d, <<>>, Len(turnOf)) /\ d[1] = Len(turnOf)
    BY <1>2, MarksEmpty
  <2>5. Marks(d, t2w, Len(turnOf))' /\ Behind(d[1])'
    BY <2>1, <2>3, <2>4
  <2> QED
    BY <1>4, <2>1, <2>5 DEF StreamInv
<1>10. CASE VocWindow
  <2>1. t2w' = t2w /\ turnOf' = turnOf /\ breaks' = breaks /\ stage # "done"
    BY <1>10 DEF VocWindow, VocLeaves, PlaceInv
  <2>2. PICK w : Fed(w) /\ Slid(w)
    BY <1>10, FedFacts
  <2>3. PICK b : Marks(b, t2w, Len(turnOf)) /\ Behind(b[1])
    BY <1>3, <2>1
  <2>4. b[1] \in Nat
    BY <1>2, <2>3, MarksBound
  <2>5. Behind(b[1])'
    BY <2>1, <2>2, <2>3, <2>4, BehindWindow
  <2>6. /\ \A i \in 1..Len(spoken') - 1 : spoken'[i] < spoken'[i + 1]
        /\ breaks' = 0 => \A i \in 1..Len(spoken') : spoken'[i] = i
    BY <2>1, <2>2, <2>3, <2>4, SpokenWindow
  <2>7. Marks(b, t2w, Len(turnOf))'
    BY <2>1, <2>3
  <2> QED
    BY <2>5, <2>6, <2>7 DEF StreamInv
<1>11. CASE StopEnd
  <2>1. spoken' = spoken /\ stage' = "done"
    BY <1>11 DEF StopEnd, vocVars
  <2> QED
    BY <1>4, <2>1 DEF StreamInv
<1> QED
  BY <1>6, <1>7, <1>8, <1>9, <1>10, <1>11, Kinds

LEMMA OpenStep == TypeOK /\ PlaceInv /\ StreamInv /\ OpenInv /\ [Next]_vars => OpenInv'
<1> SUFFICES ASSUME TypeOK, PlaceInv, StreamInv, OpenInv, [Next]_vars  PROVE OpenInv'
  OBVIOUS
<1>1. ASSUME buffer' = buffer, spoken' = spoken  PROVE OpenInv'
  BY <1>1 DEF OpenInv
<1>2. ASSUME buffer' = Silence  PROVE OpenInv'
  BY <1>2, Basics DEF OpenInv
<1>3. CASE Quiet \/ StopEnd
  BY <1>1, <1>3 DEF Quiet, StopEnd, vocVars
<1>4. ASSUME NEW n, NEW final, Hands(n, final)  PROVE OpenInv'
  BY <1>1, <1>4 DEF Hands, vocVars
<1>5. CASE VocBreak
  BY <1>2, <1>5 DEF VocBreak
<1>6. CASE VocTake
  <2>1. PICK m : Extended(m)
    BY <1>6, TakeFacts
  <2>2. \A i \in 1..Look : buffer'[i] = buffer[i]
    <3>1. 1..Look \subseteq 1..Len(buffer)
      BY BehindNumbers
    <3> QED
      BY <2>1, <3>1 DEF Extended
  <2>3. spoken' = spoken
    BY <1>6 DEF VocTake
  <2> QED
    BY <2>2, <2>3 DEF OpenInv
<1>7. CASE VocWindow
  <2>1. PICK w : Fed(w) /\ Slid(w)
    BY <1>7, FedFacts
  <2>2. CASE /\ w = Window /\ Len(buffer') = Len(buffer) - Chunk
             /\ \A i \in 1..Len(buffer) - Chunk : buffer'[i] = buffer[i + Chunk]
    <3> DEFINE said == Len(spoken)
               len == Len(buffer)
    <3>1. /\ said \in Nat /\ len \in Nat /\ Look \in Nat \ {0} /\ Chunk \in Nat /\ Look <= Chunk
          /\ Window = Chunk + Look /\ w \in Look..len
      BY <2>1, BehindNumbers DEF Fed
    <3>2. /\ Len(spoken') = said + (w - Look)
          /\ \A i \in 1..w - Look : spoken'[said + i] = buffer[Look + i]
      BY <2>1 DEF Fed
    <3> HIDE DEF said, len
    <3>3. Len(spoken') = said + Chunk /\ Len(spoken') >= Look
      BY <2>2, <3>1, <3>2
    <3>4. ASSUME NEW i \in 1..Look  PROVE buffer'[i] = spoken'[Len(spoken') - Look + i]
      <4>1. /\ Chunk - Look + i \in 1..w - Look /\ i \in 1..len - Chunk
            /\ said + (Chunk - Look + i) = Len(spoken') - Look + i
            /\ Look + (Chunk - Look + i) = i + Chunk
        BY <2>2, <3>1, <3>3
      <4>2. spoken'[said + (Chunk - Look + i)] = buffer[Look + (Chunk - Look + i)]
        BY <3>2, <4>1
      <4>3. buffer'[i] = buffer[i + Chunk]
        BY <2>2, <4>1 DEF len
      <4> QED
        BY <4>1, <4>2, <4>3
    <3> QED
      BY <3>3, <3>4 DEF OpenInv
  <2> QED
    BY <1>2, <2>1, <2>2 DEF Slid
<1> QED
  BY <1>3, <1>4, <1>5, <1>6, <1>7, Kinds

\* The end of a sequence that something was put behind is what was put there.
LEMMA LastJoin ==
  ASSUME NEW E, NEW s \in Seq(E), NEW t \in Seq(E)
  PROVE  LastOf(s \o t, Len(t)) = t /\ SubSeq(s \o t, 1, Len(s \o t) - Len(t)) = s
<1> DEFINE u == s \o t
<1>1. /\ u \in Seq(E) /\ Len(u) = Len(s) + Len(t) /\ Len(s) \in Nat /\ Len(t) \in Nat
      /\ \A i \in 1..Len(s) : u[i] = s[i]
      /\ \A i \in Len(s) + 1..Len(s) + Len(t) : u[i] = t[i - Len(s)]
  BY JoinFacts
<1> HIDE DEF u
<1>2. LastOf(u, Len(t)) = t
  <2> DEFINE p == SubSeq(u, Len(u) - Len(t) + 1, Len(u))
  <2>1. /\ Len(u) - Len(t) + 1 \in 1..Len(u) + 1 /\ Len(u) \in (Len(u) - Len(t) + 1) - 1..Len(u)
        /\ Len(u) - (Len(u) - Len(t) + 1) + 1 = Len(t)
    BY <1>1
  <2>2. /\ p \in Seq(E) /\ Len(p) = Len(u) - (Len(u) - Len(t) + 1) + 1
        /\ \A i \in 1..Len(u) - (Len(u) - Len(t) + 1) + 1 : p[i] = u[i + (Len(u) - Len(t) + 1) - 1]
    BY <1>1, <2>1, PartFacts
  <2> HIDE DEF p
  <2>3. Len(p) = Len(t)
    BY <2>1, <2>2
  <2>4. ASSUME NEW i \in 1..Len(p)  PROVE p[i] = t[i]
    <3>1. /\ i + (Len(u) - Len(t) + 1) - 1 \in Len(s) + 1..Len(s) + Len(t)
          /\ (i + (Len(u) - Len(t) + 1) - 1) - Len(s) = i
      BY <1>1, <2>3
    <3>2. p[i] = u[i + (Len(u) - Len(t) + 1) - 1]
      BY <2>1, <2>2, <2>3
    <3> QED
      BY <1>1, <3>1, <3>2
  <2>5. p = t
    BY <2>2, <2>3, <2>4, SameSequence
  <2> QED
    BY <2>5 DEF LastOf, p
<1>3. SubSeq(u, 1, Len(u) - Len(t)) = s
  <2> DEFINE p == SubSeq(u, 1, Len(s))
  <2>1. 1 \in 1..Len(u) + 1 /\ Len(s) \in 1 - 1..Len(u) /\ Len(s) - 1 + 1 = Len(s)
    BY <1>1
  <2>2. p \in Seq(E) /\ Len(p) = Len(s) - 1 + 1 /\ \A i \in 1..Len(s) - 1 + 1 : p[i] = u[i + 1 - 1]
    BY <1>1, <2>1, PartFacts
  <2> HIDE DEF p
  <2>3. \A i \in 1..Len(p) : p[i] = s[i]
    <3>1. ASSUME NEW i \in 1..Len(p)  PROVE p[i] = s[i]
      <4>1. i + 1 - 1 = i /\ i \in 1..Len(s)
        BY <2>1, <2>2
      <4> QED
        BY <1>1, <2>1, <2>2, <4>1
    <3> QED
      BY <3>1
  <2>4. p = s
    BY <2>1, <2>2, <2>3, SameSequence
  <2>5. Len(u) - Len(t) = Len(s)
    BY <1>1
  <2> QED
    BY <2>4, <2>5 DEF p
<1> QED
  BY <1>2, <1>3 DEF u

\* What the buffer opens with, as the window shows it.
LEMMA OpenWindow ==
  ASSUME TypeOK, OpenInv, NEW w, Fed(w)
  PROVE  \/ SubSeq(window', 1, Look) = Silence
         \/ SubSeq(window', 1, Look) = LastOf(Silence \o spoken, Look)
<1> DEFINE open == SubSeq(window', 1, Look)
<1>1. /\ Look \in Nat \ {0} /\ Len(spoken) \in Nat /\ spoken \in Seq(Nat)
      /\ Silence \in Seq(Nat) /\ Len(Silence) = Look /\ \A i \in 1..Look : Silence[i] = 0
  BY Basics, BehindNumbers DEF TypeOK
<1>2. open \in Seq(Nat) /\ Len(open) = Look /\ \A i \in 1..Look : open[i] = buffer[i]
  <2>1. /\ window' \in Seq(Nat) /\ Len(window') = w /\ \A i \in 1..w : window'[i] = buffer[i]
        /\ w \in Look..Len(buffer) /\ Len(buffer) \in Nat
    BY BehindNumbers DEF Fed
  <2>2. 1 \in 1..Len(window') + 1 /\ Look \in 1 - 1..Len(window') /\ Look - 1 + 1 = Look
    BY <1>1, <2>1
  <2>3. /\ open \in Seq(Nat) /\ Len(open) = Look - 1 + 1
        /\ \A i \in 1..Look - 1 + 1 : open[i] = window'[i + 1 - 1]
    BY <2>1, <2>2, PartFacts
  <2> HIDE DEF open
  <2>4. ASSUME NEW i \in 1..Look  PROVE open[i] = buffer[i]
    <3>1. i + 1 - 1 = i /\ i \in 1..w
      BY <1>1, <2>1
    <3> QED
      BY <2>1, <2>2, <2>3, <3>1
  <2> QED
    BY <2>2, <2>3, <2>4
<1> HIDE DEF open
<1>3. CASE \A i \in 1..Look : buffer[i] = 0
  <2>1. open = Silence
    BY <1>1, <1>2, <1>3, SameSequence
  <2> QED
    BY <2>1 DEF open
<1>4. CASE Len(spoken) >= Look /\ \A i \in 1..Look : buffer[i] = spoken[Len(spoken) - Look + i]
  <2> DEFINE u == Silence \o spoken
             p == SubSeq(u, Len(u) - Look + 1, Len(u))
  <2>1. /\ u \in Seq(Nat) /\ Len(u) = Look + Len(spoken)
        /\ \A i \in Look + 1..Look + Len(spoken) : u[i] = spoken[i - Look]
    <3>1. /\ u \in Seq(Nat) /\ Len(u) = Len(Silence) + Len(spoken)
          /\ \A i \in Len(Silence) + 1..Len(Silence) + Len(spoken) : u[i] = spoken[i - Len(Silence)]
      BY <1>1, JoinFacts, Zenon
    <3> HIDE DEF u
    <3> QED
      BY <1>1, <3>1
  <2> HIDE DEF u
  <2>2. /\ Len(u) - Look + 1 \in 1..Len(u) + 1 /\ Len(u) \in (Len(u) - Look + 1) - 1..Len(u)
        /\ Len(u) - (Len(u) - Look + 1) + 1 = Look
    BY <1>1, <2>1
  <2>3. /\ p \in Seq(Nat) /\ Len(p) = Len(u) - (Len(u) - Look + 1) + 1
        /\ \A i \in 1..Len(u) - (Len(u) - Look + 1) + 1 : p[i] = u[i + (Len(u) - Look + 1) - 1]
    BY <2>1, <2>2, PartFacts
  <2> HIDE DEF p
  <2>4. ASSUME NEW i \in 1..Look  PROVE open[i] = p[i]
    <3>1. /\ i + (Len(u) - Look + 1) - 1 \in Look + 1..Look + Len(spoken)
          /\ (i + (Len(u) - Look + 1) - 1) - Look = Len(spoken) - Look + i
      BY <1>1, <1>4, <2>1
    <3>2. p[i] = u[i + (Len(u) - Look + 1) - 1]
      BY <2>2, <2>3
    <3>3. p[i] = spoken[Len(spoken) - Look + i]
      BY <2>1, <3>1, <3>2
    <3>4. open[i] = spoken[Len(spoken) - Look + i]
      BY <1>2, <1>4
    <3> QED
      BY <3>3, <3>4
  <2>5. open = p
    BY <1>2, <2>2, <2>3, <2>4, SameSequence
  <2> QED
    BY <2>5 DEF open, p, u, LastOf
<1> QED
  BY <1>3, <1>4 DEF OpenInv

LEMMA WindowStep == TypeOK /\ PlaceInv /\ OpenInv /\ WindowInv /\ [Next]_vars => WindowInv'
<1> SUFFICES ASSUME TypeOK, PlaceInv, OpenInv, WindowInv, [Next]_vars  PROVE WindowInv'
  OBVIOUS
<1>1. ASSUME window' = window, spoken' = spoken  PROVE WindowInv'
  BY <1>1 DEF WindowInv, LastOf
<1>2. CASE Quiet \/ StopEnd
  BY <1>1, <1>2 DEF Quiet, StopEnd, vocVars
<1>3. ASSUME NEW n, NEW final, Hands(n, final)  PROVE WindowInv'
  BY <1>1, <1>3 DEF Hands, vocVars
<1>4. CASE VocBreak \/ VocTake
  BY <1>1, <1>4 DEF VocBreak, VocTake
<1>5. CASE VocWindow
  <2>1. PICK w : Fed(w)
    BY <1>5, FedFacts
  <2> DEFINE new == SubSeq(window', Look + 1, Len(window'))
             before == SubSeq(spoken', 1, Len(spoken') - Len(new))
             open == SubSeq(window', 1, Look)
  <2>2. spoken' = spoken \o new /\ spoken \in Seq(Nat) /\ new \in Seq(Nat)
    <3>1. /\ window' \in Seq(Nat) /\ Look + 1 \in 1..Len(window') + 1
          /\ Len(window') \in (Look + 1) - 1..Len(window')
      <4>1. window' \in Seq(Nat) /\ Len(window') = w /\ w \in Look..Len(buffer)
        BY <2>1 DEF Fed
      <4>2. Look \in Nat /\ Len(buffer) \in Nat
        BY BehindNumbers
      <4> QED
        BY <4>1, <4>2
    <3>2. new \in Seq(Nat)
      BY <3>1, PartFacts
    <3> QED
      BY <2>1, <3>2 DEF Fed, TypeOK
  <2>3. open = Silence \/ open = LastOf(Silence \o spoken, Look)
    BY <2>1, OpenWindow
  <2> HIDE DEF new, open
  <2>4. LastOf(spoken', Len(new)) = new /\ before = spoken
    BY <2>2, LastJoin
  <2> HIDE DEF before
  <2>5. /\ LastOf(spoken', Len(new)) = new
        /\ open = Silence \/ open = LastOf(Silence \o before, Look)
    BY <2>3, <2>4
  <2> QED
    BY <2>5, Zenon DEF WindowInv, LastOf, new, open, before, Silence
<1> QED
  BY <1>2, <1>3, <1>4, <1>5, Kinds

-----------------------------------------------------------------------------
(***************************************************************************)
(* The turns.                                                               *)
(***************************************************************************)
LEMMA TurnNumbers ==
  ASSUME TypeOK
  PROVE  /\ turn \in Nat /\ Len(queue) \in Nat /\ queue \in Seq(Items)
         /\ \A k \in 1..Len(queue) : queue[k] \in Items /\ queue[k].turn \in Nat /\ Beyond(queue[k]) \in Nat
         /\ tts.item \in Items /\ tts.item.turn \in Nat /\ Beyond(tts.item) \in Nat
         /\ NextTurn \in Nat /\ Lowest \in Nat
<1>1. \A x \in Items : x.turn \in Nat /\ Beyond(x) \in Nat
  BY DEF Items, Beyond
<1>2. /\ turn \in Nat /\ queue \in Seq(Items) /\ tts.item \in Items
  BY DEF TypeOK
<1>3. Len(queue) \in Nat /\ \A k \in 1..Len(queue) : queue[k] \in Items
  BY <1>2
<1>4. NextTurn \in Nat
  <2>1. queue # <<>> => 1 \in 1..Len(queue)
    BY <1>2
  <2> QED
    BY <1>1, <1>2, <1>3, <2>1 DEF NextTurn
<1> QED
  BY <1>1, <1>2, <1>3, <1>4 DEF Lowest

\* Nothing that orders the turns changes.
LEMMA SameOrder ==
  ASSUME TypeOK, OrderInv, queue' = queue, turn' = turn, tts'.item = tts.item,
         \/ pc'["tts"] = pc["tts"]
         \/ pc["tts"] # "make" /\ pc'["tts"] \notin {"make", "finish"}
         \/ pc["tts"] = "make" /\ pc'["tts"] \in {"top", "finish"}
  PROVE  OrderInv' /\ Lowest <= Lowest'
<1>1. NextTurn' = NextTurn
  BY DEF NextTurn
<1>2. Beyond(tts.item)' = Beyond(tts.item)
  BY DEF Beyond
<1>3. /\ \A k \in 1..Len(queue) : Beyond(queue[k]) <= turn
      /\ \A k \in 1..Len(queue) : \A j \in 1..k - 1 : Beyond(queue[j]) <= queue[k].turn
      /\ pc["tts"] \in {"make", "finish"} => Beyond(tts.item) <= NextTurn
  BY DEF OrderInv
<1>4. OrderInv'
  <2>1. (/\ \A k \in 1..Len(queue) : Beyond(queue[k]) <= turn
         /\ \A k \in 1..Len(queue) : \A j \in 1..k - 1 : Beyond(queue[j]) <= queue[k].turn)'
    BY <1>3 DEF Beyond
  <2>2. pc'["tts"] \in {"make", "finish"} => pc["tts"] \in {"make", "finish"}
    OBVIOUS
  <2>3. (pc["tts"] \in {"make", "finish"} => Beyond(tts.item) <= NextTurn)'
    BY <1>1, <1>2, <1>3, <2>2
  <2> QED
    BY <2>1, <2>3 DEF OrderInv
<1>5. /\ tts.item.turn <= Beyond(tts.item) /\ tts.item.turn \in Nat /\ Beyond(tts.item) \in Nat
      /\ NextTurn \in Nat
  BY TurnNumbers DEF Beyond
<1>6. Lowest <= Lowest'
  <2>1. CASE pc["tts"] = "make" /\ pc'["tts"] = "make"
    BY <1>5, <2>1 DEF Lowest
  <2>2. CASE pc["tts"] = "make" /\ pc'["tts"] # "make"
    <3>1. Lowest = tts.item.turn /\ Lowest' = NextTurn /\ Beyond(tts.item) <= NextTurn
      BY <1>1, <1>3, <2>2 DEF Lowest
    <3> QED
      BY <1>5, <3>1
  <2>3. CASE pc["tts"] # "make"
    <3>1. Lowest = NextTurn /\ Lowest' = NextTurn
      BY <1>1, <2>3 DEF Lowest
    <3> QED
      BY <1>5, <3>1
  <2> QED
    BY <2>1, <2>2, <2>3
<1> QED
  BY <1>4, <1>6

LEMMA PushOrder ==
  ASSUME TypeOK, OrderInv, NEW w \in BOOLEAN, NEW f \in BOOLEAN, NEW e \in BOOLEAN, PushText(w, f, e)
  PROVE  OrderInv' /\ Lowest <= Lowest'
<1> DEFINE c == [turn |-> turn, words |-> w, fin |-> f, eot |-> e]
           len == Len(queue)
<1>1. queue' = Append(queue, c) /\ turn' = Beyond(c) /\ tts' = tts
  BY DEF PushText, Beyond
<1>2. c \in Items /\ c.turn = turn /\ Beyond(c) \in Nat /\ turn <= Beyond(c)
  BY TurnNumbers DEF Items, Beyond
<1>3. /\ len \in Nat /\ queue \in Seq(Items) /\ turn \in Nat /\ turn' \in Nat
      /\ \A k \in 1..len : Beyond(queue[k]) \in Nat /\ queue[k].turn \in Nat
  BY <1>1, <1>2, TurnNumbers
<1> HIDE DEF c
<1>4. /\ Len(queue') = len + 1 /\ queue'[len + 1] = c /\ \A k \in 1..len : queue'[k] = queue[k]
      /\ queue' # <<>>
  BY <1>1, <1>2, <1>3
<1> HIDE DEF len
<1>5. /\ \A k \in 1..len : Beyond(queue[k]) <= turn
      /\ \A k \in 1..len : \A j \in 1..k - 1 : Beyond(queue[j]) <= queue[k].turn
      /\ pc["tts"] \in {"make", "finish"} => Beyond(tts.item) <= NextTurn
  BY DEF OrderInv, len
<1>6. NextTurn' = NextTurn
  <2>1. CASE queue = <<>>
    <3>1. len = 0 /\ queue'[1] = c
      BY <1>4, <2>1 DEF len
    <3> QED
      BY <1>2, <1>4, <2>1, <3>1 DEF NextTurn
  <2>2. CASE queue # <<>>
    <3>1. queue'[1] = queue[1]
      BY <1>3, <1>4, <2>2 DEF len
    <3> QED
      BY <1>4, <2>2, <3>1 DEF NextTurn
  <2> QED
    BY <2>1, <2>2
<1>7. pc'["tts"] = pc["tts"] \/ (pc["tts"] = "asleep" /\ pc'["tts"] = "test")
  BY DEF PushText, Moved, Awake, Threads
<1>8. ASSUME NEW k \in 1..len + 1  PROVE Beyond(queue'[k]) <= turn'
  <2>1. CASE k \in 1..len
    BY <1>1, <1>2, <1>3, <1>4, <1>5, <2>1
  <2>2. CASE k = len + 1
    BY <1>1, <1>3, <1>4, <2>2
  <2> QED
    BY <1>3, <2>1, <2>2
<1>9. ASSUME NEW k \in 1..len + 1, NEW j \in 1..k - 1  PROVE Beyond(queue'[j]) <= queue'[k].turn
  <2>1. j \in 1..len /\ queue'[j] = queue[j]
    BY <1>3, <1>4
  <2>2. CASE k \in 1..len
    BY <1>4, <1>5, <2>1, <2>2
  <2>3. CASE k = len + 1
    BY <1>2, <1>4, <1>5, <2>1, <2>3
  <2> QED
    BY <1>3, <2>2, <2>3
<1>10. pc'["tts"] \in {"make", "finish"} => Beyond(tts'.item) <= NextTurn'
  BY <1>1, <1>5, <1>6, <1>7
<1>11. OrderInv'
  BY <1>4, <1>8, <1>9, <1>10 DEF OrderInv, Beyond
<1>12. Lowest' = Lowest
  BY <1>1, <1>6, <1>7 DEF Lowest
<1> QED
  BY <1>11, <1>12, TurnNumbers

LEMMA EmptyOrder ==
  ASSUME TypeOK, OrderInv, queue' = <<>>, turn' = turn, tts'.item = tts.item, pc'["tts"] = pc["tts"]
  PROVE  OrderInv' /\ Lowest <= Lowest'
<1>1. NextTurn' = turn
  BY DEF NextTurn
<1>2. NextTurn <= turn
  <2>1. CASE queue = <<>>
    BY <2>1, TurnNumbers DEF NextTurn
  <2>2. CASE queue # <<>>
    <3>1. 1 \in 1..Len(queue)
      BY <2>2, TurnNumbers
    <3>2. Beyond(queue[1]) <= turn /\ queue[1].turn \in Nat /\ Beyond(queue[1]) \in Nat
      BY <3>1, TurnNumbers DEF OrderInv
    <3>3. queue[1].turn <= Beyond(queue[1])
      BY <3>2 DEF Beyond
    <3> QED
      BY <2>2, <3>2, <3>3, TurnNumbers DEF NextTurn
  <2> QED
    BY <2>1, <2>2
<1>3. /\ Beyond(tts.item)' = Beyond(tts.item) /\ tts'.item.turn = tts.item.turn
      /\ Beyond(tts.item) \in Nat /\ NextTurn \in Nat /\ turn \in Nat /\ tts.item.turn \in Nat
  BY TurnNumbers DEF Beyond
<1>4. OrderInv'
  <2>1. Len(queue') = 0
    OBVIOUS
  <2>2. pc["tts"] \in {"make", "finish"} => Beyond(tts.item) <= NextTurn
    BY DEF OrderInv
  <2>3. (pc["tts"] \in {"make", "finish"} => Beyond(tts.item) <= NextTurn)'
    BY <1>1, <1>2, <1>3, <2>2
  <2> QED
    BY <2>1, <2>3 DEF OrderInv
<1>5. Lowest <= Lowest'
  BY <1>1, <1>2, <1>3 DEF Lowest
<1> QED
  BY <1>4, <1>5

LEMMA TakeOrder ==
  ASSUME TypeOK, OrderInv, TtsTake
  PROVE  OrderInv' /\ Lowest <= Lowest'
<1> DEFINE n == Cardinality(Taken)
           len == Len(queue)
<1>1. n \in 1..len
  BY TakenFacts, TurnNumbers DEF TtsTake
<1>2. /\ queue' = SubSeq(queue, n + 1, len) /\ turn' = turn
      /\ tts'.item.turn = queue[n].turn /\ tts'.item.eot = queue[n].eot
  <2>1. queue[n] \in Items
    BY <1>1, TurnNumbers
  <2>2. tts'.item = [queue[n] EXCEPT !.words = \E k \in 1..n : queue[k].words]
    BY DEF TtsTake, TypeOK
  <2> HIDE DEF n
  <2>3. tts'.item.turn = queue[n].turn /\ tts'.item.eot = queue[n].eot
    BY <2>1, <2>2 DEF Items
  <2> QED
    BY <2>3 DEF TtsTake, TtsLeaves, llmVars, n
<1>3. pc["tts"] = "test" /\ pc'["tts"] = "make"
  BY DEF TtsTake, Moved, Threads
<1> HIDE DEF n
<1>4. /\ len \in Nat /\ queue \in Seq(Items) /\ turn \in Nat
      /\ \A k \in 1..len : Beyond(queue[k]) \in Nat /\ queue[k].turn \in Nat
  BY TurnNumbers
<1>5. /\ Len(queue') = len - n /\ queue' \in Seq(Items)
      /\ \A k \in 1..len - n : queue'[k] = queue[k + n]
  <2> DEFINE p == SubSeq(queue, n + 1, len)
  <2>1. n + 1 \in 1..len + 1 /\ len \in (n + 1) - 1..len /\ len - (n + 1) + 1 = len - n
    BY <1>1, <1>4
  <2>2. /\ p \in Seq(Items) /\ Len(p) = len - (n + 1) + 1
        /\ \A k \in 1..len - (n + 1) + 1 : p[k] = queue[k + (n + 1) - 1]
    BY <1>4, <2>1, PartFacts
  <2> HIDE DEF p, len
  <2>3. ASSUME NEW k \in 1..len - n  PROVE p[k] = queue[k + n]
    <3>1. k + (n + 1) - 1 = k + n
      BY <1>1
    <3> QED
      BY <2>1, <2>2, <3>1
  <2>4. p \in Seq(Items) /\ Len(p) = len - n
    BY <2>1, <2>2
  <2>5. queue' = p
    BY <1>2 DEF p
  <2> QED
    BY <2>3, <2>4, <2>5
<1> HIDE DEF len
<1>6. /\ \A k \in 1..len : Beyond(queue[k]) <= turn
      /\ \A k \in 1..len : \A j \in 1..k - 1 : Beyond(queue[j]) <= queue[k].turn
  BY DEF OrderInv, len
<1>7. Beyond(tts'.item) = Beyond(queue[n])
  BY <1>2 DEF Beyond
<1>8. Beyond(queue[n]) <= NextTurn'
  <2>1. CASE n = len
    <3>1. queue' = <<>>
      BY <1>4, <1>5, <2>1
    <3> QED
      BY <1>1, <1>2, <1>6, <3>1 DEF NextTurn
  <2>2. CASE n # len
    <3>1. 1 \in 1..len - n /\ n + 1 \in 1..len /\ n \in 1..(n + 1) - 1 /\ 1 + n = n + 1
      BY <1>1, <1>4, <2>2
    <3>2. queue'[1] = queue[n + 1] /\ queue' # <<>>
      BY <1>5, <3>1
    <3>3. Beyond(queue[n]) <= queue[n + 1].turn
      BY <1>6, <3>1
    <3> QED
      BY <3>2, <3>3 DEF NextTurn
  <2> QED
    BY <2>1, <2>2
<1>9. ASSUME NEW k \in 1..len - n
      PROVE  /\ Beyond(queue'[k]) <= turn'
             /\ \A j \in 1..k - 1 : Beyond(queue'[j]) <= queue'[k].turn
  <2>1. k + n \in 1..len /\ queue'[k] = queue[k + n]
    BY <1>1, <1>4, <1>5
  <2>2. ASSUME NEW j \in 1..k - 1  PROVE Beyond(queue'[j]) <= queue'[k].turn
    <3>1. j \in 1..len - n /\ j + n \in 1..(k + n) - 1
      BY <1>1, <1>4
    <3>2. queue'[j] = queue[j + n]
      BY <1>5, <3>1
    <3>3. Beyond(queue[j + n]) <= queue[k + n].turn
      BY <1>6, <2>1, <3>1
    <3> QED
      BY <2>1, <3>2, <3>3
  <2>3. Beyond(queue[k + n]) <= turn
    BY <1>6, <2>1
  <2> QED
    BY <1>2, <2>1, <2>2, <2>3
<1>10. OrderInv'
  BY <1>5, <1>7, <1>8, <1>9 DEF OrderInv, Beyond
<1>11. Lowest = queue[1].turn /\ Lowest' = queue[n].turn
  BY <1>2, <1>3 DEF Lowest, NextTurn, TtsTake
<1>12. queue[1].turn <= queue[n].turn
  <2>1. 1 \in 1..len /\ n \in Nat
    BY <1>1, <1>4
  <2>2. CASE n = 1
    BY <1>4, <2>1, <2>2
  <2>3. CASE n # 1
    <3>1. 1 \in 1..n - 1
      BY <1>1, <1>4, <2>3
    <3>2. Beyond(queue[1]) <= queue[n].turn
      BY <1>1, <1>6, <3>1
    <3>3. queue[1].turn <= Beyond(queue[1])
      BY <1>4, <2>1 DEF Beyond
    <3> QED
      BY <1>1, <1>4, <2>1, <3>2, <3>3
  <2> QED
    BY <2>2, <2>3
<1> QED
  BY <1>10, <1>11, <1>12

\* The order is kept, and the turns to come are never earlier than they were.
LEMMA OrderStep == TypeOK /\ OrderInv /\ [Next]_vars => OrderInv' /\ Lowest <= Lowest'
<1> SUFFICES ASSUME TypeOK, OrderInv, [Next]_vars  PROVE OrderInv' /\ Lowest <= Lowest'
  OBVIOUS
<1>1. ASSUME NEW n, NEW final, Hands(n, final)  PROVE OrderInv' /\ Lowest <= Lowest'
  <2>1. /\ queue' = queue /\ turn' = turn /\ tts'.item = tts.item
        /\ pc["tts"] \in {"make", "finish"} /\ pc'["tts"] \in {"top", "finish"}
    BY <1>1 DEF Hands
  <2> QED
    BY <2>1, SameOrder
<1>2. CASE DecodeBegin \/ ForcedListen \/ LlmStep
  <2>1. CASE \E w, f, e \in BOOLEAN : PushText(w, f, e)
    BY <2>1, PushOrder
  <2>2. CASE DecodeBegin \/ ForcedListen \/ Sampled \/ SampleBreak \/ NoRoom \/ FallAsleep("llm")
    <3>1. queue' = queue /\ turn' = turn /\ tts'.item = tts.item
      BY <2>2
      DEF DecodeBegin, ForcedListen, Sampled, SampleBreak, NoRoom, FallAsleep, LlmLeaves, llmVars, ttsVars
    <3>2. pc'["tts"] = pc["tts"]
      BY <2>2
      DEF DecodeBegin, ForcedListen, Sampled, SampleBreak, NoRoom, FallAsleep, Goto, Moved, Threads
    <3> QED
      BY <3>1, <3>2, SameOrder
  <2>3. \A e \in BOOLEAN : ListenEnds(e) \in BOOLEAN
    BY DEF ListenEnds, TypeOK
  <2> QED
    BY <1>2, <2>1, <2>2, <2>3 DEF LlmStep, MoreText, ChunkLimit, ChunkEos, Listen
<1>3. CASE TtsStep
  <2>1. CASE TtsBreak
    BY <2>1, EmptyOrder DEF TtsBreak, TtsLeaves, llmVars, TypeOK
  <2>2. CASE TtsTop \/ TtsWait \/ FallAsleep("tts")
    <3>1. queue' = queue /\ turn' = turn /\ tts'.item = tts.item
      BY <2>2 DEF TtsTop, TtsWait, FallAsleep, TtsLeaves, llmVars, ttsVars
    <3>2. pc["tts"] # "make" /\ pc'["tts"] \notin {"make", "finish"}
      BY <2>2 DEF TtsTop, TtsWait, FallAsleep, Goto, Moved, Threads
    <3> QED
      BY <3>1, <3>2, SameOrder
  <2>3. CASE TtsTake
    BY <2>3, TakeOrder
  <2>4. CASE TtsChunkEnd \/ TtsFinish \/ \E n \in Tails \cup {PerText} : TtsMake(n) \/ TtsFlush(n)
    <3>1. queue' = queue /\ turn' = turn /\ tts'.item = tts.item
      BY <2>4 DEF TtsChunkEnd, TtsFinish, TtsMake, TtsFlush, TtsLeaves, llmVars, TypeOK
    <3>2. \/ pc["tts"] = "make" /\ pc'["tts"] \in {"top", "finish"}
          \/ pc["tts"] # "make" /\ pc'["tts"] = "top"
      BY <2>4
      DEF TtsChunkEnd, TtsFinish, TtsMake, TtsFlush, PushAudio, Goto, Moved, Threads
    <3> QED
      BY <3>1, <3>2, SameOrder
  <2> QED
    BY <1>3, <2>1, <2>2, <2>3, <2>4 DEF TtsStep
<1>4. CASE VocStep
  <2>1. queue' = queue /\ turn' = turn /\ tts'.item = tts.item
    BY <1>4
    DEF VocStep, VocBreak, VocTop, VocWait, VocTake, VocWindow, FallAsleep, VocLeaves, llmVars, ttsVars
  <2>2. pc'["tts"] = pc["tts"]
    BY <1>4
    DEF VocStep, VocBreak, VocTop, VocWait, VocTake, VocWindow, FallAsleep, Goto, Moved, Threads
  <2> QED
    BY <2>1, <2>2, SameOrder
<1>5. CASE RaiseBreak \/ StopBegin \/ LlmGone \/ StopTts \/ StopT2w
  <2>1. queue' = queue /\ turn' = turn /\ tts'.item = tts.item
    BY <1>5 DEF RaiseBreak, StopBegin, LlmGone, StopTts, StopT2w, StopLeaves, llmVars, ttsVars
  <2>2. pc'["tts"] = pc["tts"] \/ (pc["tts"] # "make" /\ pc'["tts"] \notin {"make", "finish"})
    BY <1>5
    DEF RaiseBreak, StopBegin, LlmGone, StopTts, StopT2w, Goto, Moved, Awake, Threads
  <2> QED
    BY <2>1, <2>2, SameOrder
<1>6. CASE StopEnd
  BY <1>6, EmptyOrder DEF StopEnd, llmVars
<1>7. CASE UNCHANGED vars
  BY <1>7, SameOrder DEF vars, llmVars, ttsVars
<1> QED
  BY <1>2, <1>3, <1>4, <1>5, <1>6, <1>7 DEF Next, Stopping

LEMMA LowestNat == TypeOK => Lowest \in Nat
  BY TurnNumbers

LEMMA ClosedStep == TypeOK /\ TypeOK' /\ PlaceInv /\ OrderInv /\ ClosedInv /\ [Next]_vars => ClosedInv'
<1> SUFFICES ASSUME TypeOK, TypeOK', PlaceInv, OrderInv, ClosedInv, [Next]_vars  PROVE ClosedInv'
  OBVIOUS
<1>1. Lowest <= Lowest' /\ Lowest \in Nat /\ Lowest' \in Nat
  <2>1. (TypeOK => Lowest \in Nat)'
    BY LowestNat, PTL
  <2> QED
    BY <2>1, LowestNat, OrderStep
<1>2. /\ \A k \in 1..Len(t2w) : t2w[k] \in Audio /\ t2w[k].turn \in Nat
      /\ Len(t2w) \in Nat /\ ended \in Nat /\ feed.turn \in Nat
  <2>1. t2w \in Seq(Audio) /\ ended \in Nat /\ feed.turn \in Nat
    BY DEF TypeOK
  <2>2. \A c \in Audio : c.turn \in Nat
    BY DEF Audio
  <2>3. Len(t2w) \in Nat /\ \A k \in 1..Len(t2w) : t2w[k] \in Audio
    BY <2>1
  <2> QED
    BY <2>1, <2>2, <2>3
<1>3. /\ \A k \in 1..Len(t2w) : t2w[k].final => t2w[k].turn < Lowest
      /\ pc["t2w"] = "feed" /\ feed.final => feed.turn < Lowest
      /\ ended < Lowest
  BY DEF ClosedInv
<1>4. /\ \A k \in 1..Len(t2w) : t2w[k].final => t2w[k].turn < Lowest'
      /\ pc["t2w"] = "feed" /\ feed.final => feed.turn < Lowest'
      /\ ended < Lowest'
  BY <1>1, <1>2, <1>3
<1>5. CASE Quiet
  <2>1. t2w' = t2w /\ feed' = feed /\ ended' = ended /\ (pc'["t2w"] = "feed" => pc["t2w"] = "feed")
    BY <1>5 DEF Quiet, Calm, vocVars
  <2> QED
    BY <1>4, <2>1 DEF ClosedInv
<1>6. ASSUME NEW n, NEW final, Hands(n, final)  PROVE ClosedInv'
  <2> DEFINE c == [tokens |-> [i \in 1..n |-> Len(turnOf) + i], final |-> final, turn |-> tts.item.turn]
  <2>1. /\ feed' = feed /\ ended' = ended /\ (pc'["t2w"] = "feed" => pc["t2w"] = "feed")
        /\ queue' = queue /\ turn' = turn /\ pc["tts"] \in {"make", "finish"}
        /\ pc'["tts"] \in {"top", "finish"} /\ (final => tts.item.eot)
    BY <1>6 DEF Hands, vocVars
  <2>2. t2w' = Append(t2w, c) /\ c.final = final /\ c.turn = tts.item.turn
    BY <1>6 DEF Hands, Handed
  <2> HIDE DEF c
  <2>3. Lowest' = NextTurn
    BY <2>1 DEF Lowest, NextTurn
  <2>4. final => tts.item.turn < Lowest'
    <3>1. Beyond(tts.item) <= NextTurn
      BY <2>1 DEF OrderInv
    <3> QED
      BY <2>1, <2>3, <3>1, TurnNumbers DEF Beyond
  <2>5. /\ Len(t2w') = Len(t2w) + 1 /\ t2w'[Len(t2w) + 1] = c
        /\ \A k \in 1..Len(t2w) : t2w'[k] = t2w[k]
    BY <2>2 DEF TypeOK
  <2>6. ASSUME NEW k \in 1..Len(t2w'), t2w'[k].final  PROVE t2w'[k].turn < Lowest'
    <3>1. CASE k \in 1..Len(t2w)
      BY <1>4, <2>5, <2>6, <3>1
    <3>2. CASE k = Len(t2w) + 1
      BY <2>2, <2>4, <2>5, <2>6, <3>2
    <3> QED
      BY <1>2, <2>5, <3>1, <3>2
  <2> QED
    BY <1>4, <2>1, <2>6 DEF ClosedInv
<1>7. CASE VocBreak \/ StopEnd
  <2>1. t2w' = <<>> /\ feed' = feed /\ ended' = ended /\ pc' = pc
    BY <1>7 DEF VocBreak, StopEnd, vocVars
  <2> QED
    BY <1>4, <2>1 DEF ClosedInv
<1>8. CASE VocTake
  <2>1. t2w' = <<>> /\ ended' = ended
    BY <1>8 DEF VocTake
  <2>2. ASSUME feed'.final  PROVE feed'.turn < Lowest'
    BY <1>4, <1>8, <2>2, FeedFacts
  <2> QED
    BY <1>4, <2>1, <2>2 DEF ClosedInv
<1>9. CASE VocWindow
  <2>1. t2w' = t2w /\ feed' = feed /\ pc["t2w"] = "feed"
    BY <1>9 DEF VocWindow
  <2>2. ended' = ended \/ (feed.final /\ ended' = feed.turn)
    BY <1>9, FedFacts DEF Slid
  <2> QED
    BY <1>4, <2>1, <2>2 DEF ClosedInv
<1> QED
  BY <1>5, <1>6, <1>7, <1>8, <1>9, Kinds

LEMMA MarkStep ==
  TypeOK /\ PlaceInv /\ StreamInv /\ OrderInv /\ ClosedInv /\ MarkInv /\ [Next]_vars => MarkInv'
<1> SUFFICES ASSUME TypeOK, PlaceInv, StreamInv, OrderInv, ClosedInv, MarkInv, [Next]_vars, breaks' = 0
             PROVE  /\ pc'["t2w"] = "feed" /\ feed'.final
                          => Within(feed.turn, Len(spoken) + Len(buffer) - Look)'
                    /\ Within(ended, Len(spoken))'
  BY DEF MarkInv
<1>1. breaks = 0 /\ ~brk
  BY BreaksOnce DEF PlaceInv
<1>2. /\ pc["t2w"] = "feed" /\ feed.final => Within(feed.turn, Len(spoken) + Len(buffer) - Look)
      /\ Within(ended, Len(spoken))
  BY <1>1 DEF MarkInv
<1>3. CASE Quiet
  <2>1. /\ turnOf' = turnOf /\ spoken' = spoken /\ buffer' = buffer /\ feed' = feed /\ ended' = ended
        /\ pc'["t2w"] = "feed" => pc["t2w"] = "feed"
    BY <1>3 DEF Quiet, Calm, vocVars
  <2> QED
    BY <1>2, <2>1 DEF Within
<1>4. ASSUME NEW n, NEW final, Hands(n, final)
      PROVE  /\ pc'["t2w"] = "feed" /\ feed'.final
                    => Within(feed.turn, Len(spoken) + Len(buffer) - Look)'
             /\ Within(ended, Len(spoken))'
  <2>1. /\ spoken' = spoken /\ buffer' = buffer /\ feed' = feed /\ ended' = ended
        /\ pc'["t2w"] = "feed" => pc["t2w"] = "feed"
        /\ n \in Nat /\ (n > 0 => pc["tts"] = "make")
        /\ turnOf' = turnOf \o [i \in 1..n |-> tts.item.turn]
    BY <1>4 DEF Hands, Handed, vocVars
  <2>2. tts.item.turn \in Nat /\ turnOf \in Seq(Nat) /\ ended \in Nat /\ feed.turn \in Nat
    BY TurnNumbers DEF TypeOK
  <2>3. /\ Len(turnOf') = Len(turnOf) + n /\ Len(turnOf) \in Nat
        /\ \A i \in 1..Len(turnOf) : turnOf'[i] = turnOf[i]
        /\ \A i \in Len(turnOf) + 1..Len(turnOf) + n : turnOf'[i] = tts.item.turn
    <3> DEFINE q == [i \in 1..n |-> tts.item.turn]
    <3>1. q \in Seq(Nat) /\ Len(q) = n /\ \A i \in 1..n : q[i] = tts.item.turn
      BY <2>1, <2>2
    <3>2. turnOf' = turnOf \o q
      BY <2>1
    <3> HIDE DEF q
    <3>3. /\ Len(turnOf') = Len(turnOf) + Len(q)
          /\ \A i \in 1..Len(turnOf) : turnOf'[i] = turnOf[i]
          /\ \A i \in Len(turnOf) + 1..Len(turnOf) + Len(q) : turnOf'[i] = q[i - Len(turnOf)]
      BY <2>2, <3>1, <3>2, JoinFacts
    <3>4. Len(turnOf) \in Nat /\ \A i \in Len(turnOf) + 1..Len(turnOf) + n : i - Len(turnOf) \in 1..n
      BY <2>1, <2>2
    <3> QED
      BY <3>1, <3>3, <3>4
  <2>4. ASSUME NEW t \in Nat, NEW m, t < Lowest, Within(t, m)
        PROVE  \A i \in 1..Len(turnOf') : turnOf'[i] <= t => i <= m
    <3>1. ASSUME NEW i \in 1..Len(turnOf'), turnOf'[i] <= t  PROVE i <= m
      <4>1. CASE i \in 1..Len(turnOf)
        BY <2>3, <2>4, <3>1, <4>1 DEF Within
      <4>2. CASE i \notin 1..Len(turnOf)
        <5>1. i \in Len(turnOf) + 1..Len(turnOf) + n /\ n > 0
          BY <2>1, <2>3, <4>2
        <5>2. turnOf'[i] = tts.item.turn /\ Lowest = tts.item.turn
          BY <2>1, <2>3, <5>1 DEF Lowest
        <5> QED
          BY <2>2, <2>4, <3>1, <5>2
      <4> QED
        BY <4>1, <4>2
    <3> QED
      BY <3>1
  <2>5. Within(ended, Len(spoken))'
    <3>1. \A i \in 1..Len(turnOf') : turnOf'[i] <= ended => i <= Len(spoken)
      BY <1>2, <2>2, <2>4 DEF ClosedInv
    <3> QED
      BY <2>1, <3>1 DEF Within
  <2>6. ASSUME pc'["t2w"] = "feed", feed'.final
        PROVE  Within(feed.turn, Len(spoken) + Len(buffer) - Look)'
    <3>1. pc["t2w"] = "feed" /\ feed.final
      BY <2>1, <2>6
    <3>2. \A i \in 1..Len(turnOf') : turnOf'[i] <= feed.turn => i <= Len(spoken) + Len(buffer) - Look
      BY <1>2, <2>2, <2>4, <3>1 DEF ClosedInv
    <3> QED
      BY <2>1, <3>2 DEF Within
  <2> QED
    BY <2>5, <2>6
<1>5. CASE VocBreak
  BY <1>1, <1>5 DEF VocBreak
<1>6. CASE VocTake
  <2>1. /\ turnOf' = turnOf /\ spoken' = spoken /\ ended' = ended
    BY <1>6 DEF VocTake, VocLeaves
  <2>2. PICK m : Extended(m)
    BY <1>6, TakeFacts
  <2>3. Len(spoken) + Len(buffer') - Look = Len(turnOf)
    <3>1. /\ Len(spoken) = m - (Len(buffer) - Look) /\ m \in Nat
          /\ Len(buffer') = Len(buffer) + (Len(turnOf) - m)
      BY <1>1, <2>2 DEF Extended, Behind
    <3> QED
      BY <3>1, BehindNumbers
  <2>4. \A i \in 1..Len(turnOf) : i <= Len(turnOf)
    BY BehindNumbers
  <2>5. Within(feed.turn, Len(spoken) + Len(buffer) - Look)'
    BY <2>1, <2>3, <2>4 DEF Within
  <2> QED
    BY <1>2, <2>1, <2>5 DEF Within
<1>7. CASE VocWindow
  <2>1. turnOf' = turnOf /\ feed' = feed /\ pc["t2w"] = "feed"
    BY <1>7 DEF VocWindow, VocLeaves
  <2>2. PICK w : Fed(w) /\ Slid(w)
    BY <1>7, FedFacts
  <2>3. /\ Len(spoken') = Len(spoken) + (w - Look) /\ w \in Look..Len(buffer)
        /\ Len(spoken) \in Nat /\ Len(buffer) \in Nat /\ Look \in Nat /\ Chunk \in Nat
        /\ Window = Chunk + Look /\ Len(turnOf) \in Nat
    BY <2>2, BehindNumbers DEF Fed
  <2>4. CASE feed.final /\ w = Len(buffer) /\ ended' = feed.turn /\ pc'["t2w"] = "top"
    <3>1. Len(spoken') = Len(spoken) + Len(buffer) - Look
      BY <2>3, <2>4
    <3>2. Within(feed.turn, Len(spoken) + Len(buffer) - Look)
      BY <1>2, <2>1, <2>4
    <3>3. Within(ended, Len(spoken))'
      BY <2>1, <2>4, <3>1, <3>2 DEF Within
    <3> QED
      BY <2>4, <3>3
  <2>5. CASE w = Window /\ ended' = ended /\ Len(buffer') = Len(buffer) - Chunk
    <3>1. Len(spoken') + Len(buffer') - Look = Len(spoken) + Len(buffer) - Look
      BY <2>3, <2>5
    <3>2. feed.final => Within(feed.turn, Len(spoken) + Len(buffer) - Look)
      BY <1>2, <2>1
    <3>3. feed.final => Within(feed.turn, Len(spoken) + Len(buffer) - Look)'
      BY <2>1, <3>1, <3>2 DEF Within
    <3>4. Len(spoken) <= Len(spoken')
      BY <2>3
    <3>5. \A i \in Nat : i <= Len(spoken) => i <= Len(spoken')
      BY <2>3, <3>4
    <3>6. Within(ended, Len(spoken))'
      BY <1>2, <2>1, <2>5, <3>5 DEF Within
    <3> QED
      BY <2>1, <3>3, <3>6
  <2> QED
    BY <2>2, <2>4, <2>5 DEF Slid
<1>8. CASE StopEnd
  <2>1. turnOf' = turnOf /\ spoken' = spoken /\ buffer' = buffer /\ feed' = feed /\ ended' = ended /\ pc' = pc
    BY <1>8 DEF StopEnd, vocVars
  <2> QED
    BY <1>2, <2>1 DEF Within
<1> QED
  BY <1>3, <1>4, <1>5, <1>6, <1>7, <1>8, Kinds

-----------------------------------------------------------------------------
(***************************************************************************)
(* The theorems.                                                            *)
(***************************************************************************)
SpeechInv == TypeOK /\ PlaceInv /\ StreamInv /\ OpenInv /\ WindowInv /\ OrderInv /\ ClosedInv /\ MarkInv

LEMMA SpeechInit == Init => SpeechInv
<1> SUFFICES ASSUME Init  PROVE SpeechInv
  OBVIOUS
<1>1. TypeOK
  BY TypeInit
<1>2. PlaceInv /\ WindowInv
  BY DEF Init, PlaceInv, WindowInv
<1>3. StreamInv
  <2>1. PICK b : Marks(b, <<>>, 0) /\ b[1] = 0
    BY MarksEmpty
  <2>2. buffer = Silence /\ Len(buffer) = Look /\ Look \in Nat /\ spoken = <<>> /\ turnOf = <<>> /\ t2w = <<>>
    BY <1>1, Basics DEF Init
  <2>3. Behind(0)
    <3>1. Look - Look <= 0 /\ 0 = 0 - (Look - Look) /\ \A i \in Look + 1..Look : FALSE
      BY <2>2
    <3>2. Len(spoken) = 0 /\ \A i \in 1..0 : FALSE
      BY <2>2
    <3> QED
      BY <2>2, <3>1, <3>2 DEF Behind
  <2>4. Len(turnOf) = 0 /\ Len(spoken) = 0
    BY <2>2
  <2>5. \E d : Marks(d, t2w, Len(turnOf)) /\ Behind(d[1])
    BY <2>1, <2>2, <2>3, <2>4
  <2> QED
    BY <2>4, <2>5 DEF StreamInv
<1>4. OpenInv
  BY <1>1, Basics DEF Init, OpenInv
<1>5. OrderInv /\ ClosedInv
  BY DEF Init, OrderInv, ClosedInv, Lowest, NextTurn
<1>6. MarkInv
  <2>1. Len(turnOf) = 0 /\ pc["t2w"] # "feed"
    BY DEF Init
  <2> QED
    BY <2>1 DEF MarkInv, Within
<1> QED
  BY <1>1, <1>2, <1>3, <1>4, <1>5, <1>6 DEF SpeechInv

LEMMA SpeechStep == SpeechInv /\ [Next]_vars => SpeechInv'
<1> SUFFICES ASSUME SpeechInv, [Next]_vars  PROVE SpeechInv'
  OBVIOUS
<1> USE DEF SpeechInv
<1>1. TypeOK'
  BY TypeStep
<1>2. PlaceInv' /\ StreamInv'
  BY PlaceStep, StreamStep
<1>3. OpenInv' /\ WindowInv'
  BY OpenStep, WindowStep
<1>4. OrderInv' /\ ClosedInv'
  BY <1>1, OrderStep, ClosedStep
<1>5. MarkInv'
  BY MarkStep
<1> QED
  BY <1>1, <1>2, <1>3, <1>4, <1>5

LEMMA SpeechInvariant == Spec => []SpeechInv
  BY SpeechInit, SpeechStep, PTL DEF Spec

\* Every variable keeps its type: whatever is queued, taken and fed.
THEOREM TypeCorrect == Spec => []TypeOK
<1>1. SpeechInv => TypeOK
  BY DEF SpeechInv
<1> QED
  BY <1>1, SpeechInvariant, PTL

\* What the vocoder is fed is one stream, for every queue, window and number of tokens and
\* through every break: a window opens with silence or the end of the one before it, no
\* token is fed twice or out of order, and without a break none is left out.
THEOREM OneStream == Spec => []WindowsTile
<1>1. SpeechInv => WindowsTile
  BY Zenon DEF SpeechInv, WindowInv, StreamInv, WindowsTile
<1> QED
  BY <1>1, SpeechInvariant, PTL

\* Without a break the generation_done mark of a turn is written only when every token of it
\* and of the turns before it was fed, also when token2wav takes several turns at once.
THEOREM MarkedWhenFed == Spec => []DoneComplete
<1>1. SpeechInv => DoneComplete
  <2> SUFFICES ASSUME SpeechInv, breaks = 0, NEW n \in 1..Len(turnOf), turnOf[n] <= ended
               PROVE  n \in 1..Len(spoken)
    BY DEF DoneComplete
  <2>1. n <= Len(spoken)
    BY DEF SpeechInv, MarkInv, Within
  <2>2. Len(spoken) \in Nat /\ Len(turnOf) \in Nat
    BY BehindNumbers DEF SpeechInv
  <2> QED
    BY <2>1, <2>2
<1> QED
  BY <1>1, SpeechInvariant, PTL
=============================================================================
