------------------------ MODULE GgmlThreadpoolProofs ------------------------
(***************************************************************************)
(* Proofs about GgmlThreadpool, for every pool, every graph and every number *)
(* of chunks: its types, that the threads of a graph keep together from     *)
(* barrier to barrier, and what of each node has been computed when.        *)
(***************************************************************************)
EXTENDS GgmlThreadpool, FiniteSetTheorems, WellFoundedInduction, TLAPS

-----------------------------------------------------------------------------
(***************************************************************************)
(* Where a thread stands in the present graph, and the barrier it comes to  *)
(* next.                                                                    *)
(***************************************************************************)
AtHome   == {"idle", "kick", "join", "freed", "top", "lock", "paused", "poll", "check", "asleep",
             "exited"}
Inside(t)  == pc[t] = "spin" /\ mine[t] = nPassed
Late(t)    == pc[t] = "spin" /\ mine[t] # nPassed      \* released, and not yet gone on
Meeting(t) == pc[t] \in {"arrive", "enter", "reset", "pass"} \/ Inside(t)
Joined(t)  == t = 0 \/ lastGraph[t] = graph.seq

\* the loop stops at the next node that is not skipped; a is abort
Stops(k, a) == k = Len(Nodes) \/ k = a \/ Kind(k) # "nop"
IsFirst(j, k, a) == j \in k..Len(Nodes) /\ Stops(j, a) /\ \A i \in k..j - 1 : ~Stops(i, a)
First(k, a) == CHOOSE j \in k..Len(Nodes) : IsFirst(j, k, a)

\* the next barrier of a thread that works on node k, and of one that looks for a node at k
AfterWork(k) == IF k + 1 < Len(Nodes) THEN <<"end", k>> ELSE <<"final", Len(Nodes)>>
AtNode(j, a) == IF j = Len(Nodes) \/ j = a THEN <<"final", j>>
                ELSE IF Kind(j) = "plain" THEN AfterWork(j) ELSE <<"start", j>>
AfterLoop(k, a) == AtNode(First(k, a), a)

\* and of one that has been released from the barrier m of node k
Beyond(m, k, a) == CASE m = "start" -> AfterWork(k)
                     [] m = "end"   -> AfterLoop(k + 1, a)
                     [] m = "final" -> <<"over", k>>

\* the barrier that a thread is in or comes to next, or the end of the graph
GateOf(joined, at, k, m, released, a) ==
    CASE ~joined                          -> AfterLoop(0, a)
      [] joined /\ at \in AtHome          -> <<"over", k>>
      [] joined /\ at = "loop"            -> AfterLoop(k, a)
      [] joined /\ at \in Working \cup {"done"}   -> AfterWork(k)
      [] joined /\ at = "spin" /\ released -> Beyond(m, k, a)
      [] OTHER                            -> <<m, k>>

Gate(t) == GateOf(Joined(t), pc[t], node[t], meet[t], mine[t] # nPassed, abort)
Now == Gate(0)

-----------------------------------------------------------------------------
(***************************************************************************)
(* The invariant.                                                           *)
(***************************************************************************)
\* the caller has places of its own; the others have none of them
HomeOK ==
    /\ pc[0] \notin {"top", "lock", "paused", "poll", "check", "asleep", "exited"}
    /\ \A t \in Threads \ {0} : pc[t] \notin {"idle", "kick", "join", "freed"}
    /\ \A t \in Threads : lastGraph[t] <= graph.seq
    /\ graph.seq > 0 => graph.n > 0
    /\ graph.seq = 0 => pc[0] \in {"idle", "kick", "join", "freed"}

\* who has no part in the graph is at home, or leaves the last barrier of an earlier one
OutsideOK ==
    \A t \in Threads : (t \notin Members \/ ~Joined(t)) /\ pc[t] \notin AtHome =>
        Late(t) /\ meet[t] = "final"

\* node numbers at each place
NodeOK ==
    \A t \in Threads : Joined(t) =>
        /\ pc[t] \in Working \cup {"done"} => node[t] < Len(Nodes) /\ Kind(node[t]) # "nop"
        /\ pc[t] = "plain" => Kind(node[t]) = "plain"
        /\ pc[t] \in {"chunk", "fetch"} => Kind(node[t]) = "chunked"
        /\ Meeting(t) \/ Late(t) =>
              /\ meet[t] = "start" => node[t] < Len(Nodes) /\ Kind(node[t]) = "chunked"
              /\ meet[t] = "end" => node[t] + 1 < Len(Nodes) /\ Kind(node[t]) # "nop"

\* all threads of the graph come to the same barrier next
Together == \A t \in Members : Gate(t) = Now

\* the two counters: who waits is counted until the last one resets the counter
Insiders == {t \in Threads : Inside(t)}
BarrierOK ==
    /\ \A t \in Threads : mine[t] <= nPassed
    /\ \A t \in Threads : pc[t] = "enter" => mine[t] = nPassed
    /\ \A t \in Threads : pc[t] \in {"reset", "pass"} =>
          \A u \in Members \ {t} : Inside(u)
    /\ nBarrier = IF \E t \in Threads : pc[t] = "pass" THEN 0
                  ELSE IF \E t \in Threads : pc[t] = "reset" THEN graph.n
                  ELSE Cardinality(Insiders)

\* a graph that is to be aborted stops at the node after the one last done
AbortOK ==
    /\ pc[0] = "kick" => abort = -1
    /\ abort # -1 => \/ Meeting(0) /\ Now = <<"end", abort - 1>>
                     \/ Now = <<"final", abort>>
                     \/ Now = <<"over", abort>>
    /\ Now[1] \in {"final", "over"} /\ Now[2] # Len(Nodes) /\ graph.seq > 0 /\ pc[0] # "kick"
          => abort = Now[2]

\* the node on which threads work, and those before it
CurrentAt(g)  == IF g[1] = "end" THEN g[2]
                 ELSE IF g = <<"final", Len(Nodes)>> THEN Len(Nodes) - 1 ELSE -1
BegunAt(g, k) == k < g[2] \/ (k = g[2] /\ g[1] = "end")
Current  == CurrentAt(Now)
Begun(k) == BegunAt(Now, k)

\* thread t has left the work on the current node k behind
Behind(t, k) == Joined(t) /\ (pc[t] = "done" \/ Meeting(t) \/ (pc[t] = "loop" /\ node[t] > k))

Holds(t, p) == Joined(t) /\ \/ pc[t] = "chunk" /\ taken[t] = p
                            \/ Late(t) /\ meet[t] = "start" /\ t = p

\* piece p of node k has been computed
Done(k, p) ==
    /\ pc[0] # "kick" /\ Begun(k) /\ p \in Pieces(k)
    /\ k = Current =>
          IF Kind(k) = "plain" THEN Behind(p, k)
          ELSE p < chunk /\ \A t \in Members : ~Holds(t, p)

WorkOK == \A k \in Steps, p \in PieceIds : work[k][p] = IF Done(k, p) THEN 1 ELSE 0

\* chunks are handed out once, and all of them before a thread goes on
ChunkOK ==
    /\ Now[1] = "start" /\ Meeting(0) => chunk = graph.n
    /\ Current # -1 /\ Kind(Current) = "chunked" =>
          /\ chunk >= graph.n
          /\ \A t \in Members : /\ pc[t] = "chunk" /\ Joined(t) =>
                                      taken[t] < chunk /\ (taken[t] < graph.n => taken[t] = t)
                                /\ Behind(t, Current) => chunk >= ChunkCount
          /\ \A t, u \in Members :
                /\ t # u /\ Joined(t) /\ Joined(u) /\ pc[t] = "chunk" /\ pc[u] = "chunk"
                      => taken[t] # taken[u]

\* TypeOK without the bound of the barrier's counter, which BarrierOK explains
Types ==
    /\ stop \in BOOLEAN /\ pause \in BOOLEAN
    /\ graph \in [seq : Nat, n : 0..Pool]
    /\ abort \in -1..Len(Nodes)
    /\ nBarrier \in Nat /\ nPassed \in Nat /\ chunk \in Nat
    /\ pc \in [Threads -> Labels]
    /\ node \in [Threads -> 0..Len(Nodes)]
    /\ meet \in [Threads -> {"start", "end", "final"}]
    /\ mine \in [Threads -> Nat]
    /\ taken \in [Threads -> Nat]
    /\ lastGraph \in [Threads -> Nat]
    /\ work \in [Steps -> [PieceIds -> Nat]]
    /\ pauses \in Nat

Inv == /\ Types /\ HomeOK /\ OutsideOK /\ NodeOK /\ Together /\ BarrierOK
       /\ AbortOK /\ WorkOK /\ ChunkOK

-----------------------------------------------------------------------------
(***************************************************************************)
(* The next gate, as a function of a thread's place.                        *)
(***************************************************************************)
LEMMA NodesFacts == Len(Nodes) \in Nat /\ \A k \in Steps : Kind(k) \in Kinds
  BY NodesAssumption DEF Steps, Kind

\* A set of naturals that is not empty has a least element.
LEMMA LeastExists ==
    ASSUME NEW T, T \subseteq Nat, T # {}
    PROVE  \E n \in T : \A m \in T : n <= m
<1>1. PICK n \in T : \A m \in T : ~ (<<m, n>> \in OpToRel(<, Nat))
  BY WFMin, NatLessThanWellFounded
<1>2. \A m \in T : ~ (m < n)
  BY <1>1, Zenon DEF OpToRel
<1> QED
  BY <1>2

\* From every place of the loop there is one next node at which it stops.
LEMMA FirstExists ==
    ASSUME NEW k \in 0..Len(Nodes), NEW a
    PROVE  IsFirst(First(k, a), k, a)
<1> DEFINE T == {j \in k..Len(Nodes) : Stops(j, a)}
<1>1. T \subseteq Nat /\ Len(Nodes) \in T
  BY NodesFacts DEF Stops
<1>2. PICK j \in T : \A m \in T : j <= m
  BY <1>1, LeastExists
<1>3. IsFirst(j, k, a)
  BY <1>1, <1>2, NodesFacts DEF IsFirst
<1> QED
  BY <1>3 DEF First, IsFirst

LEMMA FirstUnique ==
    ASSUME NEW k \in 0..Len(Nodes), NEW a, NEW i, NEW j, IsFirst(i, k, a), IsFirst(j, k, a)
    PROVE  i = j
  BY NodesFacts DEF IsFirst

\* One turn of the loop: it stops at k, or goes on to k + 1.
LEMMA FirstTurn ==
    ASSUME NEW k \in 0..Len(Nodes), NEW a
    PROVE  /\ First(k, a) \in k..Len(Nodes)
           /\ Stops(k, a) => First(k, a) = k
           /\ ~Stops(k, a) => k < Len(Nodes) /\ First(k, a) = First(k + 1, a)
<1>1. IsFirst(First(k, a), k, a)
  BY FirstExists
<1>2. Stops(k, a) => First(k, a) = k
  BY <1>1, NodesFacts DEF IsFirst
<1>3. ASSUME ~Stops(k, a) PROVE k < Len(Nodes) /\ First(k, a) = First(k + 1, a)
  <2>1. k < Len(Nodes) /\ k + 1 \in 0..Len(Nodes)
    BY <1>3, NodesFacts DEF Stops
  <2>2. IsFirst(First(k + 1, a), k + 1, a)
    BY <2>1, FirstExists
  <2>3. IsFirst(First(k + 1, a), k, a)
    BY <1>3, <2>1, <2>2, NodesFacts DEF IsFirst
  <2> QED
    BY <1>1, <2>1, <2>3, FirstUnique
<1> QED
  BY <1>1, <1>2, <1>3 DEF IsFirst

\* A gate behind the next stop does not depend on an abort that is set behind it.
LEMMA FirstAbort ==
    ASSUME NEW k \in 0..Len(Nodes), NEW a, NEW b, NEW j \in k..Len(Nodes),
           First(k, a) = j, Kind(j) # "nop" \/ j = Len(Nodes),
           b \notin 0..j - 1
    PROVE  First(k, b) = j
<1>1. IsFirst(j, k, a) /\ IsFirst(First(k, b), k, b)
  BY FirstExists
<1>2. IsFirst(j, k, b)
  BY <1>1, NodesFacts DEF IsFirst, Stops
<1> QED
  BY <1>1, <1>2, FirstUnique

\* The gate at each place.
LEMMA GateTable ==
    ASSUME NEW joined \in BOOLEAN, NEW at \in Labels, NEW k, NEW m \in {"start", "end", "final"},
           NEW released \in BOOLEAN, NEW a
    PROVE  LET g == GateOf(joined, at, k, m, released, a) IN
           /\ ~joined => g = AfterLoop(0, a)
           /\ joined => /\ at \in AtHome => g = <<"over", k>>
                        /\ at = "loop" => g = AfterLoop(k, a)
                        /\ at \in Working \cup {"done"} => g = AfterWork(k)
                        /\ at \in {"arrive", "enter", "reset", "pass"} => g = <<m, k>>
                        /\ at = "spin" /\ ~released => g = <<m, k>>
                        /\ at = "spin" /\ released => g = Beyond(m, k, a)
  BY DEF GateOf, AtHome, Working, Labels
-----------------------------------------------------------------------------
(***************************************************************************)
(* Types, and what a step of a thread leaves alone.                         *)
(***************************************************************************)
LEMMA Places ==
    /\ AtHome \subseteq Labels /\ Working \subseteq Labels
    /\ {"loop", "done", "arrive", "enter", "reset", "pass", "spin"} \subseteq Labels
  BY DEF AtHome, Working, Labels

LEMMA Constants == /\ Pool \in Nat /\ Pool > 0 /\ 0 \in Threads /\ Len(Nodes) \in Nat
                   /\ Threads \subseteq Nat /\ IsFiniteSet(Threads) /\ Cardinality(Threads) = Pool
<1>1. /\ Pool \in Nat /\ Pool > 0 /\ 0 \in Threads /\ Len(Nodes) \in Nat /\ Threads \subseteq Nat
  BY NodesFacts, PoolAssumption DEF Threads
<1>2. IsFiniteSet(Threads) /\ Cardinality(Threads) = Pool
  BY <1>1, FS_Interval DEF Threads
<1> QED
  BY <1>1, <1>2

LEMMA TypeFacts ==
    ASSUME Types
    PROVE  /\ graph.seq \in Nat /\ graph.n \in Nat /\ graph.n <= Pool
           /\ pc \in [Threads -> Labels] /\ node \in [Threads -> 0..Len(Nodes)]
           /\ meet \in [Threads -> {"start", "end", "final"}] /\ mine \in [Threads -> Nat]
           /\ taken \in [Threads -> Nat] /\ lastGraph \in [Threads -> Nat]
           /\ abort \in -1..Len(Nodes) /\ nBarrier \in Nat /\ nPassed \in Nat /\ chunk \in Nat
<1>1. graph \in [seq : Nat, n : 0..Pool]
  BY DEF Types
<1>2. graph.seq \in Nat /\ graph.n \in 0..Pool
  BY <1>1
<1>3. graph.n \in Nat /\ graph.n <= Pool
  BY <1>2, Constants
<1> QED
  BY <1>2, <1>3 DEF Types

LEMMA Update ==
    ASSUME NEW S, NEW T, NEW f \in [S -> T], NEW s \in S, NEW v \in T, NEW g,
           g = [f EXCEPT ![s] = v]
    PROVE  g \in [S -> T] /\ g[s] = v /\ \A u \in S \ {s} : g[u] = f[u]
  OBVIOUS

\* Who is not at home takes part in the present graph, or is about to leave an earlier one.
LEMMA Participant ==
    ASSUME Inv, NEW t \in Threads, pc[t] \notin AtHome, ~(Late(t) /\ meet[t] = "final")
    PROVE  t \in Members /\ Joined(t)
  BY DEF Inv, OutsideOK

\* A thread that is to go on to the next node has one to go on to.
LEMMA NextNode ==
    ASSUME Inv, NEW t \in Threads, pc[t] = "done" \/ ((Meeting(t) \/ Late(t)) /\ meet[t] = "end")
    PROVE  node[t] + 1 \in 0..Len(Nodes) /\ node[t] \in Steps
<1>1. t \in Members /\ Joined(t)
  BY Participant DEF AtHome, Late, Meeting, Inside
<1>2. node[t] \in 0..Len(Nodes) /\ Len(Nodes) \in Nat
  BY Constants DEF Inv, Types
<1>3. node[t] < Len(Nodes) \/ node[t] + 1 < Len(Nodes)
  BY <1>1, <1>2 DEF Inv, NodeOK
<1> QED
  BY <1>2, <1>3 DEF Steps

\* A thread that leaves a barrier: where it goes.
LEMMA LeaveTypes ==
    ASSUME Inv, NEW t \in Threads, Meeting(t) \/ Late(t), Leave(t)
    PROVE  /\ pc' \in [Threads -> Labels] /\ node' \in [Threads -> 0..Len(Nodes)]
           /\ taken' \in [Threads -> Nat]
           /\ \A u \in Threads \ {t} : pc'[u] = pc[u] /\ node'[u] = node[u] /\ taken'[u] = taken[u]
           /\ meet[t] = "start" => pc'[t] = "chunk" /\ taken'[t] = t /\ node'[t] = node[t]
           /\ meet[t] = "end" => pc'[t] = "loop" /\ node'[t] = node[t] + 1 /\ taken'[t] = taken[t]
           /\ meet[t] = "final" => pc'[t] = Idle(t) /\ node'[t] = node[t] /\ taken'[t] = taken[t]
<1>1. /\ pc \in [Threads -> Labels] /\ node \in [Threads -> 0..Len(Nodes)]
      /\ taken \in [Threads -> Nat] /\ meet[t] \in {"start", "end", "final"} /\ t \in Nat
  BY Constants DEF Inv, Types
<1>2. CASE meet[t] = "start"
  <2>1. pc' = [pc EXCEPT ![t] = "chunk"] /\ taken' = [taken EXCEPT ![t] = t] /\ node' = node
    BY <1>2 DEF Leave, Goto
  <2> QED
    BY <1>1, <1>2, <2>1, Places, Update DEF Working
<1>3. CASE meet[t] = "end"
  <2>1. /\ pc' = [pc EXCEPT ![t] = "loop"] /\ node' = [node EXCEPT ![t] = node[t] + 1]
        /\ taken' = taken
    BY <1>3 DEF Leave, Goto
  <2>2. node[t] + 1 \in 0..Len(Nodes) /\ "loop" \in Labels
    BY <1>3, NextNode, Places
  <2> QED
    BY <1>1, <1>3, <2>1, <2>2, Update
<1>4. CASE meet[t] = "final"
  <2>1. pc' = [pc EXCEPT ![t] = Idle(t)] /\ node' = node /\ taken' = taken
    BY <1>4 DEF Leave, Goto
  <2>2. Idle(t) \in Labels
    BY Places DEF Idle, AtHome
  <2> QED
    BY <1>1, <1>4, <2>1, <2>2, Update
<1> QED
  BY <1>1, <1>2, <1>3, <1>4

\* Every step of thread t: the other threads stay where they are, and the graph is the same.
Others(t) ==
    /\ graph' = graph
    /\ \A u \in Threads \ {t} :
          /\ pc'[u] = pc[u] /\ node'[u] = node[u] /\ meet'[u] = meet[u]
          /\ mine'[u] = mine[u] /\ taken'[u] = taken[u] /\ lastGraph'[u] = lastGraph[u]

LEMMA AnswerTypes ==
    ASSUME Types, NEW t \in Threads, Answer(t)
    PROVE  /\ pc' \in [Threads -> Labels] /\ node' \in [Threads -> 0..Len(Nodes)]
           /\ lastGraph' \in [Threads -> Nat]
           /\ \A u \in Threads \ {t} :
                 pc'[u] = pc[u] /\ node'[u] = node[u] /\ lastGraph'[u] = lastGraph[u]
<1>1. /\ pc \in [Threads -> Labels] /\ node \in [Threads -> 0..Len(Nodes)]
      /\ lastGraph \in [Threads -> Nat] /\ graph.seq \in Nat
      /\ "loop" \in Labels /\ "top" \in Labels /\ 0 \in 0..Len(Nodes)
  BY Places, Constants DEF Types, AtHome
<1>2. CASE stop \/ pause
  BY <1>1, <1>2, Update DEF Answer, Goto
<1>3. CASE ~(stop \/ pause)
  <2>1. /\ lastGraph' = [lastGraph EXCEPT ![t] = graph.seq] /\ node' = [node EXCEPT ![t] = 0]
        /\ \E l \in Labels : pc' = [pc EXCEPT ![t] = l]
    BY <1>1, <1>3 DEF Answer, Goto
  <2> QED
    BY <1>1, <2>1, Update
<1> QED
  BY <1>2, <1>3

LEMMA WorkerTypes ==
    ASSUME Inv, NEW t \in Threads, Worker(t)
    PROVE  /\ Types' /\ Others(t) /\ meet' = meet /\ mine' = mine /\ taken' = taken
           /\ UNCHANGED <<graph, nBarrier, nPassed, abort, chunk, work>>
<1>1. Types
  BY DEF Inv
<1>2. UNCHANGED <<control, barrier, abort, chunk, meet, taken, work>>
  BY DEF Worker, WorkerTop, WorkerPause, Poll, CheckForWork
<1>3. /\ pc' \in [Threads -> Labels] /\ node' \in [Threads -> 0..Len(Nodes)]
      /\ lastGraph' \in [Threads -> Nat]
      /\ \A u \in Threads \ {t} :
            pc'[u] = pc[u] /\ node'[u] = node[u] /\ lastGraph'[u] = lastGraph[u]
  <2>1. /\ pc \in [Threads -> Labels] /\ node \in [Threads -> 0..Len(Nodes)]
        /\ lastGraph \in [Threads -> Nat] /\ graph.seq \in Nat
    BY <1>1 DEF Types
  <2>2. AtHome \subseteq Labels
    BY Places
  <2>3. CASE WorkerTop(t) \/ WorkerPause(t)
    <3>1. (\E l \in AtHome : pc' = [pc EXCEPT ![t] = l]) /\ node' = node /\ lastGraph' = lastGraph
      BY <2>3 DEF WorkerTop, WorkerPause, Goto, AtHome
    <3> QED
      BY <2>1, <2>2, <3>1, Update
  <2>4. CASE Poll(t)
    <3>1. CASE Answer(t)
      BY <1>1, <3>1, AnswerTypes
    <3>2. CASE /\ lastGraph' = [lastGraph EXCEPT ![t] = graph.seq] /\ node' = node
               /\ pc' = [pc EXCEPT ![t] = "check"]
      BY <2>1, <2>2, <3>2, Update DEF AtHome
    <3>3. CASE lastGraph' = lastGraph /\ node' = node /\ pc' = [pc EXCEPT ![t] = "check"]
      BY <2>1, <2>2, <3>3, Update DEF AtHome
    <3> QED
      BY <2>4, <3>1, <3>2, <3>3 DEF Poll, Goto
  <2>5. CASE CheckForWork(t)
    <3>1. CASE Answer(t)
      BY <1>1, <3>1, AnswerTypes
    <3>2. CASE lastGraph' = lastGraph /\ node' = node /\ pc' = [pc EXCEPT ![t] = "asleep"]
      BY <2>1, <2>2, <3>2, Update DEF AtHome
    <3> QED
      BY <2>5, <3>1, <3>2 DEF CheckForWork, Goto
  <2> QED
    BY <2>3, <2>4, <2>5 DEF Worker
<1>4. Types'
  BY <1>1, <1>2, <1>3 DEF Types, control, barrier
<1> QED
  BY <1>2, <1>3, <1>4 DEF Others, control, barrier

\* The sleepers that a broadcast wakes are workers at home.
LEMMA BroadcastTypes ==
    ASSUME Types
    PROVE  /\ Broadcast \in [Threads -> Labels]
           /\ \A u \in Threads : \/ Broadcast[u] = pc[u]
                                 \/ pc[u] = "asleep" /\ Broadcast[u] = "check"
                                 \/ pc[u] = "paused" /\ Broadcast[u] = "top"
<1>1. pc \in [Threads -> Labels] /\ "check" \in Labels /\ "top" \in Labels
  BY Places DEF Types, AtHome
<1> QED
  BY <1>1 DEF Broadcast

LEMMA CallerTypes ==
    ASSUME Inv, Caller
    PROVE  /\ Types' /\ UNCHANGED <<nBarrier, nPassed, meet, mine, taken, lastGraph>>
           /\ pc[0] \in AtHome
           /\ \A u \in Threads \ {0} :
                 /\ node'[u] = node[u]
                 /\ \/ pc'[u] = pc[u]
                    \/ pc[u] \in AtHome /\ pc'[u] \in AtHome /\ pc'[u] \in {"check", "top"}
<1>0. /\ Types /\ 0 \in Threads /\ 0 \in 0..Len(Nodes) /\ Len(Nodes) \in Nat
      /\ AtHome \subseteq Labels /\ "loop" \in Labels
  BY Constants, Places DEF Inv
<1>1. /\ Types /\ pc \in [Threads -> Labels] /\ node \in [Threads -> 0..Len(Nodes)]
      /\ 0 \in Threads /\ 0 \in 0..Len(Nodes) /\ Len(Nodes) \in Nat
      /\ AtHome \subseteq Labels /\ "loop" \in Labels
      /\ graph.seq \in Nat /\ pause \in BOOLEAN /\ pauses \in Nat
  BY <1>0 DEF Types
<1>2. CASE Prepare
  <2>1. pc' = [pc EXCEPT ![0] = "kick"] /\ node' = node /\ pc[0] = "idle"
    BY <1>2 DEF Prepare, Goto
  <2>2. /\ pc' \in [Threads -> Labels] /\ pc[0] \in AtHome
        /\ \A u \in Threads \ {0} : pc'[u] = pc[u] /\ node'[u] = node[u]
    BY <1>1, <2>1, Update DEF AtHome
  <2>3. work' \in [Steps -> [PieceIds -> Nat]] /\ abort' \in -1..Len(Nodes) /\ chunk' \in Nat
    BY <1>1, <1>2 DEF Prepare, ClearWork
  <2> QED
    BY <1>1, <1>2, <2>2, <2>3 DEF Prepare, Types, control, barrier
<1>3. CASE Kickoff
  <2>1. PICK n \in 1..Pool : graph' = [seq |-> graph.seq + 1, n |-> n]
    BY <1>3 DEF Kickoff
  <2>2. graph' \in [seq : Nat, n : 0..Pool] /\ pause' \in BOOLEAN
    <3>1. graph.seq + 1 \in Nat /\ n \in 0..Pool
      BY <1>1, Constants
    <3>2. pause' = FALSE
      BY <1>3 DEF Kickoff
    <3> QED
      BY <2>1, <3>1, <3>2
  <2>3. /\ pc' = [Broadcast EXCEPT ![0] = "loop"] /\ node' = [node EXCEPT ![0] = 0]
        /\ pc[0] = "kick"
    BY <1>3 DEF Kickoff
  <2>4. /\ pc' \in [Threads -> Labels] /\ node' \in [Threads -> 0..Len(Nodes)]
        /\ \A u \in Threads \ {0} : pc'[u] = Broadcast[u] /\ node'[u] = node[u]
    BY <1>1, <2>3, BroadcastTypes, Update
  <2>5. Types'
    BY <1>1, <1>3, <2>2, <2>4 DEF Kickoff, Types, barrier
  <2> QED
    BY <1>1, <1>3, <2>3, <2>4, <2>5, BroadcastTypes DEF Kickoff, barrier, AtHome
<1>4. CASE Pause \/ Resume
  <2>1. pc' = Broadcast /\ node' = node /\ pc[0] = "idle"
    BY <1>4 DEF Pause, Resume
  <2>2. pause' \in BOOLEAN /\ pauses' \in Nat
    <3>1. pause' \in BOOLEAN /\ (pauses' = pauses + 1 \/ pauses' = pauses)
      BY <1>4 DEF Pause, Resume
    <3> QED
      BY <1>1, <3>1
  <2>3. UNCHANGED <<stop, graph, barrier, abort, chunk, meet, taken, lastGraph, work>>
    BY <1>4 DEF Pause, Resume
  <2>4. Types'
    BY <1>1, <2>1, <2>2, <2>3, BroadcastTypes DEF Types, barrier
  <2> QED
    BY <1>1, <2>1, <2>3, <2>4, BroadcastTypes DEF barrier, AtHome
<1>5. CASE FreeBegin
  <2>1. pc' = [Broadcast EXCEPT ![0] = "join"] /\ node' = node /\ pc[0] = "idle"
    BY <1>5 DEF FreeBegin
  <2>2. /\ stop' \in BOOLEAN /\ pause' \in BOOLEAN
        /\ UNCHANGED <<graph, pauses, barrier, abort, chunk, meet, taken, lastGraph, work>>
    BY <1>5 DEF FreeBegin
  <2>3. pc' \in [Threads -> Labels] /\ \A u \in Threads \ {0} : pc'[u] = Broadcast[u]
    BY <1>1, <2>1, BroadcastTypes, Update DEF AtHome
  <2>4. Types'
    BY <1>1, <2>1, <2>2, <2>3 DEF Types, barrier
  <2> QED
    BY <1>1, <2>1, <2>2, <2>3, <2>4, BroadcastTypes DEF barrier, AtHome
<1>6. CASE FreeEnd
  <2>1. pc' = [pc EXCEPT ![0] = "freed"] /\ node' = node /\ pc[0] = "join"
    BY <1>6 DEF FreeEnd, Goto
  <2>2. UNCHANGED <<control, barrier, abort, chunk, node, meet, taken, lastGraph, work>>
    BY <1>6 DEF FreeEnd
  <2>3. /\ pc' \in [Threads -> Labels] /\ pc[0] \in AtHome
        /\ \A u \in Threads \ {0} : pc'[u] = pc[u] /\ node'[u] = node[u]
    BY <1>1, <2>1, Update DEF AtHome
  <2> QED
    BY <1>1, <2>2, <2>3 DEF Types, control, barrier
<1> QED
  BY <1>2, <1>3, <1>4, <1>5, <1>6 DEF Caller

\* What is typed and unchanged in every step of the compute loop.
Loop(t) ==
    /\ Types' /\ Others(t) /\ t \in Threads
    /\ UNCHANGED <<graph, lastGraph, stop, pause>>

LEMMA LoopHeadStep ==
    ASSUME Inv, NEW t \in Threads, LoopHead(t)
    PROVE  /\ Loop(t) /\ pc[t] = "loop" /\ UNCHANGED <<nBarrier, nPassed, mine, abort, work>>
           /\ LET k == node[t] IN
              \/ /\ k = Len(Nodes) \/ abort = k
                 /\ pc'[t] = "arrive" /\ meet'[t] = "final" /\ chunk' = chunk /\ node'[t] = k
              \/ /\ k < Len(Nodes) /\ abort # k /\ Kind(k) = "nop"
                 /\ pc'[t] = "loop" /\ node'[t] = k + 1 /\ chunk' = chunk /\ meet' = meet
              \/ /\ k < Len(Nodes) /\ abort # k /\ Kind(k) = "plain"
                 /\ pc'[t] = "plain" /\ node'[t] = k /\ chunk' = chunk /\ meet' = meet
              \/ /\ k < Len(Nodes) /\ abort # k /\ Kind(k) = "chunked"
                 /\ pc'[t] = "arrive" /\ meet'[t] = "start" /\ node'[t] = k
                 /\ chunk' = IF t = 0 THEN graph.n ELSE chunk
<1> DEFINE k == node[t]
           Meets == {"start", "end", "final"}
<1>0. Types
  BY DEF Inv
<1>1. /\ pc \in [Threads -> Labels] /\ node \in [Threads -> 0..Len(Nodes)]
      /\ meet \in [Threads -> Meets] /\ graph.n \in Nat /\ chunk \in Nat
  BY <1>0, Constants DEF Types
<1>2. k \in 0..Len(Nodes) /\ Len(Nodes) \in Nat /\ (k # Len(Nodes) => k \in Steps /\ k + 1 \in 0..Len(Nodes))
  BY <1>1, NodesFacts DEF Steps
<1>3. k # Len(Nodes) => Kind(k) \in Kinds
  BY <1>2, NodesFacts
<1>4. {"arrive", "plain", "loop"} \subseteq Labels
  BY Places DEF Working
<1>5. /\ pc[t] = "loop" /\ UNCHANGED <<control, barrier, abort, taken, lastGraph, work>>
  BY DEF LoopHead
<1>6. CASE k = Len(Nodes) \/ abort = k
  <2>1. /\ pc' = [pc EXCEPT ![t] = "arrive"] /\ meet' = [meet EXCEPT ![t] = "final"]
        /\ chunk' = chunk /\ node' = node
    BY <1>6 DEF LoopHead, Goto
  <2>2. /\ pc' \in [Threads -> Labels] /\ meet' \in [Threads -> Meets]
        /\ pc'[t] = "arrive" /\ meet'[t] = "final"
        /\ \A u \in Threads \ {t} : pc'[u] = pc[u] /\ meet'[u] = meet[u]
    BY <1>1, <1>4, <2>1, Update
  <2>3. Types'
    BY <1>0, <1>5, <2>1, <2>2 DEF Types, control, barrier
  <2> QED
    BY <1>5, <1>6, <2>1, <2>2, <2>3 DEF Loop, Others, control, barrier
<1>7. CASE ~(k = Len(Nodes) \/ abort = k) /\ Kind(k) = "nop"
  <2>1. node' = [node EXCEPT ![t] = k + 1] /\ chunk' = chunk /\ pc' = pc /\ meet' = meet
    BY <1>7 DEF LoopHead
  <2>2. /\ node' \in [Threads -> 0..Len(Nodes)] /\ node'[t] = k + 1
        /\ \A u \in Threads \ {t} : node'[u] = node[u]
    BY <1>1, <1>2, <1>7, <2>1, Update
  <2>3. Types'
    BY <1>0, <1>5, <2>1, <2>2 DEF Types, control, barrier
  <2> QED
    BY <1>2, <1>5, <1>7, <2>1, <2>2, <2>3 DEF Loop, Others, control, barrier
<1>8. CASE ~(k = Len(Nodes) \/ abort = k) /\ Kind(k) = "plain"
  <2>1. pc' = [pc EXCEPT ![t] = "plain"] /\ chunk' = chunk /\ node' = node /\ meet' = meet
    BY <1>8 DEF LoopHead, Goto
  <2>2. /\ pc' \in [Threads -> Labels] /\ pc'[t] = "plain"
        /\ \A u \in Threads \ {t} : pc'[u] = pc[u]
    BY <1>1, <1>4, <2>1, Update
  <2>3. Types'
    BY <1>0, <1>5, <2>1, <2>2 DEF Types, control, barrier
  <2> QED
    BY <1>2, <1>5, <1>8, <2>1, <2>2, <2>3 DEF Loop, Others, control, barrier
<1>9. CASE ~(k = Len(Nodes) \/ abort = k) /\ Kind(k) = "chunked"
  <2>1. /\ pc' = [pc EXCEPT ![t] = "arrive"] /\ meet' = [meet EXCEPT ![t] = "start"]
        /\ chunk' = (IF t = 0 THEN graph.n ELSE chunk) /\ node' = node
    BY <1>9 DEF LoopHead, Goto, ChunkSet
  <2>2. /\ pc' \in [Threads -> Labels] /\ meet' \in [Threads -> Meets]
        /\ pc'[t] = "arrive" /\ meet'[t] = "start"
        /\ \A u \in Threads \ {t} : pc'[u] = pc[u] /\ meet'[u] = meet[u]
    BY <1>1, <1>4, <2>1, Update
  <2>3. chunk' \in Nat
    BY <1>1, <2>1
  <2>4. Types'
    BY <1>0, <1>5, <2>1, <2>2, <2>3 DEF Types, control, barrier
  <2> QED
    BY <1>2, <1>5, <1>9, <2>1, <2>2, <2>4 DEF Loop, Others, control, barrier
<1> QED
  BY <1>3, <1>6, <1>7, <1>8, <1>9 DEF Kinds

LEMMA ComputedTypes ==
    ASSUME Types, NEW k \in Steps, NEW p, Computed(k, p)
    PROVE  /\ work' \in [Steps -> [PieceIds -> Nat]]
           /\ \A i \in Steps, q \in PieceIds :
                 work'[i][q] = IF i = k /\ q = p THEN work[i][q] + 1 ELSE work[i][q]
<1>1. work \in [Steps -> [PieceIds -> Nat]]
  BY DEF Types
<1>2. work' = [work EXCEPT ![k] = [work[k] EXCEPT ![p] = work[k][p] + 1]]
  BY DEF Computed
<1> DEFINE row == [work[k] EXCEPT ![p] = work[k][p] + 1]
<1>3. work[k] \in [PieceIds -> Nat]
  BY <1>1
<1>4. row \in [PieceIds -> Nat] /\ \A q \in PieceIds : row[q] = IF q = p THEN work[k][q] + 1 ELSE work[k][q]
  <2>1. CASE p \in PieceIds
    <3>1. work[k][p] + 1 \in Nat
      BY <1>3, <2>1
    <3> QED
      BY <1>3, <2>1, <3>1, Update
  <2>2. CASE p \notin PieceIds
    BY <1>3, <2>2
  <2> QED
    BY <2>1, <2>2
<1> HIDE DEF row
<1>5. work' \in [Steps -> [PieceIds -> Nat]] /\ work'[k] = row /\ \A i \in Steps \ {k} : work'[i] = work[i]
  BY <1>1, <1>2, <1>4, Update DEF row
<1> QED
  BY <1>4, <1>5

\* A thread that works on a node has a part in the graph.
LEMMA Worked ==
    ASSUME Inv, NEW t \in Threads, pc[t] \in Working
    PROVE  /\ t \in Members /\ Joined(t) /\ node[t] \in Steps
           /\ pc[t] = "plain" => Kind(node[t]) = "plain"
           /\ pc[t] \in {"chunk", "fetch"} => Kind(node[t]) = "chunked"
<1>1. t \in Members /\ Joined(t)
  BY Participant DEF AtHome, Late, Working
<1>2. node[t] \in 0..Len(Nodes) /\ Len(Nodes) \in Nat
  BY Constants DEF Inv, Types
<1>3. node[t] < Len(Nodes)
  BY <1>1 DEF Inv, NodeOK
<1> QED
  BY <1>1, <1>2, <1>3 DEF Inv, NodeOK, Steps

LEMMA WorkStep ==
    ASSUME Inv, NEW t \in Threads, PlainWork(t) \/ ChunkWork(t)
    PROVE  /\ Loop(t) /\ UNCHANGED <<nBarrier, nPassed, mine, abort, chunk, node, meet, taken>>
           /\ \/ pc[t] = "plain" /\ pc'[t] = "done" /\ Computed(node[t], t)
              \/ /\ pc[t] = "chunk" /\ pc'[t] = "done" /\ taken[t] >= ChunkCount /\ work' = work
              \/ /\ pc[t] = "chunk" /\ taken[t] < ChunkCount /\ Computed(node[t], taken[t])
                 /\ pc'[t] = IF graph.n >= ChunkCount THEN "done" ELSE "fetch"
<1>0. Types
  BY DEF Inv
<1>1. pc \in [Threads -> Labels] /\ taken[t] \in Nat /\ graph.n \in Nat
  BY <1>0, Constants DEF Types
<1>2. /\ UNCHANGED <<control, barrier, abort, chunk, node, meet, taken, lastGraph>>
      /\ pc[t] \in {"plain", "chunk"}
  BY DEF PlainWork, ChunkWork
<1>3. \E l \in {"done", "fetch"} : pc' = [pc EXCEPT ![t] = l]
  BY DEF PlainWork, ChunkWork, Goto
<1>4. /\ pc' \in [Threads -> Labels] /\ \A u \in Threads \ {t} : pc'[u] = pc[u]
  BY <1>1, <1>3, Places, Update DEF Working
<1>5. node[t] \in Steps
  BY <1>2, Worked DEF Working
<1>6. work' \in [Steps -> [PieceIds -> Nat]]
  <2>1. CASE work' = work
    BY <1>0, <2>1 DEF Types
  <2>2. CASE \E p : Computed(node[t], p)
    BY <1>0, <1>5, <2>2, ComputedTypes
  <2> QED
    BY <2>1, <2>2 DEF PlainWork, ChunkWork
<1>7. Types'
  BY <1>0, <1>2, <1>4, <1>6 DEF Types, control, barrier
<1>8. Loop(t)
  BY <1>2, <1>4, <1>7 DEF Loop, Others, control, barrier
<1>9. ChunkCount \in Nat
  BY <1>1, ChunkAssumption DEF ChunkCount
<1>10. CASE PlainWork(t)
  BY <1>1, <1>2, <1>8, <1>10 DEF PlainWork, Goto, barrier
<1>11. CASE ChunkWork(t)
  BY <1>1, <1>2, <1>8, <1>9, <1>11 DEF ChunkWork, Goto, barrier
<1> QED
  BY <1>10, <1>11

LEMMA FetchStep ==
    ASSUME Inv, NEW t \in Threads, ChunkFetch(t)
    PROVE  /\ Loop(t) /\ UNCHANGED <<nBarrier, nPassed, mine, abort, node, meet, work>>
           /\ pc[t] = "fetch" /\ pc'[t] = "chunk" /\ taken'[t] = chunk /\ chunk' = chunk + 1
<1>0. Types
  BY DEF Inv
<1>1. pc \in [Threads -> Labels] /\ taken \in [Threads -> Nat] /\ chunk \in Nat
  BY <1>0 DEF Types
<1>2. /\ UNCHANGED <<control, barrier, abort, node, meet, lastGraph, work>>
      /\ pc[t] = "fetch" /\ chunk' = chunk + 1
      /\ pc' = [pc EXCEPT ![t] = "chunk"] /\ taken' = [taken EXCEPT ![t] = chunk]
  BY DEF ChunkFetch, Goto
<1>3. /\ pc' \in [Threads -> Labels] /\ taken' \in [Threads -> Nat] /\ chunk' \in Nat
      /\ pc'[t] = "chunk" /\ taken'[t] = chunk
      /\ \A u \in Threads \ {t} : pc'[u] = pc[u] /\ taken'[u] = taken[u]
  BY <1>1, <1>2, Places, Update DEF Working
<1>4. Types'
  BY <1>0, <1>2, <1>3 DEF Types, control, barrier
<1> QED
  BY <1>2, <1>3, <1>4 DEF Loop, Others, control, barrier

LEMMA NodeDoneStep ==
    ASSUME Inv, NEW t \in Threads, NodeDone(t)
    PROVE  /\ Loop(t) /\ UNCHANGED <<nBarrier, nPassed, mine, chunk, taken, work>>
           /\ pc[t] = "done" /\ (abort' = abort \/ (t = 0 /\ abort' = node[t] + 1))
           /\ \/ /\ node[t] + 1 < Len(Nodes)
                 /\ pc'[t] = "arrive" /\ meet'[t] = "end" /\ node'[t] = node[t]
              \/ /\ node[t] + 1 = Len(Nodes)
                 /\ pc'[t] = "loop" /\ node'[t] = node[t] + 1 /\ meet'[t] = meet[t]
<1> DEFINE Meets == {"start", "end", "final"}
<1>0. Types
  BY DEF Inv
<1>1. /\ pc \in [Threads -> Labels] /\ node \in [Threads -> 0..Len(Nodes)]
      /\ meet \in [Threads -> Meets] /\ abort \in -1..Len(Nodes)
      /\ "arrive" \in Labels /\ "loop" \in Labels
  BY <1>0, Places DEF Types
<1>2. /\ UNCHANGED <<control, barrier, chunk, taken, lastGraph, work>>
      /\ pc[t] = "done" /\ (abort' = abort \/ (t = 0 /\ abort' = node[t] + 1))
  BY DEF NodeDone, AbortAfter
<1>3. node[t] + 1 \in 0..Len(Nodes) /\ Len(Nodes) \in Nat /\ node[t] \in Nat
  BY <1>1, <1>2, NextNode, Constants
<1>4. abort' \in -1..Len(Nodes)
  BY <1>1, <1>2, <1>3
<1>5. CASE node[t] + 1 < Len(Nodes)
  <2>1. /\ pc' = [pc EXCEPT ![t] = "arrive"] /\ meet' = [meet EXCEPT ![t] = "end"]
        /\ node' = node
    BY <1>5 DEF NodeDone, Goto
  <2>2. /\ pc' \in [Threads -> Labels] /\ meet' \in [Threads -> Meets]
        /\ pc'[t] = "arrive" /\ meet'[t] = "end"
        /\ \A u \in Threads \ {t} : pc'[u] = pc[u] /\ meet'[u] = meet[u]
    BY <1>1, <2>1, Update
  <2>3. Types'
    BY <1>0, <1>2, <1>4, <2>1, <2>2 DEF Types, control, barrier
  <2> QED
    BY <1>2, <1>5, <2>1, <2>2, <2>3 DEF Loop, Others, control, barrier
<1>6. CASE ~(node[t] + 1 < Len(Nodes))
  <2>1. /\ pc' = [pc EXCEPT ![t] = "loop"] /\ node' = [node EXCEPT ![t] = node[t] + 1]
        /\ meet' = meet
    BY <1>6 DEF NodeDone, Goto
  <2>2. /\ pc' \in [Threads -> Labels] /\ node' \in [Threads -> 0..Len(Nodes)]
        /\ pc'[t] = "loop" /\ node'[t] = node[t] + 1
        /\ \A u \in Threads \ {t} : pc'[u] = pc[u] /\ node'[u] = node[u]
    BY <1>1, <1>3, <2>1, Update
  <2>3. Types'
    BY <1>0, <1>2, <1>4, <2>1, <2>2 DEF Types, control, barrier
  <2>4. node[t] + 1 = Len(Nodes)
    BY <1>3, <1>6
  <2> QED
    BY <1>2, <2>1, <2>2, <2>3, <2>4 DEF Loop, Others, control, barrier
<1> QED
  BY <1>5, <1>6

LEMMA ReadStep ==
    ASSUME Inv, NEW t \in Threads, BarrierRead(t)
    PROVE  /\ Loop(t) /\ UNCHANGED <<nBarrier, nPassed, abort, chunk, node, meet, taken, work>>
           /\ pc[t] = "arrive" /\ graph.n # 1 /\ pc'[t] = "enter" /\ mine'[t] = nPassed
<1>0. Types
  BY DEF Inv
<1>1. pc \in [Threads -> Labels] /\ mine \in [Threads -> Nat] /\ nPassed \in Nat
  BY <1>0 DEF Types
<1>2. /\ UNCHANGED <<control, nBarrier, nPassed, abort, chunk, node, meet, taken, lastGraph, work>>
      /\ pc[t] = "arrive" /\ graph.n # 1
      /\ pc' = [pc EXCEPT ![t] = "enter"] /\ mine' = [mine EXCEPT ![t] = nPassed]
  BY DEF BarrierRead, Goto
<1>3. /\ pc' \in [Threads -> Labels] /\ mine' \in [Threads -> Nat]
      /\ pc'[t] = "enter" /\ mine'[t] = nPassed
      /\ \A u \in Threads \ {t} : pc'[u] = pc[u] /\ mine'[u] = mine[u]
  BY <1>1, <1>2, Places, Update
<1>4. Types'
  BY <1>0, <1>2, <1>3 DEF Types, control
<1> QED
  BY <1>2, <1>3, <1>4 DEF Loop, Others, control

LEMMA CountStep ==
    ASSUME Inv, NEW t \in Threads, BarrierEnter(t) \/ BarrierReset(t)
    PROVE  /\ Loop(t) /\ UNCHANGED <<nPassed, mine, abort, chunk, node, meet, taken, work>>
           /\ \/ pc[t] = "enter" /\ nBarrier' = nBarrier + 1 /\ Last(nBarrier) /\ pc'[t] = "reset"
              \/ pc[t] = "enter" /\ nBarrier' = nBarrier + 1 /\ ~Last(nBarrier) /\ pc'[t] = "spin"
              \/ pc[t] = "reset" /\ nBarrier' = 0 /\ pc'[t] = "pass"
<1>0. Types
  BY DEF Inv
<1>1. pc \in [Threads -> Labels] /\ nBarrier \in Nat
  BY <1>0 DEF Types
<1>2. UNCHANGED <<control, nPassed, mine, abort, chunk, node, meet, taken, lastGraph, work>>
  BY DEF BarrierEnter, BarrierReset
<1>3. PICK l \in {"reset", "spin", "pass"} :
          /\ pc' = [pc EXCEPT ![t] = l]
          /\ \/ pc[t] = "enter" /\ nBarrier' = nBarrier + 1 /\ Last(nBarrier) /\ l = "reset"
             \/ pc[t] = "enter" /\ nBarrier' = nBarrier + 1 /\ ~Last(nBarrier) /\ l = "spin"
             \/ pc[t] = "reset" /\ nBarrier' = 0 /\ l = "pass"
  BY DEF BarrierEnter, BarrierReset, Goto
<1>4. /\ pc' \in [Threads -> Labels] /\ pc'[t] = l /\ nBarrier' \in Nat
      /\ \A u \in Threads \ {t} : pc'[u] = pc[u]
  BY <1>1, <1>3, Places, Update
<1>5. Types'
  BY <1>0, <1>2, <1>4 DEF Types, control
<1> QED
  BY <1>2, <1>3, <1>4, <1>5 DEF Loop, Others, control

LEMMA PassStep ==
    ASSUME Inv, NEW t \in Threads, BarrierAlone(t) \/ BarrierPass(t) \/ BarrierSpin(t)
    PROVE  /\ Loop(t) /\ UNCHANGED <<nBarrier, mine, abort, chunk, meet, work>>
           /\ \/ pc[t] = "arrive" /\ graph.n = 1 /\ nPassed' = nPassed
              \/ pc[t] = "pass" /\ nPassed' = nPassed + 1
              \/ Late(t) /\ nPassed' = nPassed
           /\ meet[t] = "start" => pc'[t] = "chunk" /\ taken'[t] = t /\ node'[t] = node[t]
           /\ meet[t] = "end" => pc'[t] = "loop" /\ node'[t] = node[t] + 1 /\ taken'[t] = taken[t]
           /\ meet[t] = "final" => pc'[t] = Idle(t) /\ node'[t] = node[t] /\ taken'[t] = taken[t]
<1>0. Types
  BY DEF Inv
<1>1. nPassed \in Nat
  BY <1>0 DEF Types
<1>2. /\ UNCHANGED <<control, nBarrier, mine, abort, chunk, meet, lastGraph, work>> /\ Leave(t)
      /\ \/ pc[t] = "arrive" /\ graph.n = 1 /\ nPassed' = nPassed
         \/ pc[t] = "pass" /\ nPassed' = nPassed + 1
         \/ Late(t) /\ nPassed' = nPassed
  BY DEF BarrierAlone, BarrierPass, BarrierSpin, barrier, Late
<1>3. Meeting(t) \/ Late(t)
  BY <1>2 DEF Meeting
<1>4. /\ pc' \in [Threads -> Labels] /\ node' \in [Threads -> 0..Len(Nodes)]
      /\ taken' \in [Threads -> Nat]
      /\ \A u \in Threads \ {t} : pc'[u] = pc[u] /\ node'[u] = node[u] /\ taken'[u] = taken[u]
      /\ meet[t] = "start" => pc'[t] = "chunk" /\ taken'[t] = t /\ node'[t] = node[t]
      /\ meet[t] = "end" => pc'[t] = "loop" /\ node'[t] = node[t] + 1 /\ taken'[t] = taken[t]
      /\ meet[t] = "final" => pc'[t] = Idle(t) /\ node'[t] = node[t] /\ taken'[t] = taken[t]
  BY <1>2, <1>3, LeaveTypes
<1>5. Types'
  <2>1. nPassed' \in Nat
    BY <1>1, <1>2
  <2> QED
    BY <1>0, <1>2, <1>4, <2>1 DEF Types, control
<1> QED
  BY <1>2, <1>4, <1>5 DEF Loop, Others, control

LEMMA TypesStep == ASSUME Inv, [Next]_vars PROVE Types'
<1>1. CASE Caller
  BY <1>1, CallerTypes
<1>2. ASSUME NEW t \in Threads, Worker(t) PROVE Types'
  BY <1>2, WorkerTypes
<1>3. ASSUME NEW t \in Threads, Compute(t) PROVE Types'
  BY <1>3, LoopHeadStep, WorkStep, FetchStep, NodeDoneStep, ReadStep, CountStep, PassStep
  DEF Compute, Loop
<1>4. CASE UNCHANGED vars
  BY <1>4 DEF Inv, Types, vars, control, barrier
<1> QED
  BY <1>1, <1>2, <1>3, <1>4 DEF Next

-----------------------------------------------------------------------------
(***************************************************************************)
(* Gates.                                                                   *)
(***************************************************************************)
\* The gate of a thread, read off its place.
LEMMA GateAt ==
    ASSUME Types, NEW t \in Threads
    PROVE  /\ ~Joined(t) => Gate(t) = AfterLoop(0, abort)
           /\ Joined(t) =>
                 /\ pc[t] \in AtHome => Gate(t) = <<"over", node[t]>>
                 /\ pc[t] = "loop" => Gate(t) = AfterLoop(node[t], abort)
                 /\ pc[t] \in Working \cup {"done"} => Gate(t) = AfterWork(node[t])
                 /\ Meeting(t) => Gate(t) = <<meet[t], node[t]>>
                 /\ Late(t) => Gate(t) = Beyond(meet[t], node[t], abort)
           /\ \/ pc[t] \in AtHome \/ pc[t] = "loop" \/ pc[t] \in Working \cup {"done"}
              \/ Meeting(t) \/ Late(t)
<1> DEFINE J == Joined(t)
           R == mine[t] # nPassed
           g == Gate(t)
<1>1. pc[t] \in Labels /\ meet[t] \in {"start", "end", "final"}
  BY DEF Types
<1>2. J \in BOOLEAN /\ R \in BOOLEAN
  BY DEF Joined
<1>5. g = GateOf(J, pc[t], node[t], meet[t], R, abort)
  BY DEF Gate
<1>3. \/ pc[t] \in AtHome \/ pc[t] = "loop" \/ pc[t] \in Working \cup {"done"}
      \/ Meeting(t) \/ Late(t)
  BY <1>1 DEF Labels, AtHome, Working, Meeting, Late, Inside
<1>4. /\ Meeting(t) => pc[t] \in {"arrive", "enter", "reset", "pass"} \/ (pc[t] = "spin" /\ ~R)
      /\ Late(t) => pc[t] = "spin" /\ R
  BY DEF Meeting, Inside, Late
<1> HIDE DEF J, R, g
<1>6. /\ ~J => g = AfterLoop(0, abort)
      /\ J => /\ pc[t] \in AtHome => g = <<"over", node[t]>>
              /\ pc[t] = "loop" => g = AfterLoop(node[t], abort)
              /\ pc[t] \in Working \cup {"done"} => g = AfterWork(node[t])
              /\ pc[t] \in {"arrive", "enter", "reset", "pass"} => g = <<meet[t], node[t]>>
              /\ pc[t] = "spin" /\ ~R => g = <<meet[t], node[t]>>
              /\ pc[t] = "spin" /\ R => g = Beyond(meet[t], node[t], abort)
  BY <1>1, <1>2, <1>5, GateTable
<1> QED
  BY <1>3, <1>4, <1>6 DEF J, g

\* The same after a step.
LEMMA GateAtNext ==
    ASSUME Types', NEW t \in Threads
    PROVE  /\ ~Joined(t)' => Gate(t)' = AfterLoop(0, abort')
           /\ Joined(t)' =>
                 /\ pc'[t] \in AtHome => Gate(t)' = <<"over", node'[t]>>
                 /\ pc'[t] = "loop" => Gate(t)' = AfterLoop(node'[t], abort')
                 /\ pc'[t] \in Working \cup {"done"} => Gate(t)' = AfterWork(node'[t])
                 /\ Meeting(t)' => Gate(t)' = <<meet'[t], node'[t]>>
                 /\ Late(t)' => Gate(t)' = Beyond(meet'[t], node'[t], abort')
           /\ \/ pc'[t] \in AtHome \/ pc'[t] = "loop" \/ pc'[t] \in Working \cup {"done"}
              \/ Meeting(t)' \/ Late(t)'
<1> DEFINE J == Joined(t)'
           R == mine'[t] # nPassed'
           g == Gate(t)'
<1>1. pc'[t] \in Labels /\ meet'[t] \in {"start", "end", "final"}
  BY DEF Types
<1>2. J \in BOOLEAN /\ R \in BOOLEAN
  BY DEF Joined
<1>5. g = GateOf(J, pc'[t], node'[t], meet'[t], R, abort')
  BY DEF Gate
<1>3. \/ pc'[t] \in AtHome \/ pc'[t] = "loop" \/ pc'[t] \in Working \cup {"done"}
      \/ Meeting(t)' \/ Late(t)'
  BY <1>1 DEF Labels, AtHome, Working, Meeting, Late, Inside
<1>4. /\ Meeting(t)' => pc'[t] \in {"arrive", "enter", "reset", "pass"} \/ (pc'[t] = "spin" /\ ~R)
      /\ Late(t)' => pc'[t] = "spin" /\ R
  BY DEF Meeting, Inside, Late
<1> HIDE DEF J, R, g
<1>6. /\ ~J => g = AfterLoop(0, abort')
      /\ J => /\ pc'[t] \in AtHome => g = <<"over", node'[t]>>
              /\ pc'[t] = "loop" => g = AfterLoop(node'[t], abort')
              /\ pc'[t] \in Working \cup {"done"} => g = AfterWork(node'[t])
              /\ pc'[t] \in {"arrive", "enter", "reset", "pass"} => g = <<meet'[t], node'[t]>>
              /\ pc'[t] = "spin" /\ ~R => g = <<meet'[t], node'[t]>>
              /\ pc'[t] = "spin" /\ R => g = Beyond(meet'[t], node'[t], abort')
  BY <1>1, <1>2, <1>5, GateTable
<1> QED
  BY <1>3, <1>4, <1>6 DEF J, g

LEMMA AfterWorkGate ==
    ASSUME NEW k \in Steps
    PROVE  /\ AfterWork(k)[1] \in {"end", "final"} /\ CurrentAt(AfterWork(k)) = k
           /\ AfterWork(k)[1] = "final" => AfterWork(k) = <<"final", Len(Nodes)>>
           /\ \A j \in Steps : BegunAt(AfterWork(k), j) <=> j <= k
<1>1. k \in Nat /\ Len(Nodes) \in Nat /\ k < Len(Nodes)
  BY NodesFacts DEF Steps
<1>2. CASE k + 1 < Len(Nodes)
  BY <1>1, <1>2 DEF AfterWork, CurrentAt, BegunAt, Steps
<1>3. CASE k + 1 = Len(Nodes)
  BY <1>1, <1>3 DEF AfterWork, CurrentAt, BegunAt, Steps
<1> QED
  BY <1>1, <1>2, <1>3

\* The gate after the loop at node j: nodes up to it that have begun are those before j,
\* and the plain node at which the loop stops.
LEMMA AfterLoopGate ==
    ASSUME NEW j \in 0..Len(Nodes), NEW a \in -1..Len(Nodes)
    PROVE  LET g == AfterLoop(j, a) IN
           /\ g[1] \in {"start", "end", "final"}
           /\ g[1] = "final" => g[2] = Len(Nodes) \/ g[2] = a
           /\ CurrentAt(g) \in -1..Len(Nodes) - 1
           /\ CurrentAt(g) >= j \/ CurrentAt(g) = -1 \/ j = Len(Nodes)
           /\ j < Len(Nodes) /\ CurrentAt(g) # -1 => Kind(CurrentAt(g)) # "chunked"
           /\ \A k \in Steps : /\ k < j => BegunAt(g, k)
                               /\ k >= j /\ BegunAt(g, k) /\ Kind(k) # "nop" =>
                                     k = CurrentAt(g) /\ Kind(k) = "plain"
<1> DEFINE i == First(j, a)
           g == AfterLoop(j, a)
<1>1. Len(Nodes) \in Nat /\ j \in Nat
  BY NodesFacts
<1>2. i \in j..Len(Nodes) /\ Stops(i, a) /\ \A k \in j..i - 1 : Kind(k) = "nop"
  <2>1. IsFirst(i, j, a)
    BY FirstExists
  <2> QED
    BY <2>1, <1>1 DEF IsFirst, Stops
<1> HIDE DEF i
<1>3. g = AtNode(i, a)
  BY DEF AfterLoop, i
<1>4. CASE i = Len(Nodes) \/ i = a
  <2>1. g = <<"final", i>>
    BY <1>3, <1>4 DEF AtNode
  <2>2. CurrentAt(g) = IF i = Len(Nodes) THEN Len(Nodes) - 1 ELSE -1
    BY <2>1 DEF CurrentAt
  <2>3. \A k \in Steps : BegunAt(g, k) <=> k < i
    BY <2>1 DEF BegunAt, Steps
  <2>4. j < Len(Nodes) /\ i = Len(Nodes) => Kind(Len(Nodes) - 1) = "nop"
    BY <1>1, <1>2
  <2> QED
    BY <1>1, <1>2, <1>4, <2>1, <2>2, <2>3, <2>4 DEF Steps
<1>5. CASE i # Len(Nodes) /\ i # a /\ Kind(i) = "plain"
  <2>1. g = AfterWork(i) /\ i \in Steps
    BY <1>1, <1>2, <1>3, <1>5 DEF AtNode, Steps
  <2> HIDE DEF g
  <2>2. g[1] = "final" => g[2] = Len(Nodes)
    BY <2>1, AfterWorkGate
  <2>3. /\ g[1] \in {"end", "final"} /\ CurrentAt(g) = i
        /\ \A k \in Steps : BegunAt(g, k) <=> k <= i
    BY <2>1, AfterWorkGate
  <2> QED
    BY <1>1, <1>2, <1>5, <2>1, <2>2, <2>3 DEF Steps, g
<1>6. CASE i # Len(Nodes) /\ i # a /\ Kind(i) # "plain"
  <2>1. g = <<"start", i>>
    BY <1>3, <1>6 DEF AtNode
  <2>2. CurrentAt(g) = -1 /\ \A k \in Steps : BegunAt(g, k) <=> k < i
    BY <2>1 DEF CurrentAt, BegunAt, Steps
  <2> QED
    BY <1>1, <1>2, <2>1, <2>2 DEF Steps
<1> QED
  BY <1>4, <1>5, <1>6

\* A thread whose gate is the end of the graph has come home, or is about to.
LEMMA OverMeans ==
    ASSUME Types, NEW t \in Threads, Gate(t)[1] = "over",
           Joined(t) /\ (pc[t] \in Working \cup {"done"}) => node[t] \in Steps,
           Joined(t) /\ Late(t) /\ meet[t] = "start" => node[t] \in Steps,
           Joined(t) /\ Late(t) /\ meet[t] = "end" => node[t] + 1 \in 0..Len(Nodes)
    PROVE  Joined(t) /\ (pc[t] \in AtHome \/ (Late(t) /\ meet[t] = "final"))
<1>1. /\ node[t] \in 0..Len(Nodes) /\ abort \in -1..Len(Nodes)
      /\ meet[t] \in {"start", "end", "final"}
  BY DEF Types
<1>2. \A j \in 0..Len(Nodes) : AfterLoop(j, abort)[1] # "over"
  BY <1>1, AfterLoopGate
<1>3. \A k \in Steps : AfterWork(k)[1] # "over"
  BY AfterWorkGate
<1>4. Joined(t)
  BY <1>2, GateAt, Constants
<1>5. ~(pc[t] = "loop") /\ ~(pc[t] \in Working \cup {"done"}) /\ ~Meeting(t)
  BY <1>1, <1>2, <1>3, <1>4, GateAt
<1>6. CASE Late(t)
  <2>1. Gate(t) = Beyond(meet[t], node[t], abort)
    BY <1>4, <1>6, GateAt
  <2>2. meet[t] = "final"
    BY <1>1, <1>2, <1>3, <1>4, <1>6, <2>1 DEF Beyond
  <2> QED
    BY <1>4, <1>6, <2>2
<1> QED
  BY <1>4, <1>5, <1>6, GateAt

LEMMA PlacesOf ==
    ASSUME Inv, NEW t \in Threads
    PROVE  /\ Joined(t) /\ pc[t] \in Working \cup {"done"} => node[t] \in Steps
           /\ Joined(t) /\ (Meeting(t) \/ Late(t)) /\ meet[t] = "start" =>
                 node[t] \in Steps /\ Kind(node[t]) = "chunked"
           /\ Joined(t) /\ (Meeting(t) \/ Late(t)) /\ meet[t] = "end" =>
                 node[t] \in Steps /\ node[t] + 1 < Len(Nodes) /\ node[t] + 1 \in 0..Len(Nodes)
<1>1. node[t] \in 0..Len(Nodes) /\ Len(Nodes) \in Nat
  BY Constants DEF Inv, Types
<1> QED
  BY <1>1 DEF Inv, NodeOK, Steps

\* The next barrier, and the node at work.
LEMMA NowRange ==
    ASSUME Inv
    PROVE  /\ Now[1] \in {"start", "end", "final", "over"}
           /\ Current \in -1..Len(Nodes) - 1
           /\ Now[1] = "over" => pc[0] \in AtHome \/ (Late(0) /\ meet[0] = "final")
<1>1. /\ Types /\ 0 \in Threads /\ Joined(0) /\ Now = Gate(0) /\ Current = CurrentAt(Gate(0))
  BY Constants DEF Inv, Joined, Now, Current
<1>2. /\ node[0] \in 0..Len(Nodes) /\ Len(Nodes) \in Nat /\ abort \in -1..Len(Nodes)
      /\ meet[0] \in {"start", "end", "final"}
  BY <1>1, Constants DEF Types
<1>3. \A j \in 0..Len(Nodes) : /\ AfterLoop(j, abort)[1] \in {"start", "end", "final"}
                               /\ CurrentAt(AfterLoop(j, abort)) \in -1..Len(Nodes) - 1
  BY <1>2, AfterLoopGate
<1>4. \A k \in Steps : /\ AfterWork(k)[1] \in {"end", "final"}
                       /\ CurrentAt(AfterWork(k)) \in -1..Len(Nodes) - 1
  <2>1. \A k \in Steps : k \in -1..Len(Nodes) - 1
    BY <1>2 DEF Steps
  <2> QED
    BY <2>1, AfterWorkGate
<1>5. \A k : CurrentAt(<<"over", k>>) = -1 /\ CurrentAt(<<"start", k>>) = -1
  BY DEF CurrentAt
<1>6. CASE pc[0] \in AtHome
  <2>1. Gate(0) = <<"over", node[0]>>
    BY <1>1, <1>6, GateAt
  <2> QED
    BY <1>1, <1>2, <1>5, <1>6, <2>1
<1>7. CASE pc[0] = "loop"
  BY <1>1, <1>2, <1>3, <1>7, GateAt
<1>8. CASE pc[0] \in Working \cup {"done"}
  BY <1>1, <1>4, <1>8, GateAt, PlacesOf
<1>9. CASE Meeting(0)
  <2>1. Gate(0) = <<meet[0], node[0]>>
    BY <1>1, <1>9, GateAt
  <2>2. meet[0] = "end" => CurrentAt(Gate(0)) \in -1..Len(Nodes) - 1
    BY <1>1, <1>2, <1>9, <2>1, PlacesOf DEF CurrentAt
  <2>3. meet[0] = "final" => CurrentAt(Gate(0)) \in -1..Len(Nodes) - 1
    BY <1>2, <2>1 DEF CurrentAt
  <2> QED
    BY <1>1, <1>2, <1>5, <2>1, <2>2, <2>3
<1>10. CASE Late(0)
  <2>1. Gate(0) = Beyond(meet[0], node[0], abort)
    BY <1>1, <1>10, GateAt
  <2>2. CASE meet[0] = "start"
    BY <1>1, <1>4, <1>10, <2>1, <2>2, PlacesOf DEF Beyond
  <2>3. CASE meet[0] = "end"
    BY <1>1, <1>3, <1>10, <2>1, <2>3, PlacesOf DEF Beyond
  <2>4. CASE meet[0] = "final"
    BY <1>1, <1>2, <1>5, <1>10, <2>1, <2>4 DEF Beyond
  <2> QED
    BY <1>2, <2>2, <2>3, <2>4
<1> QED
  BY <1>1, <1>6, <1>7, <1>8, <1>9, <1>10, GateAt

\* While the caller is between two graphs every thread of the last one has left it.
LEMMA AllOver ==
    ASSUME Inv, pc[0] \in AtHome, NEW t \in Threads
    PROVE  /\ pc[t] \in AtHome \/ (Late(t) /\ meet[t] = "final")
           /\ t \in Members => Joined(t)
           /\ Now = <<"over", node[0]>>
<1>1. Now = <<"over", node[0]>>
  BY Constants, GateAt DEF Now, Inv, Joined
<1>2. CASE t \in Members
  <2>1. Gate(t)[1] = "over"
    BY <1>1, <1>2 DEF Inv, Together
  <2> QED
    BY <1>1, <2>1, OverMeans, PlacesOf DEF Inv
<1>3. CASE t \notin Members
  BY <1>1, <1>3 DEF Inv, OutsideOK
<1> QED
  BY <1>2, <1>3

\* Same(u): what thread u sees of itself is unchanged
Same(u) ==
    /\ pc'[u] = pc[u] /\ node'[u] = node[u] /\ meet'[u] = meet[u]
    /\ mine'[u] = mine[u] /\ taken'[u] = taken[u] /\ lastGraph'[u] = lastGraph[u]

LEMMA SameView ==
    ASSUME NEW u, Same(u), graph' = graph
    PROVE  /\ Joined(u)' <=> Joined(u)
           /\ nPassed' = nPassed =>
                 /\ Inside(u)' <=> Inside(u)
                 /\ Late(u)' <=> Late(u)
                 /\ Meeting(u)' <=> Meeting(u)
                 /\ \A p : Holds(u, p)' <=> Holds(u, p)
                 /\ \A k : Behind(u, k)' <=> Behind(u, k)
                 /\ abort' = abort => Gate(u)' = Gate(u)
<1>1. Joined(u)' <=> Joined(u)
  BY DEF Same, Joined
<1>2. ASSUME nPassed' = nPassed
      PROVE  (Inside(u)' <=> Inside(u)) /\ (Late(u)' <=> Late(u)) /\ (Meeting(u)' <=> Meeting(u))
  BY <1>2 DEF Same, Inside, Late, Meeting
<1>3. ASSUME nPassed' = nPassed
      PROVE  (\A p : Holds(u, p)' <=> Holds(u, p)) /\ (\A k : Behind(u, k)' <=> Behind(u, k))
  BY <1>1, <1>2, <1>3 DEF Same, Holds, Behind
<1>4. ASSUME nPassed' = nPassed, abort' = abort PROVE Gate(u)' = Gate(u)
  <2>1. (Joined(u)' <=> Joined(u)) /\ ((mine[u] # nPassed)' <=> (mine[u] # nPassed))
    BY <1>1, <1>4 DEF Same
  <2> QED
    BY <1>4, <2>1 DEF Same, Gate, GateOf
<1> QED
  BY <1>1, <1>2, <1>3, <1>4

-----------------------------------------------------------------------------
(***************************************************************************)
(* Steps outside the loop: the caller between graphs, and the workers at    *)
(* home.                                                                    *)
(***************************************************************************)
\* Thread u stays as it is, or moves at home, or takes the graph it has a part in.
Quiet(u) ==
    /\ meet'[u] = meet[u] /\ mine'[u] = mine[u] /\ taken'[u] = taken[u]
    /\ \/ Same(u)
       \/ /\ pc[u] \in AtHome /\ pc'[u] \in AtHome
          /\ node'[u] = node[u] /\ lastGraph'[u] = lastGraph[u]
       \/ pc[u] \in AtHome /\ pc'[u] \in AtHome /\ u # 0 /\ u \notin Members
       \/ /\ pc[u] \in AtHome /\ pc'[u] = "loop" /\ u # 0 /\ u \in Members
          /\ ~Joined(u) /\ node'[u] = 0 /\ lastGraph'[u] = graph.seq

LEMMA QuietView ==
    ASSUME Inv, Types', NEW u \in Threads, Quiet(u), UNCHANGED <<graph, nPassed, abort>>
    PROVE  /\ Inside(u)' <=> Inside(u)
           /\ Late(u)' <=> Late(u)
           /\ u \in Members \cup {0} => Gate(u)' = Gate(u)
           /\ \A p : Holds(u, p)' <=> Holds(u, p)
           /\ \A k \in Nat : Behind(u, k)' <=> Behind(u, k)
           /\ \A l \in {"enter", "reset", "pass", "chunk"} : pc'[u] = l <=> pc[u] = l
           /\ pc'[u] \notin AtHome => Same(u) \/ (pc'[u] = "loop" /\ Joined(u)' /\ u \in Members)
<1>0. Types
  BY DEF Inv
<1>1. CASE Same(u)
  <2>1. /\ Inside(u)' <=> Inside(u)
        /\ Late(u)' <=> Late(u)
        /\ Gate(u)' = Gate(u)
        /\ \A p : Holds(u, p)' <=> Holds(u, p)
        /\ \A k \in Nat : Behind(u, k)' <=> Behind(u, k)
    BY <1>1, SameView
  <2> QED
    BY <1>1, <2>1 DEF Same
<1>2. ASSUME pc[u] \in AtHome, pc'[u] \in AtHome
      PROVE  /\ ~Inside(u) /\ ~Inside(u)' /\ ~Late(u) /\ ~Late(u)'
             /\ \A p : ~Holds(u, p) /\ ~Holds(u, p)'
             /\ \A k \in Nat : ~Behind(u, k) /\ ~Behind(u, k)'
             /\ \A l \in {"enter", "reset", "pass", "chunk"} : pc'[u] # l /\ pc[u] # l
  <2>1. /\ pc[u] \notin {"enter", "reset", "pass", "chunk", "spin", "arrive", "done", "loop"}
        /\ pc'[u] \notin {"enter", "reset", "pass", "chunk", "spin", "arrive", "done", "loop"}
    BY <1>2 DEF AtHome
  <2>2. ~Inside(u) /\ ~Inside(u)' /\ ~Late(u) /\ ~Late(u)'
    BY <2>1 DEF Inside, Late
  <2>3. ~Meeting(u) /\ ~Meeting(u)'
    BY <2>1, <2>2 DEF Meeting
  <2> QED
    BY <2>1, <2>2, <2>3 DEF Holds, Behind
<1>3. CASE /\ pc[u] \in AtHome /\ pc'[u] \in AtHome
           /\ node'[u] = node[u] /\ lastGraph'[u] = lastGraph[u]
  <2>1. Joined(u)' <=> Joined(u)
    BY <1>3 DEF Joined
  <2>2. CASE Joined(u)
    BY <1>0, <1>2, <1>3, <2>1, <2>2, GateAt, GateAtNext
  <2>3. CASE ~Joined(u)
    BY <1>0, <1>2, <1>3, <2>1, <2>3, GateAt, GateAtNext
  <2> QED
    BY <2>2, <2>3
<1>4. CASE pc[u] \in AtHome /\ pc'[u] \in AtHome /\ u # 0 /\ u \notin Members
  BY <1>2, <1>4
<1>5. CASE /\ pc[u] \in AtHome /\ pc'[u] = "loop" /\ u # 0 /\ u \in Members
           /\ ~Joined(u) /\ node'[u] = 0 /\ lastGraph'[u] = graph.seq
  <2>1. Joined(u)'
    BY <1>5 DEF Joined
  <2>2. Gate(u) = AfterLoop(0, abort) /\ Gate(u)' = AfterLoop(0, abort)
    BY <1>0, <1>5, <2>1, GateAt, GateAtNext
  <2>3. pc[u] \notin {"enter", "reset", "pass", "chunk", "spin", "arrive", "done", "loop"}
    BY <1>5 DEF AtHome
  <2>4. ~Inside(u) /\ ~Inside(u)' /\ ~Late(u) /\ ~Late(u)' /\ ~Meeting(u)'
    BY <1>5, <2>3 DEF Inside, Late, Meeting
  <2>5. /\ \A p : ~Holds(u, p) /\ ~Holds(u, p)'
        /\ \A k \in Nat : ~Behind(u, k) /\ ~Behind(u, k)'
    BY <1>5, <2>4 DEF Holds, Behind
  <2> QED
    BY <1>5, <2>1, <2>2, <2>3, <2>4, <2>5
<1> QED
  BY <1>1, <1>3, <1>4, <1>5 DEF Quiet

LEMMA Members0 == ASSUME Types PROVE Members \subseteq Threads /\ (graph.n > 0 => 0 \in Members)
<1>1. graph.n \in 0..Pool /\ Pool \in Nat
  BY Constants DEF Types
<1> QED
  BY <1>1 DEF Members, Threads

\* The formula for the barrier's counter depends on these alone.
LEMMA CountSame ==
    ASSUME BarrierOK, nBarrier' = nBarrier, graph' = graph,
           \A u \in Threads : /\ Inside(u)' <=> Inside(u)
                              /\ pc'[u] = "pass" <=> pc[u] = "pass"
                              /\ pc'[u] = "reset" <=> pc[u] = "reset"
    PROVE  nBarrier' = IF \E t \in Threads : pc'[t] = "pass" THEN 0
                       ELSE IF \E t \in Threads : pc'[t] = "reset" THEN graph'.n
                       ELSE Cardinality(Insiders')
<1>1. Insiders' = Insiders
  BY DEF Insiders
<1>2. /\ (\E t \in Threads : pc'[t] = "pass") <=> (\E t \in Threads : pc[t] = "pass")
      /\ (\E t \in Threads : pc'[t] = "reset") <=> (\E t \in Threads : pc[t] = "reset")
  OBVIOUS
<1> QED
  BY <1>1, <1>2 DEF BarrierOK

LEMMA Carry ==
    ASSUME Inv, Types', HomeOK', UNCHANGED <<graph, abort, nBarrier, nPassed, chunk, work>>,
           pc'[0] = "kick" <=> pc[0] = "kick", \A u \in Threads : Quiet(u)
    PROVE  Inv'
<1>0. Types /\ Members' = Members /\ Members \subseteq Threads
  BY Members0 DEF Inv, Members
<1>1. \A u \in Threads :
          /\ Inside(u)' <=> Inside(u)
          /\ Late(u)' <=> Late(u)
          /\ u \in Members \cup {0} => Gate(u)' = Gate(u)
          /\ \A p : Holds(u, p)' <=> Holds(u, p)
          /\ \A k \in Nat : Behind(u, k)' <=> Behind(u, k)
          /\ \A l \in {"enter", "reset", "pass", "chunk"} : pc'[u] = l <=> pc[u] = l
          /\ pc'[u] \notin AtHome => Same(u) \/ (pc'[u] = "loop" /\ Joined(u)' /\ u \in Members)
          /\ meet'[u] = meet[u] /\ mine'[u] = mine[u] /\ taken'[u] = taken[u]
  BY QuietView DEF Quiet
<1>2. Now' = Now
  BY <1>1, Constants DEF Now
<1>3. OutsideOK'
  <2> SUFFICES ASSUME NEW t \in Threads, (t \notin Members \/ ~Joined(t)'), pc'[t] \notin AtHome
               PROVE  Late(t)' /\ meet'[t] = "final"
    BY <1>0 DEF OutsideOK
  <2>1. Same(t)
    BY <1>1
  <2>2. Joined(t)' <=> Joined(t)
    BY <2>1, SameView
  <2> QED
    BY <1>1, <2>1, <2>2 DEF Inv, OutsideOK, Same
<1>4. NodeOK'
  <2> SUFFICES ASSUME NEW t \in Threads, Joined(t)'
      PROVE /\ pc'[t] \in Working \cup {"done"} => node'[t] < Len(Nodes) /\ Kind(node'[t]) # "nop"
            /\ pc'[t] = "plain" => Kind(node'[t]) = "plain"
            /\ pc'[t] \in {"chunk", "fetch"} => Kind(node'[t]) = "chunked"
            /\ Meeting(t)' \/ Late(t)' =>
                  /\ meet'[t] = "start" => node'[t] < Len(Nodes) /\ Kind(node'[t]) = "chunked"
                  /\ meet'[t] = "end" => node'[t] + 1 < Len(Nodes) /\ Kind(node'[t]) # "nop"
    BY DEF NodeOK
  <2>1. CASE Same(t)
    <3>1. (Joined(t)' <=> Joined(t)) /\ (Meeting(t)' <=> Meeting(t)) /\ (Late(t)' <=> Late(t))
      BY <2>1, SameView
    <3> QED
      BY <2>1, <3>1 DEF Inv, NodeOK, Same
  <2>2. CASE pc'[t] \in AtHome \/ pc'[t] = "loop"
    <3>1. pc'[t] \notin Working \cup {"done", "spin", "arrive", "enter", "reset", "pass"}
      BY <2>2 DEF AtHome, Working
    <3> QED
      BY <3>1 DEF Meeting, Late, Inside, Working
  <2> QED
    BY <1>1, <2>1, <2>2
<1>5. Together'
  BY <1>0, <1>1, <1>2 DEF Inv, Together
<1>6. BarrierOK'
  <2>1. BarrierOK
    BY DEF Inv
  <2>2. nBarrier' = IF \E t \in Threads : pc'[t] = "pass" THEN 0
                    ELSE IF \E t \in Threads : pc'[t] = "reset" THEN graph'.n
                    ELSE Cardinality(Insiders')
    BY <1>1, <2>1, CountSame
  <2>3. \A t \in Threads : mine'[t] <= nPassed' /\ (pc'[t] = "enter" => mine'[t] = nPassed')
    BY <1>1, <2>1 DEF BarrierOK
  <2>4. \A t \in Threads : pc'[t] \in {"reset", "pass"} => \A u \in Members' \ {t} : Inside(u)'
    BY <1>0, <1>1, <2>1 DEF BarrierOK
  <2> QED
    BY <2>2, <2>3, <2>4 DEF BarrierOK
<1>7. AbortOK'
  <2>1. Meeting(0) /\ Now[1] = "end" => Meeting(0)'
    <3>1. ASSUME Meeting(0), Now[1] = "end" PROVE Same(0)
      <4>1. pc[0] \notin AtHome
        BY <3>1 DEF Meeting, Inside, AtHome
      <4> QED
        BY <4>1, Constants DEF Quiet
    <3> QED
      BY <3>1, SameView
  <2> QED
    BY <1>2, <2>1 DEF Inv, AbortOK
<1>8. /\ Current' = Current /\ Current \in -1..Len(Nodes) - 1 /\ Len(Nodes) \in Nat
      /\ \A k : Begun(k)' <=> Begun(k)
  BY <1>2, NowRange, Constants DEF Current, Begun
<1>9. \A k, p : k \in Steps => (Done(k, p)' <=> Done(k, p))
  <2> SUFFICES ASSUME NEW k \in Steps, NEW p PROVE Done(k, p)' <=> Done(k, p)
    OBVIOUS
  <2>1. k \in Nat /\ Pieces(k)' = Pieces(k)
    BY <1>0 DEF Steps, Pieces, ChunkCount
  <2>2. Kind(k) = "plain" /\ p \in Pieces(k) => (Behind(p, k)' <=> Behind(p, k))
    BY <1>0, <1>1, <2>1 DEF Pieces
  <2>3. (\A t \in Members : ~Holds(t, p)') <=> (\A t \in Members : ~Holds(t, p))
    BY <1>0, <1>1
  <2> QED
    BY <1>0, <1>8, <2>1, <2>2, <2>3 DEF Done
<1>10. WorkOK'
  BY <1>9 DEF Inv, WorkOK
<1>11. ChunkOK'
  <2>1. Meeting(0)' /\ Now[1] = "start" => Meeting(0)
    <3>1. ASSUME Meeting(0)' PROVE Same(0)
      <4>1. pc'[0] \notin AtHome /\ pc'[0] # "loop"
        BY <3>1 DEF Meeting, Inside, AtHome
      <4> QED
        BY <1>1, <4>1, Constants
    <3> QED
      BY <3>1, SameView
  <2>2. Now[1] = "start" /\ Meeting(0)' => chunk' = graph'.n
    BY <2>1 DEF Inv, ChunkOK
  <2>3. ASSUME Current # -1, Kind(Current) = "chunked"
        PROVE  /\ chunk >= graph.n
               /\ \A t \in Members : /\ pc'[t] = "chunk" /\ Joined(t)' =>
                                           taken'[t] < chunk /\ (taken'[t] < graph.n => taken'[t] = t)
                                     /\ Behind(t, Current)' => chunk >= ChunkCount
               /\ \A t, u \in Members :
                     /\ t # u /\ Joined(t)' /\ Joined(u)' /\ pc'[t] = "chunk" /\ pc'[u] = "chunk"
                           => taken'[t] # taken'[u]
    <3>1. Current \in Nat
      BY <1>8, <2>3
    <3>2. \A t \in Members : /\ pc'[t] = "chunk" /\ Joined(t)' => pc[t] = "chunk" /\ Joined(t)
                             /\ taken'[t] = taken[t]
                             /\ Behind(t, Current)' => Behind(t, Current)
      <4> SUFFICES ASSUME NEW t \in Members
                   PROVE  /\ pc'[t] = "chunk" /\ Joined(t)' => pc[t] = "chunk" /\ Joined(t)
                          /\ taken'[t] = taken[t]
                          /\ Behind(t, Current)' => Behind(t, Current)
        OBVIOUS
      <4>1. pc'[t] = "chunk" /\ Joined(t)' => pc[t] = "chunk" /\ Joined(t)
        <5>1. pc'[t] = "chunk" => Same(t)
          BY <1>0, <1>1 DEF AtHome
        <5> QED
          BY <5>1, SameView DEF Same
      <4>2. Behind(t, Current)' => Behind(t, Current)
        BY <1>0, <1>1, <1>8, <3>1 DEF Current
      <4> QED
        BY <1>0, <1>1, <4>1, <4>2
    <3>3. ChunkOK
      BY DEF Inv
    <3> QED
      BY <2>3, <3>2, <3>3 DEF ChunkOK
  <2> QED
    BY <1>0, <1>2, <1>8, <2>2, <2>3 DEF ChunkOK, ChunkCount
<1> QED
  BY <1>3, <1>4, <1>5, <1>6, <1>7, <1>10, <1>11 DEF Inv

LEMMA AnswerQuiet ==
    ASSUME Inv, NEW t \in Threads, t # 0, pc[t] \in {"poll", "check"}, Answer(t),
           ThreadReady(t), UNCHANGED <<graph, meet, mine, taken>>
    PROVE  Quiet(t) /\ pc'[t] \in {"top", "loop"} /\ lastGraph'[t] \in {lastGraph[t], graph.seq}
<1>1. /\ pc \in [Threads -> Labels] /\ node \in [Threads -> 0..Len(Nodes)]
      /\ lastGraph \in [Threads -> Nat] /\ graph.n \in Nat /\ t \in Nat
  <2>1. Types /\ Threads \subseteq Nat
    BY Constants DEF Inv
  <2> QED
    BY <2>1, TypeFacts
<1>2. pc[t] \in AtHome /\ "top" \in AtHome
  BY DEF AtHome
<1>3. CASE stop \/ pause
  <2>1. pc'[t] = "top" /\ lastGraph' = lastGraph /\ node' = node
    BY <1>1, <1>3 DEF Answer, Goto
  <2> QED
    BY <1>2, <2>1 DEF Quiet
<1>4. CASE ~(stop \/ pause) /\ t < graph.n
  <2>1. pc'[t] = "loop" /\ lastGraph'[t] = graph.seq /\ node'[t] = 0
    BY <1>1, <1>4 DEF Answer, Goto
  <2>2. ~Joined(t) /\ t \in Members
    BY <1>1, <1>4 DEF ThreadReady, NewGraph, Joined, Members
  <2> QED
    BY <1>2, <2>1, <2>2 DEF Quiet
<1>5. CASE ~(stop \/ pause) /\ ~(t < graph.n)
  <2>1. pc'[t] = "top" /\ lastGraph'[t] = graph.seq
    BY <1>1, <1>5 DEF Answer, Goto
  <2>2. t \notin Members
    BY <1>1, <1>5 DEF Members
  <2> QED
    BY <1>2, <2>1, <2>2 DEF Quiet
<1> QED
  BY <1>3, <1>4, <1>5

LEMMA WorkerKeeps == ASSUME Inv, NEW t \in Threads, Worker(t) PROVE Inv'
<1>1. /\ Types' /\ Others(t) /\ meet' = meet /\ mine' = mine /\ taken' = taken
      /\ UNCHANGED <<graph, nBarrier, nPassed, abort, chunk, work>>
  BY WorkerTypes
<1>2. t # 0 /\ pc[t] \in {"top", "lock", "poll", "check"}
  BY DEF Inv, HomeOK, Worker, WorkerTop, WorkerPause, Poll, CheckForWork
<1>3. /\ Types /\ pc \in [Threads -> Labels] /\ lastGraph \in [Threads -> Nat] /\ graph.n \in Nat
      /\ graph.seq \in Nat
  <2>1. Types
    BY DEF Inv
  <2> QED
    BY <2>1, TypeFacts
<1>4. /\ Quiet(t)
      /\ pc'[t] \in {"top", "lock", "exited", "poll", "paused", "check", "asleep", "loop"}
      /\ lastGraph'[t] \in {lastGraph[t], graph.seq}
  <2>1. CASE WorkerTop(t) \/ WorkerPause(t)
    <3>1. node' = node /\ lastGraph' = lastGraph
      BY <2>1 DEF WorkerTop, WorkerPause
    <3>2. pc'[t] \in {"lock", "exited", "poll", "paused", "top"}
      BY <1>3, <2>1 DEF WorkerTop, WorkerPause, Goto
    <3>3. pc[t] \in AtHome /\ pc'[t] \in AtHome
      BY <1>2, <3>2 DEF AtHome
    <3>4. Quiet(t)
      BY <1>1, <3>1, <3>3 DEF Quiet
    <3> QED
      BY <3>1, <3>2, <3>4
  <2>2. CASE Poll(t)
    <3>1. CASE ~stop /\ ~pause /\ NewGraph(t) /\ t < graph.n /\ Answer(t)
      <4>1. ThreadReady(t) /\ pc[t] \in {"poll", "check"}
        BY <1>2, <2>2, <3>1 DEF ThreadReady, Poll
      <4> QED
        BY <1>1, <1>2, <3>1, <4>1, AnswerQuiet
    <3>2. CASE /\ ~stop /\ ~pause /\ NewGraph(t) /\ t >= graph.n
               /\ lastGraph' = [lastGraph EXCEPT ![t] = graph.seq]
               /\ Goto(t, "check") /\ UNCHANGED node
      <4>1. pc'[t] = "check" /\ lastGraph'[t] = graph.seq /\ node' = node
        BY <1>3, <3>2 DEF Goto
      <4>2. t \notin Members
        BY <1>3, <3>2, Constants DEF Members
      <4>3. pc[t] \in AtHome /\ pc'[t] \in AtHome
        BY <1>2, <4>1 DEF AtHome
      <4> QED
        BY <1>1, <1>2, <4>1, <4>2, <4>3 DEF Quiet
    <3>3. CASE Goto(t, "check") /\ UNCHANGED <<lastGraph, node>>
      <4>1. pc'[t] = "check" /\ lastGraph' = lastGraph /\ node' = node
        BY <1>3, <3>3 DEF Goto
      <4>2. pc[t] \in AtHome /\ pc'[t] \in AtHome
        BY <1>2, <4>1 DEF AtHome
      <4> QED
        BY <1>1, <4>1, <4>2 DEF Quiet
    <3> QED
      BY <2>2, <3>1, <3>2, <3>3 DEF Poll
  <2>3. CASE CheckForWork(t)
    <3>1. CASE ThreadReady(t) /\ Answer(t)
      <4>1. pc[t] \in {"poll", "check"}
        BY <2>3 DEF CheckForWork
      <4> QED
        BY <1>1, <1>2, <3>1, <4>1, AnswerQuiet
    <3>2. CASE Goto(t, "asleep") /\ UNCHANGED <<lastGraph, node>>
      <4>1. pc'[t] = "asleep" /\ lastGraph' = lastGraph /\ node' = node
        BY <1>3, <3>2 DEF Goto
      <4>2. pc[t] \in AtHome /\ pc'[t] \in AtHome
        BY <1>2, <4>1 DEF AtHome
      <4> QED
        BY <1>1, <4>1, <4>2 DEF Quiet
    <3> QED
      BY <2>3, <3>1, <3>2 DEF CheckForWork
  <2> QED
    BY <2>1, <2>2, <2>3 DEF Worker
<1>5. \A u \in Threads : Quiet(u)
  <2>1. \A u \in Threads \ {t} : Same(u)
    BY <1>1 DEF Others, Same
  <2> QED
    BY <1>4, <2>1 DEF Quiet, Same
<1>6. pc'[0] = pc[0]
  BY <1>1, <1>2, Constants DEF Others
<1>7. HomeOK'
  <2>1. HomeOK
    BY DEF Inv
  <2>2. \A u \in Threads \ {0} : pc'[u] \notin {"idle", "kick", "join", "freed"}
    BY <1>1, <1>4, <2>1 DEF Others, HomeOK
  <2>3. \A u \in Threads : lastGraph'[u] <= graph.seq
    BY <1>1, <1>3, <1>4, <2>1 DEF Others, HomeOK
  <2> QED
    BY <1>1, <1>6, <2>1, <2>2, <2>3 DEF HomeOK
<1> QED
  BY <1>1, <1>5, <1>6, <1>7, Carry

LEMMA CallerHome ==
    ASSUME Inv, Caller, pc'[0] \in {"idle", "kick", "join", "freed", "loop"},
           graph' = graph => pc'[0] # "loop",
           graph' # graph => graph'.seq > graph.seq /\ graph'.n > 0
    PROVE  HomeOK'
<1>1. /\ Types' /\ lastGraph' = lastGraph
      /\ \A u \in Threads \ {0} :
            \/ pc'[u] = pc[u]
            \/ pc'[u] \in {"check", "top"}
  BY CallerTypes
<1>2. HomeOK /\ Types
  BY DEF Inv
<1>3. graph.seq \in Nat /\ graph'.seq \in Nat /\ lastGraph \in [Threads -> Nat]
  <2>1. lastGraph \in [Threads -> Nat] /\ graph.seq \in Nat
    BY <1>2, TypeFacts
  <2>2. graph'.seq \in Nat
    BY <1>1 DEF Types
  <2> QED
    BY <2>1, <2>2
<1>4. \A u \in Threads \ {0} : pc'[u] \notin {"idle", "kick", "join", "freed"}
  BY <1>1, <1>2 DEF HomeOK
<1>5. /\ \A t \in Threads : lastGraph'[t] <= graph'.seq
      /\ graph'.seq > 0 => graph'.n > 0
      /\ graph'.seq = 0 => pc'[0] \in {"idle", "kick", "join", "freed"}
  <2>1. CASE graph' = graph
    BY <1>1, <1>2, <2>1 DEF HomeOK
  <2>2. CASE graph' # graph
    BY <1>1, <1>2, <1>3, <2>2 DEF HomeOK
  <2> QED
    BY <2>1, <2>2
<1> QED
  BY <1>4, <1>5 DEF HomeOK

LEMMA PauseKeeps == ASSUME Inv, Pause \/ Resume \/ FreeBegin \/ FreeEnd PROVE Inv'
<1>1. /\ Types' /\ UNCHANGED <<nBarrier, nPassed, meet, mine, taken, lastGraph>>
      /\ \A u \in Threads \ {0} :
            /\ node'[u] = node[u]
            /\ \/ pc'[u] = pc[u]
               \/ pc[u] \in AtHome /\ pc'[u] \in AtHome
  BY CallerTypes DEF Caller
<1>2. UNCHANGED <<graph, abort, chunk, node, work>>
  BY DEF Pause, Resume, FreeBegin, FreeEnd, control
<1>3. pc[0] \in {"idle", "join"} /\ pc'[0] \in {"idle", "join", "freed"}
  <2>1. 0 \in Threads /\ pc \in [Threads -> Labels] /\ Broadcast \in [Threads -> Labels]
    BY Constants, TypeFacts, BroadcastTypes DEF Inv
  <2>2. CASE Pause \/ Resume
    BY <2>1, <2>2 DEF Pause, Resume, Broadcast
  <2>3. CASE FreeBegin
    BY <2>1, <2>3 DEF FreeBegin
  <2>4. CASE FreeEnd
    BY <2>1, <2>4 DEF FreeEnd, Goto
  <2> QED
    BY <2>2, <2>3, <2>4
<1>4. \A u \in Threads : Quiet(u)
  <2>1. pc[0] \in AtHome /\ pc'[0] \in AtHome
    BY <1>3 DEF AtHome
  <2>2. Quiet(0)
    BY <1>1, <1>2, <2>1 DEF Quiet
  <2>3. \A u \in Threads \ {0} : Quiet(u)
    BY <1>1, <1>2 DEF Quiet, Same
  <2> QED
    BY <2>2, <2>3
<1>5. HomeOK'
  BY <1>2, <1>3, CallerHome DEF Caller
<1> QED
  BY <1>1, <1>2, <1>3, <1>4, <1>5, Carry

\* Between two graphs nobody holds a barrier, and nobody waits at one.
LEMMA NobodyWaits ==
    ASSUME Inv, pc[0] \in AtHome
    PROVE  /\ nBarrier = 0 /\ Insiders = {}
           /\ \A t \in Threads : ~Inside(t) /\ pc[t] \notin {"enter", "reset", "pass"}
<1>1. \A t \in Threads : ~Inside(t) /\ pc[t] \notin {"enter", "reset", "pass"}
  <2> SUFFICES ASSUME NEW t \in Threads
               PROVE  ~Inside(t) /\ pc[t] \notin {"enter", "reset", "pass"}
    OBVIOUS
  <2>1. pc[t] \in AtHome \/ Late(t)
    BY AllOver
  <2> QED
    BY <2>1 DEF AtHome, Late, Inside
<1>2. Insiders = {}
  BY <1>1 DEF Insiders
<1>3. nBarrier = 0
  BY <1>1, <1>2, FS_EmptySet DEF Inv, BarrierOK
<1> QED
  BY <1>1, <1>2, <1>3

\* The caller has reset the shared state or announced a graph, and moved idle workers.
LEMMA StillOutside ==
    ASSUME Inv, Caller, \A u \in Threads \ {0} : pc'[u] \notin AtHome => pc'[u] = pc[u]
    PROVE  /\ \A u \in Threads \ {0} : pc'[u] \notin AtHome => Late(u)' /\ meet'[u] = "final"
           /\ \A u \in Threads \ {0} : /\ ~Inside(u)'
                                       /\ pc'[u] \notin {"enter", "reset", "pass", "chunk"}
<1>1. UNCHANGED <<nPassed, meet, mine>> /\ pc[0] \in AtHome
  BY CallerTypes
<1>2. \A u \in Threads \ {0} : pc'[u] \notin AtHome => Late(u)' /\ meet'[u] = "final"
  BY <1>1, AllOver DEF Late
<1>3. \A u \in Threads \ {0} : ~Inside(u)' /\ pc'[u] \notin {"enter", "reset", "pass", "chunk"}
  BY <1>2 DEF Late, Inside, AtHome
<1> QED
  BY <1>2, <1>3

LEMMA PrepareKeeps == ASSUME Inv, Prepare PROVE Inv'
<1>1. /\ Types' /\ UNCHANGED <<nBarrier, nPassed, meet, mine, taken, lastGraph>>
      /\ pc[0] \in AtHome
  BY CallerTypes DEF Caller
<1>2. /\ Types /\ pc \in [Threads -> Labels] /\ 0 \in Threads
  BY TypeFacts, Constants DEF Inv
<1>3. /\ pc'[0] = "kick" /\ \A u \in Threads \ {0} : pc'[u] = pc[u]
      /\ UNCHANGED <<graph, node>> /\ abort' = -1 /\ chunk' = 0 /\ work' = ClearWork
  BY <1>2 DEF Prepare, Goto, control
<1>4. HomeOK'
  BY <1>3, CallerHome DEF Caller
<1>5. Now' = <<"over", node[0]>>
  <2>1. Joined(0)' /\ pc'[0] \in AtHome
    BY <1>3 DEF Joined, AtHome
  <2> QED
    BY <1>1, <1>2, <1>3, <2>1, GateAtNext DEF Now
<1>6. Members' = Members /\ Members \subseteq Threads
  BY <1>2, <1>3, Members0 DEF Members
<1>7. \A u \in Threads : /\ Joined(u)' <=> Joined(u)
                         /\ pc'[u] \in AtHome \/ (Late(u)' /\ meet'[u] = "final")
  <2>1. \A u \in Threads : Joined(u)' <=> Joined(u)
    BY <1>1, <1>3 DEF Joined
  <2>2. \A u \in Threads \ {0} : pc'[u] \in AtHome \/ (Late(u)' /\ meet'[u] = "final")
    BY <1>3, StillOutside DEF Caller
  <2> QED
    BY <1>3, <2>1, <2>2 DEF AtHome
<1>8. OutsideOK'
  BY <1>7 DEF OutsideOK
<1>9. NodeOK'
  <2>1. \A u \in Threads : pc'[u] \notin Working \cup {"done"}
                           /\ (Meeting(u)' \/ Late(u)' => meet'[u] = "final")
    BY <1>7 DEF AtHome, Late, Meeting, Inside, Working
  <2> QED
    BY <2>1 DEF NodeOK, Working
<1>10. Together'
  <2> SUFFICES ASSUME NEW u \in Members PROVE Gate(u)' = Now'
    BY <1>6 DEF Together
  <2>1. Joined(u)
    BY <1>1, <1>6, AllOver
  <2>2. Gate(u) = <<"over", node[0]>>
    BY <1>1, <1>6, AllOver DEF Inv, Together
  <2>3. CASE pc[u] \in AtHome
    <3>1. Gate(u) = <<"over", node[u]>>
      BY <1>2, <1>6, <2>1, <2>3, GateAt
    <3>2. pc'[u] \in AtHome
      BY <1>3, <1>6, <2>3 DEF AtHome
    <3>3. Gate(u)' = <<"over", node[u]>>
      BY <1>1, <1>3, <1>6, <1>7, <2>1, <3>2, GateAtNext
    <3> QED
      BY <1>5, <2>2, <3>1, <3>3
  <2>4. CASE Late(u) /\ meet[u] = "final" /\ u # 0
    <3>1. Gate(u) = <<"over", node[u]>>
      BY <1>2, <1>6, <2>1, <2>4, GateAt DEF Beyond
    <3>2. Late(u)' /\ meet'[u] = "final"
      BY <1>1, <1>3, <1>6, <2>4 DEF Late
    <3>3. Gate(u)' = <<"over", node[u]>>
      BY <1>1, <1>3, <1>6, <1>7, <2>1, <3>2, GateAtNext DEF Beyond
    <3> QED
      BY <1>5, <2>2, <3>1, <3>3
  <2> QED
    BY <1>1, <1>6, <2>3, <2>4, AllOver
<1>11. BarrierOK'
  <2>1. \A u \in Threads : ~Inside(u)' /\ pc'[u] \notin {"enter", "reset", "pass"}
    BY <1>7 DEF AtHome, Late, Inside
  <2>2. nBarrier' = 0 /\ Insiders' = {}
    BY <1>1, <2>1, NobodyWaits DEF Insiders
  <2>3. \A u \in Threads : mine'[u] <= nPassed'
    BY <1>1 DEF Inv, BarrierOK
  <2> QED
    BY <2>1, <2>2, <2>3, FS_EmptySet DEF BarrierOK
<1>12. AbortOK'
  BY <1>3 DEF AbortOK
<1>13. WorkOK'
  <2>1. \A k \in Steps, p \in PieceIds : work'[k][p] = 0
    BY <1>3 DEF ClearWork
  <2> QED
    BY <1>3, <2>1 DEF WorkOK, Done
<1>14. ChunkOK'
  BY <1>5 DEF ChunkOK, Current, CurrentAt
<1> QED
  BY <1>1, <1>4, <1>8, <1>9, <1>10, <1>11, <1>12, <1>13, <1>14 DEF Inv

LEMMA KickoffKeeps == ASSUME Inv, Kickoff PROVE Inv'
<1>1. /\ Types' /\ UNCHANGED <<nBarrier, nPassed, meet, mine, taken, lastGraph>>
      /\ pc[0] \in AtHome
      /\ \A u \in Threads \ {0} : pc'[u] \notin AtHome => pc'[u] = pc[u]
  BY CallerTypes DEF Caller
<1>2. /\ Types /\ 0 \in Threads /\ graph.seq \in Nat /\ Len(Nodes) \in Nat
      /\ lastGraph \in [Threads -> Nat] /\ node \in [Threads -> 0..Len(Nodes)]
  BY TypeFacts, Constants DEF Inv
<1>3. pc[0] = "kick" /\ UNCHANGED <<abort, chunk, work>> /\ abort = -1
  BY DEF Kickoff, Inv, AbortOK
<1>4. graph'.seq = graph.seq + 1 /\ graph'.n > 0
  BY <1>2 DEF Kickoff
<1>5. pc'[0] = "loop" /\ node'[0] = 0
  <2>1. Broadcast \in [Threads -> Labels]
    BY <1>2, BroadcastTypes
  <2> QED
    BY <1>2, <2>1 DEF Kickoff
<1>6. HomeOK'
  BY <1>2, <1>4, <1>5, CallerHome DEF Caller
<1>7. Joined(0)' /\ \A u \in Threads \ {0} : ~Joined(u)'
  <2>1. \A u \in Threads : lastGraph[u] <= graph.seq
    BY DEF Inv, HomeOK
  <2> QED
    BY <1>1, <1>2, <1>4, <2>1 DEF Joined
<1>8. Members' \subseteq Threads /\ 0 \in Members'
  <2>1. graph' \in [seq : Nat, n : 0..Pool]
    BY <1>1 DEF Types
  <2>2. graph'.n \in 0..Pool /\ Pool \in Nat
    BY <2>1, Constants
  <2> QED
    BY <1>4, <2>2 DEF Members, Threads
<1> DEFINE g == AfterLoop(0, -1)
<1>9. \A u \in Threads : Gate(u)' = g
  BY <1>1, <1>2, <1>3, <1>5, <1>7, GateAtNext
<1>10. Now' = g
  BY <1>2, <1>9 DEF Now
<1>11. /\ g[1] \in {"start", "end", "final"} /\ (g[1] = "final" => g[2] = Len(Nodes) \/ g[2] = -1)
       /\ CurrentAt(g) \in -1..Len(Nodes) - 1
       /\ CurrentAt(g) # -1 => CurrentAt(g) \in Steps /\ Kind(CurrentAt(g)) # "chunked"
       /\ \A k \in Steps : BegunAt(g, k) /\ Kind(k) # "nop" =>
             k = CurrentAt(g) /\ Kind(k) = "plain"
  <2>1. 0 \in 0..Len(Nodes) /\ -1 \in -1..Len(Nodes)
    BY <1>2
  <2>2. /\ g[1] \in {"start", "end", "final"} /\ (g[1] = "final" => g[2] = Len(Nodes) \/ g[2] = -1)
        /\ CurrentAt(g) \in -1..Len(Nodes) - 1
        /\ 0 < Len(Nodes) /\ CurrentAt(g) # -1 => Kind(CurrentAt(g)) # "chunked"
        /\ \A k \in Steps : k >= 0 /\ BegunAt(g, k) /\ Kind(k) # "nop" =>
              k = CurrentAt(g) /\ Kind(k) = "plain"
    BY <2>1, AfterLoopGate
  <2>3. \A k \in Steps : BegunAt(g, k) /\ Kind(k) # "nop" => k = CurrentAt(g) /\ Kind(k) = "plain"
    BY <2>2 DEF Steps
  <2> HIDE DEF g
  <2>4. CurrentAt(g) # -1 => CurrentAt(g) \in Steps /\ Kind(CurrentAt(g)) # "chunked"
    BY <1>2, <2>2 DEF Steps
  <2> QED
    BY <2>2, <2>3, <2>4
<1> HIDE DEF g
<1>12. OutsideOK'
  <2>1. \A u \in Threads \ {0} : pc'[u] \notin AtHome => Late(u)' /\ meet'[u] = "final"
    BY <1>1, StillOutside DEF Caller
  <2> QED
    BY <1>7, <1>8, <2>1 DEF OutsideOK
<1>13. NodeOK'
  <2>1. \A u \in Threads : Joined(u)' => u = 0
    BY <1>7
  <2>2. pc'[0] \notin Working \cup {"done"} /\ ~Meeting(0)' /\ ~Late(0)'
    BY <1>5 DEF Working, Meeting, Late, Inside
  <2> QED
    BY <2>1, <2>2 DEF NodeOK, Working
<1>14. Together'
  BY <1>8, <1>9, <1>10 DEF Together
<1>15. \A u \in Threads : ~Inside(u)' /\ pc'[u] \notin {"enter", "reset", "pass"}
  <2>1. ~Inside(0)' /\ pc'[0] \notin {"enter", "reset", "pass"}
    BY <1>5 DEF Inside
  <2> QED
    BY <1>1, <2>1, StillOutside DEF Caller
<1>16. BarrierOK'
  <2>1. nBarrier' = 0 /\ Insiders' = {}
    BY <1>1, <1>15, NobodyWaits DEF Insiders
  <2>2. \A u \in Threads : mine'[u] <= nPassed'
    BY <1>1 DEF Inv, BarrierOK
  <2> QED
    BY <1>15, <2>1, <2>2, FS_EmptySet DEF BarrierOK
<1>17. AbortOK'
  <2>1. AfterLoop(0, -1) = g
    BY DEF g
  <2>2. g[1] # "over" /\ (g[1] = "final" => g[2] = Len(Nodes) \/ abort = g[2])
    BY <1>3, <1>11
  <2> QED
    BY <1>3, <1>5, <1>10, <2>2 DEF AbortOK
<1>18. WorkOK'
  <2>1. \A k \in Steps, p \in PieceIds : work'[k][p] = 0
    BY <1>3 DEF Inv, WorkOK, Done
  <2>2. \A k \in Steps, p \in PieceIds : ~Done(k, p)'
    <3> SUFFICES ASSUME NEW k \in Steps, NEW p \in PieceIds, Done(k, p)' PROVE FALSE
      OBVIOUS
    <3>1. BegunAt(g, k) /\ p \in Pieces(k)'
      BY <1>10 DEF Done, Begun
    <3>2. Kind(k) # "nop" /\ Kind(k) \in Kinds
      BY <3>1, NodesFacts DEF Pieces
    <3>3. k = CurrentAt(g) /\ Kind(k) = "plain"
      BY <1>11, <3>1, <3>2
    <3>4. Behind(p, k)'
      BY <1>10, <3>3 DEF Done, Current
    <3>5. p \in Threads
      BY <1>8, <3>1, <3>3 DEF Pieces
    <3>6. p = 0 /\ node'[0] > k
      BY <1>5, <1>7, <3>4, <3>5 DEF Behind, Meeting, Inside
    <3> QED
      BY <1>2, <1>5, <3>6 DEF Steps
  <2> QED
    BY <2>1, <2>2 DEF WorkOK
<1>19. ChunkOK'
  <2>1. ~Meeting(0)'
    BY <1>5 DEF Meeting, Inside
  <2>2. Current' = CurrentAt(g)
    BY <1>10 DEF Current
  <2> QED
    BY <1>11, <2>1, <2>2 DEF ChunkOK
<1> QED
  BY <1>1, <1>6, <1>12, <1>13, <1>14, <1>16, <1>17, <1>18, <1>19 DEF Inv

LEMMA StutterKeeps == ASSUME Inv, UNCHANGED vars PROVE Inv'
<1>1. /\ UNCHANGED <<graph, abort, nBarrier, nPassed, chunk, work>>
      /\ UNCHANGED <<pc, node, meet, mine, taken, lastGraph>>
  BY DEF vars, control, barrier
<1>2. Types'
  BY TypesStep
<1>3. HomeOK'
  BY <1>1 DEF Inv, HomeOK
<1>4. \A u \in Threads : Quiet(u)
  BY <1>1 DEF Quiet, Same
<1> QED
  BY <1>1, <1>2, <1>3, <1>4, Carry

-----------------------------------------------------------------------------
(***************************************************************************)
(* Steps of the loop: places.                                               *)
(***************************************************************************)
LEMMA ComputeFrame ==
    ASSUME Inv, NEW t \in Threads, Compute(t)
    PROVE  /\ Loop(t) /\ Types /\ Members' = Members /\ Members \subseteq Threads
           /\ \A u \in Threads \ {t} : Same(u)
           /\ \A u \in Threads : Joined(u)' <=> Joined(u)
           /\ pc[t] \notin AtHome
           /\ mine'[t] = mine[t] \/ BarrierRead(t)
           /\ (t \in Members /\ Joined(t)) \/ (BarrierSpin(t) /\ Late(t) /\ meet[t] = "final")
<1>1. Loop(t) /\ Types
  BY LoopHeadStep, WorkStep, FetchStep, NodeDoneStep, ReadStep, CountStep, PassStep
  DEF Compute, Inv
<1>2. graph' = graph /\ lastGraph' = lastGraph /\ \A u \in Threads \ {t} : Same(u)
  BY <1>1 DEF Loop, Others, Same
<1>3. Members' = Members /\ Members \subseteq Threads /\ \A u \in Threads : Joined(u)' <=> Joined(u)
  BY <1>1, <1>2, Members0 DEF Members, Joined
<1>4. \/ pc[t] \in {"loop", "plain", "chunk", "fetch", "done", "arrive", "enter", "reset", "pass"}
      \/ pc[t] = "spin" /\ BarrierSpin(t) /\ Late(t)
  BY DEF Compute, LoopHead, PlainWork, ChunkWork, ChunkFetch, NodeDone, BarrierAlone,
         BarrierRead, BarrierEnter, BarrierReset, BarrierPass, BarrierSpin, Late
<1>5. pc[t] \notin AtHome
  BY <1>4 DEF AtHome
<1>6. mine'[t] = mine[t] \/ BarrierRead(t)
  BY LoopHeadStep, WorkStep, FetchStep, NodeDoneStep, CountStep, PassStep DEF Compute
<1>7. (t \in Members /\ Joined(t)) \/ (BarrierSpin(t) /\ Late(t) /\ meet[t] = "final")
  BY <1>4, <1>5, Participant DEF Late
<1> QED
  BY <1>1, <1>2, <1>3, <1>5, <1>6, <1>7

\* Where a step of the loop leads.
LEMMA ComputeGoes ==
    ASSUME Inv, NEW t \in Threads, Compute(t)
    PROVE  \/ pc'[t] \in {"loop", "plain", "chunk", "fetch", "done", "arrive", "enter", "reset",
                          "pass", "spin"}
           \/ pc'[t] = Idle(t) /\ meet[t] = "final"
              /\ (BarrierAlone(t) \/ BarrierPass(t) \/ BarrierSpin(t))
<1>1. meet[t] \in {"start", "end", "final"}
  BY TypeFacts DEF Inv
<1> QED
  BY <1>1, LoopHeadStep, WorkStep, FetchStep, NodeDoneStep, ReadStep, CountStep, PassStep
  DEF Compute

LEMMA HomeStep == ASSUME Inv, NEW t \in Threads, Compute(t) PROVE HomeOK'
<1>1. HomeOK /\ UNCHANGED <<graph, lastGraph>> /\ (\A u \in Threads \ {t} : pc'[u] = pc[u])
  BY ComputeFrame DEF Inv, Loop, Same
<1>2. /\ t = 0 => /\ pc'[0] \notin {"top", "lock", "paused", "poll", "check", "asleep", "exited"}
                  /\ graph.seq # 0
      /\ t # 0 => pc'[t] \notin {"idle", "kick", "join", "freed"}
  <2>1. t = 0 => graph.seq # 0
    BY <1>1, ComputeFrame DEF HomeOK, AtHome
  <2> QED
    BY <2>1, ComputeGoes DEF Idle
<1> QED
  BY <1>1, <1>2, Constants DEF HomeOK

\* A barrier is passed by one thread while the others of the graph are inside it.
LEMMA PassAlone ==
    ASSUME Inv, NEW t \in Threads, pc[t] \in {"reset", "pass"}
    PROVE  /\ t \in Members /\ Joined(t)
           /\ \A u \in Threads \ {t} :
                 /\ pc[u] \notin {"loop", "plain", "chunk", "fetch", "done", "arrive", "enter",
                                  "reset", "pass"}
                 /\ u \in Members => Inside(u) /\ Joined(u)
                 /\ u \notin Members => pc[u] \in AtHome \/ (Late(u) /\ meet[u] = "final")
<1>1. t \in Members /\ Joined(t)
  BY Participant DEF AtHome, Late
<1>2. \A u \in Members \ {t} : Inside(u)
  BY DEF Inv, BarrierOK
<1>3. \A u \in Members \ {t} : pc[u] = "spin" /\ pc[u] \notin AtHome /\ ~Late(u)
  BY <1>2 DEF Inside, Late, AtHome
<1>4. \A u \in Members \ {t} : Joined(u)
  BY <1>3, Members0 DEF Inv, OutsideOK
<1>5. \A u \in Threads : u \notin Members => pc[u] \in AtHome \/ (Late(u) /\ meet[u] = "final")
  BY DEF Inv, OutsideOK
<1>6. \A u \in Threads \ {t} : pc[u] \notin {"loop", "plain", "chunk", "fetch", "done", "arrive",
                                             "enter", "reset", "pass"}
  BY <1>3, <1>5 DEF AtHome, Late
<1> QED
  BY <1>1, <1>2, <1>4, <1>5, <1>6

LEMMA PassedBy ==
    ASSUME Inv, NEW t \in Threads, Compute(t)
    PROVE  nPassed' = nPassed \/ (nPassed' = nPassed + 1 /\ pc[t] = "pass" /\ BarrierPass(t))
  BY LoopHeadStep, WorkStep, FetchStep, NodeDoneStep, ReadStep, CountStep, PassStep
  DEF Compute, BarrierAlone, BarrierPass, BarrierSpin, barrier

LEMMA OutsideStep == ASSUME Inv, NEW t \in Threads, Compute(t) PROVE OutsideOK'
<1> SUFFICES ASSUME NEW u \in Threads, u \notin Members \/ ~Joined(u), pc'[u] \notin AtHome
             PROVE  Late(u)' /\ meet'[u] = "final"
  BY ComputeFrame DEF OutsideOK
<1>1. CASE u = t
  <2>1. BarrierSpin(t) /\ meet[t] = "final"
    BY <1>1, ComputeFrame
  <2>2. pc'[t] = Idle(t)
    BY <2>1, PassStep
  <2> QED
    BY <1>1, <2>2 DEF Idle, AtHome
<1>2. CASE u # t
  <2>1. Same(u)
    BY <1>2, ComputeFrame
  <2>2. Late(u) /\ meet[u] = "final"
    BY <2>1 DEF Inv, OutsideOK, Same
  <2>3. mine[u] <= nPassed /\ mine[u] \in Nat /\ nPassed \in Nat
    BY TypeFacts DEF Inv, BarrierOK
  <2> QED
    BY <2>1, <2>2, <2>3, PassedBy DEF Same, Late
<1> QED
  BY <1>1, <1>2

LEMMA Barred ==
    ASSUME NEW t
    PROVE  Meeting(t) \/ Late(t) <=> pc[t] \in {"arrive", "enter", "reset", "pass", "spin"}
  BY DEF Meeting, Late, Inside

LEMMA BarredNext ==
    ASSUME NEW t
    PROVE  Meeting(t)' \/ Late(t)' <=> pc'[t] \in {"arrive", "enter", "reset", "pass", "spin"}
  BY DEF Meeting, Late, Inside

LEMMA NodeStep == ASSUME Inv, NEW t \in Threads, Compute(t) PROVE NodeOK'
<1> DEFINE Place(at, k, m) ==
        /\ at \in Working \cup {"done"} => k < Len(Nodes) /\ Kind(k) # "nop"
        /\ at = "plain" => Kind(k) = "plain"
        /\ at \in {"chunk", "fetch"} => Kind(k) = "chunked"
        /\ at \in {"arrive", "enter", "reset", "pass", "spin"} =>
              /\ m = "start" => k < Len(Nodes) /\ Kind(k) = "chunked"
              /\ m = "end" => k + 1 < Len(Nodes) /\ Kind(k) # "nop"
<1>1. \A u \in Threads : Joined(u) => Place(pc[u], node[u], meet[u])
  BY Barred DEF Inv, NodeOK
<1>2. (\A u \in Threads : Joined(u)' => Place(pc'[u], node'[u], meet'[u])) => NodeOK'
  BY BarredNext DEF NodeOK
<1>3. \A u \in Threads \ {t} : Joined(u)' => Place(pc'[u], node'[u], meet'[u])
  BY <1>1, ComputeFrame DEF Same
<1>4. ASSUME Joined(t) PROVE Place(pc'[t], node'[t], meet'[t])
  <2>1. Place(pc[t], node[t], meet[t])
    BY <1>1, <1>4
  <2>2. CASE LoopHead(t)
    BY <2>2, LoopHeadStep DEF Working
  <2>3. CASE PlainWork(t) \/ ChunkWork(t)
    BY <2>1, <2>3, WorkStep DEF Working
  <2>4. CASE ChunkFetch(t)
    BY <2>1, <2>4, FetchStep DEF Working
  <2>5. CASE NodeDone(t)
    BY <2>1, <2>5, NodeDoneStep DEF Working
  <2>6. CASE BarrierRead(t)
    BY <2>1, <2>6, ReadStep DEF Working
  <2>7. CASE BarrierEnter(t) \/ BarrierReset(t)
    BY <2>1, <2>7, CountStep DEF Working
  <2>8. CASE BarrierAlone(t) \/ BarrierPass(t) \/ BarrierSpin(t)
    <3>1. meet[t] \in {"start", "end", "final"}
      BY TypeFacts DEF Inv
    <3>2. pc[t] \in {"arrive", "enter", "reset", "pass", "spin"}
      BY <2>8, PassStep DEF Late
    <3>3. CASE meet[t] = "start"
      BY <2>1, <2>8, <3>2, <3>3, PassStep DEF Working
    <3>4. CASE meet[t] = "end"
      BY <2>1, <2>8, <3>4, PassStep DEF Working
    <3>5. CASE meet[t] = "final"
      BY <2>1, <2>8, <3>5, PassStep DEF Working, Idle
    <3> QED
      BY <3>1, <3>3, <3>4, <3>5
  <2> QED
    BY <2>2, <2>3, <2>4, <2>5, <2>6, <2>7, <2>8 DEF Compute
<1> HIDE DEF Place
<1>5. Joined(t)' => Place(pc'[t], node'[t], meet'[t])
  BY <1>4, ComputeFrame
<1> QED
  BY <1>2, <1>3, <1>5

-----------------------------------------------------------------------------
(***************************************************************************)
(* Steps of the loop: gates.                                                *)
(***************************************************************************)
\* One turn of the loop does not change the gate that a thread comes to.
LEMMA LoopTurn ==
    ASSUME NEW k \in 0..Len(Nodes), NEW a
    PROVE  /\ k = Len(Nodes) \/ k = a => AfterLoop(k, a) = <<"final", k>>
           /\ k < Len(Nodes) /\ k # a /\ Kind(k) = "nop" => AfterLoop(k, a) = AfterLoop(k + 1, a)
           /\ k < Len(Nodes) /\ k # a /\ Kind(k) = "plain" => AfterLoop(k, a) = AfterWork(k)
           /\ k < Len(Nodes) /\ k # a /\ Kind(k) = "chunked" => AfterLoop(k, a) = <<"start", k>>
<1>1. /\ Stops(k, a) => First(k, a) = k
      /\ ~Stops(k, a) => First(k, a) = First(k + 1, a)
  BY FirstTurn
<1>2. k = Len(Nodes) \/ k = a => AfterLoop(k, a) = <<"final", k>>
  BY <1>1 DEF AfterLoop, AtNode, Stops
<1>3. k < Len(Nodes) /\ k # a /\ Kind(k) = "nop" => AfterLoop(k, a) = AfterLoop(k + 1, a)
  BY <1>1, NodesFacts DEF AfterLoop, Stops
<1>4. k < Len(Nodes) /\ k # a /\ Kind(k) = "plain" => AfterLoop(k, a) = AfterWork(k)
  BY <1>1, NodesFacts DEF AfterLoop, AtNode, Stops
<1>5. k < Len(Nodes) /\ k # a /\ Kind(k) = "chunked" => AfterLoop(k, a) = <<"start", k>>
  BY <1>1, NodesFacts DEF AfterLoop, AtNode, Stops
<1> QED
  BY <1>2, <1>3, <1>4, <1>5

\* Aborting after the node at work does not change the gate after it.
LEMMA AbortGate ==
    ASSUME NEW j \in 0..Len(Nodes), NEW a \in -1..Len(Nodes), NEW k \in Steps, Kind(k) # "nop",
           AfterLoop(j, a) = AfterWork(k)
    PROVE  AfterLoop(j, k + 1) = AfterWork(k)
<1> DEFINE i == First(j, a)
<1>1. Len(Nodes) \in Nat /\ j \in Nat /\ k \in Nat /\ k < Len(Nodes)
  BY NodesFacts DEF Steps
<1>2. i \in j..Len(Nodes)
  BY FirstTurn
<1>3. AtNode(i, a) = AfterWork(k)
  BY DEF AfterLoop
<1>4. i = k \/ i = Len(Nodes)
  BY <1>1, <1>2, <1>3 DEF AtNode, AfterWork
<1>5. i = Len(Nodes) => k + 1 = Len(Nodes)
  BY <1>1, <1>2, <1>3 DEF AtNode, AfterWork
<1>6. First(j, k + 1) = i
  <2>1. k + 1 \notin 0..i - 1 /\ (Kind(i) # "nop" \/ i = Len(Nodes))
    BY <1>1, <1>2, <1>4, <1>5
  <2> HIDE DEF i
  <2>2. First(j, a) = i
    BY DEF i
  <2> QED
    BY <1>2, <2>1, <2>2, FirstAbort
<1>7. AtNode(i, k + 1) = AfterWork(k)
  <2>1. CASE i = k
    BY <1>1, <1>3, <2>1 DEF AtNode, AfterWork
  <2>2. CASE i = Len(Nodes)
    BY <1>1, <1>5, <2>2 DEF AtNode, AfterWork
  <2> QED
    BY <1>4, <2>1, <2>2
<1> QED
  BY <1>6, <1>7 DEF AfterLoop

LEMMA OwnGate ==
    ASSUME Inv, NEW t \in Threads, Compute(t), Joined(t), nPassed' = nPassed, abort' = abort,
           ~BarrierAlone(t)
    PROVE  Gate(t)' = Gate(t)
<1>1. Types /\ Types' /\ Joined(t)'
  BY ComputeFrame DEF Loop
<1>2. node[t] \in 0..Len(Nodes) /\ meet[t] \in {"start", "end", "final"} /\ Len(Nodes) \in Nat
  BY <1>1, TypeFacts, Constants
<1>3. CASE LoopHead(t)
  <2>1. Gate(t) = AfterLoop(node[t], abort) /\ pc[t] = "loop"
    BY <1>1, <1>3, GateAt, LoopHeadStep
  <2>2. CASE node[t] = Len(Nodes) \/ abort = node[t]
    <3>1. pc'[t] = "arrive" /\ meet'[t] = "final" /\ node'[t] = node[t]
      BY <1>2, <1>3, <2>2, LoopHeadStep
    <3>2. Gate(t)' = <<"final", node[t]>>
      BY <1>1, <3>1, GateAtNext DEF Meeting
    <3> QED
      BY <1>2, <2>1, <2>2, <3>2, LoopTurn
  <2>3. CASE node[t] # Len(Nodes) /\ abort # node[t] /\ Kind(node[t]) = "nop"
    <3>1. pc'[t] = "loop" /\ node'[t] = node[t] + 1
      BY <1>3, <2>3, LoopHeadStep
    <3>2. Gate(t)' = AfterLoop(node[t] + 1, abort)
      BY <1>1, <3>1, GateAtNext
    <3> QED
      BY <1>2, <2>1, <2>3, <3>2, LoopTurn
  <2>4. CASE node[t] # Len(Nodes) /\ abort # node[t] /\ Kind(node[t]) = "plain"
    <3>1. pc'[t] = "plain" /\ node'[t] = node[t]
      BY <1>3, <2>4, LoopHeadStep
    <3>2. Gate(t)' = AfterWork(node[t])
      BY <1>1, <3>1, GateAtNext DEF Working
    <3> QED
      BY <1>2, <2>1, <2>4, <3>2, LoopTurn
  <2>5. CASE node[t] # Len(Nodes) /\ abort # node[t] /\ Kind(node[t]) = "chunked"
    <3>1. pc'[t] = "arrive" /\ meet'[t] = "start" /\ node'[t] = node[t]
      BY <1>3, <2>5, LoopHeadStep
    <3>2. Gate(t)' = <<"start", node[t]>>
      BY <1>1, <3>1, GateAtNext DEF Meeting
    <3> QED
      BY <1>2, <2>1, <2>5, <3>2, LoopTurn
  <2> QED
    BY <1>3, <2>2, <2>3, <2>4, <2>5, LoopHeadStep
<1>4. CASE PlainWork(t) \/ ChunkWork(t) \/ ChunkFetch(t)
  <2>1. /\ pc[t] \in Working \cup {"done"} /\ pc'[t] \in Working \cup {"done"}
        /\ node'[t] = node[t]
    BY <1>4, WorkStep, FetchStep DEF Working
  <2> QED
    BY <1>1, <2>1, GateAt, GateAtNext
<1>5. CASE NodeDone(t)
  <2>1. pc[t] = "done" /\ Gate(t) = AfterWork(node[t])
    BY <1>1, <1>5, GateAt, NodeDoneStep
  <2>2. CASE node[t] + 1 < Len(Nodes)
    <3>1. pc'[t] = "arrive" /\ meet'[t] = "end" /\ node'[t] = node[t]
      BY <1>2, <1>5, <2>2, NodeDoneStep
    <3>2. Gate(t)' = <<"end", node[t]>>
      BY <1>1, <3>1, GateAtNext DEF Meeting
    <3> QED
      BY <2>1, <2>2, <3>2 DEF AfterWork
  <2>3. CASE node[t] + 1 = Len(Nodes)
    <3>1. pc'[t] = "loop" /\ node'[t] = Len(Nodes)
      BY <1>2, <1>5, <2>3, NodeDoneStep
    <3>2. Gate(t)' = AfterLoop(Len(Nodes), abort)
      BY <1>1, <3>1, GateAtNext
    <3>3. AfterLoop(Len(Nodes), abort) = <<"final", Len(Nodes)>>
      BY <1>2, LoopTurn
    <3> QED
      BY <1>2, <2>1, <2>3, <3>2, <3>3 DEF AfterWork
  <2> QED
    BY <1>5, <2>2, <2>3, NodeDoneStep
<1>6. CASE BarrierRead(t) \/ BarrierEnter(t) \/ BarrierReset(t)
  <2>1. Meeting(t) /\ node'[t] = node[t] /\ meet'[t] = meet[t]
    BY <1>6, ReadStep, CountStep DEF Meeting
  <2>2. Meeting(t)'
    <3>1. pc[t] = "enter" => mine[t] = nPassed
      BY DEF Inv, BarrierOK
    <3> QED
      BY <1>6, <3>1, ReadStep, CountStep DEF Meeting, Inside
  <2> QED
    BY <1>1, <2>1, <2>2, GateAt, GateAtNext
<1>7. CASE BarrierSpin(t)
  <2>1. Late(t) /\ Gate(t) = Beyond(meet[t], node[t], abort)
    BY <1>1, <1>7, GateAt DEF BarrierSpin, Late
  <2>2. CASE meet[t] = "start"
    <3>1. pc'[t] = "chunk" /\ node'[t] = node[t]
      BY <1>7, <2>2, PassStep
    <3>2. Gate(t)' = AfterWork(node[t])
      BY <1>1, <3>1, GateAtNext DEF Working
    <3> QED
      BY <2>1, <2>2, <3>2 DEF Beyond
  <2>3. CASE meet[t] = "end"
    <3>1. pc'[t] = "loop" /\ node'[t] = node[t] + 1
      BY <1>7, <2>3, PassStep
    <3>2. Gate(t)' = AfterLoop(node[t] + 1, abort)
      BY <1>1, <3>1, GateAtNext
    <3> QED
      BY <2>1, <2>3, <3>2 DEF Beyond
  <2>4. CASE meet[t] = "final"
    <3>1. pc'[t] \in AtHome /\ node'[t] = node[t]
      BY <1>7, <2>4, PassStep DEF Idle, AtHome
    <3>2. Gate(t)' = <<"over", node[t]>>
      BY <1>1, <3>1, GateAtNext
    <3> QED
      BY <2>1, <2>4, <3>2 DEF Beyond
  <2> QED
    BY <1>2, <2>2, <2>3, <2>4
<1>8. ~BarrierPass(t)
  <2>1. nPassed \in Nat
    BY <1>1, TypeFacts
  <2> QED
    BY <2>1 DEF BarrierPass
<1> QED
  BY <1>3, <1>4, <1>5, <1>6, <1>7, <1>8 DEF Compute

\* All threads come to the same gate as before, unless the barrier has been passed.
LEMMA GateStep ==
    ASSUME Inv, NEW t \in Threads, Compute(t), ~BarrierAlone(t), ~BarrierPass(t)
    PROVE  /\ \A u \in Members : Gate(u)' = Gate(u)
           /\ Now' = Now /\ Together' /\ nPassed' = nPassed
<1>1. nPassed' = nPassed
  BY PassedBy
<1>2. /\ Types /\ Types' /\ Members' = Members /\ Members \subseteq Threads /\ graph' = graph
      /\ \A u \in Threads \ {t} : Same(u)
      /\ 0 \in Threads /\ Joined(0)
  BY ComputeFrame, Constants DEF Loop, Joined
<1>3. CASE abort' = abort
  <2>1. Joined(t) => Gate(t)' = Gate(t)
    BY <1>1, <1>3, OwnGate
  <2>2. ~Joined(t) => Gate(t)' = Gate(t)
    BY <1>2, <1>3, GateAt, GateAtNext, ComputeFrame
  <2>3. \A u \in Threads : Gate(u)' = Gate(u)
    BY <1>1, <1>2, <1>3, <2>1, <2>2, SameView
  <2>4. Now' = Now
    BY <1>2, <2>3 DEF Now
  <2> QED
    BY <1>1, <1>2, <2>3, <2>4 DEF Inv, Together
<1>4. CASE abort' # abort
  <2>1. NodeDone(t)
    BY <1>4, LoopHeadStep, WorkStep, FetchStep, ReadStep, CountStep, PassStep DEF Compute
  <2> DEFINE k == node[0]
  <2>2. /\ t = 0 /\ abort' = k + 1 /\ pc[0] = "done"
    BY <1>4, <2>1, NodeDoneStep
  <2>3. k \in Steps /\ Kind(k) # "nop" /\ k < Len(Nodes) /\ k \in 0..Len(Nodes) /\ Len(Nodes) \in Nat
    BY <1>2, <2>2, Constants, TypeFacts DEF Inv, NodeOK, Steps
  <2>4. Now = AfterWork(k)
    BY <1>2, <2>2, GateAt DEF Now
  <2>5. Now' = AfterWork(k)
    <3>1. CASE k + 1 < Len(Nodes)
      <4>1. pc'[0] = "arrive" /\ meet'[0] = "end" /\ node'[0] = k
        BY <2>1, <2>2, <2>3, <3>1, NodeDoneStep
      <4>2. Meeting(0)' /\ Joined(0)'
        BY <4>1 DEF Meeting, Joined
      <4> QED
        BY <1>2, <3>1, <4>1, <4>2, GateAtNext DEF Now, AfterWork
    <3>2. CASE k + 1 = Len(Nodes)
      <4>1. pc'[0] = "loop" /\ node'[0] = Len(Nodes) /\ abort' = Len(Nodes)
        BY <2>1, <2>2, <2>3, <3>2, NodeDoneStep
      <4>2. Now' = AfterLoop(Len(Nodes), Len(Nodes))
        BY <1>2, <4>1, GateAtNext DEF Now, Joined
      <4>3. AfterLoop(Len(Nodes), Len(Nodes)) = <<"final", Len(Nodes)>>
        BY <2>3, LoopTurn
      <4> QED
        BY <2>3, <3>2, <4>2, <4>3 DEF AfterWork
    <3> QED
      BY <2>1, <2>2, <2>3, <3>1, <3>2, NodeDoneStep
  <2>6. ASSUME NEW u \in Members, u # 0 PROVE Gate(u)' = AfterWork(k)
    <3> HIDE DEF k
    <3>1. Gate(u) = AfterWork(k)
      BY <2>4 DEF Inv, Together
    <3>2. u \in Threads /\ Same(u) /\ (Joined(u)' <=> Joined(u)) /\ (Late(u)' <=> Late(u))
          /\ (Meeting(u)' <=> Meeting(u))
      BY <1>1, <1>2, <2>2, <2>6, SameView
    <3>3. \A j \in 0..Len(Nodes) : AfterLoop(j, abort) = AfterWork(k) =>
                                      AfterLoop(j, abort') = AfterWork(k)
      BY <1>2, <2>2, <2>3, AbortGate, TypeFacts DEF k
    <3>4. CASE ~Joined(u)
      BY <1>2, <2>3, <3>1, <3>2, <3>3, <3>4, GateAt, GateAtNext
    <3>5. CASE Joined(u) /\ pc[u] = "loop"
      <4>1. node[u] \in 0..Len(Nodes)
        BY <1>2, <3>2, TypeFacts
      <4> QED
        BY <1>2, <3>1, <3>2, <3>3, <3>5, <4>1, GateAt, GateAtNext DEF Same
    <3>6. CASE Joined(u) /\ Late(u) /\ meet[u] = "end"
      <4>1. node[u] + 1 \in 0..Len(Nodes)
        BY <3>2, <3>6, PlacesOf
      <4>2. Gate(u) = AfterLoop(node[u] + 1, abort)
        BY <1>2, <3>2, <3>6, GateAt DEF Beyond
      <4>3. Gate(u)' = AfterLoop(node[u] + 1, abort')
        BY <1>2, <3>2, <3>6, GateAtNext DEF Beyond, Same
      <4> QED
        BY <3>1, <3>3, <4>1, <4>2, <4>3
    <3>7. CASE Joined(u) /\ Late(u) /\ meet[u] # "end"
      <4>1. meet[u] \in {"start", "final"}
        BY <1>2, <3>2, <3>7, TypeFacts
      <4>2. Gate(u) = Beyond(meet[u], node[u], abort)
        BY <1>2, <3>2, <3>7, GateAt
      <4>3. Gate(u)' = Beyond(meet[u], node[u], abort')
        BY <1>2, <3>2, <3>7, GateAtNext DEF Same
      <4> QED
        BY <3>1, <4>1, <4>2, <4>3 DEF Beyond
    <3>8. CASE Joined(u) /\ pc[u] # "loop" /\ ~Late(u)
      BY <1>2, <3>1, <3>2, <3>8, GateAt, GateAtNext DEF Same
    <3> QED
      BY <3>4, <3>5, <3>6, <3>7, <3>8
  <2>7. \A u \in Members : Gate(u)' = AfterWork(k) /\ Gate(u) = AfterWork(k)
    BY <2>4, <2>5, <2>6 DEF Now, Inv, Together
  <2> QED
    BY <1>1, <1>2, <2>4, <2>5, <2>7 DEF Together
<1> QED
  BY <1>3, <1>4

\* The barrier is passed: all threads of the graph were in it, and go on to one next gate.
LEMMA Crossing ==
    ASSUME Inv, NEW t \in Threads, BarrierAlone(t) \/ BarrierPass(t)
    PROVE  /\ t \in Members /\ 0 \in Members
           /\ \A u \in Members : /\ Joined(u) /\ Meeting(u)
                                 /\ meet[u] = meet[t] /\ node[u] = node[t]
                                 /\ Gate(u)' = Beyond(meet[t], node[t], abort)
           /\ \A u \in Members \ {t} : Same(u) /\ Late(u)'
           /\ Now = <<meet[t], node[t]>> /\ Now' = Beyond(meet[t], node[t], abort)
           /\ UNCHANGED <<abort, chunk, work>>
<1>1. Compute(t) /\ UNCHANGED <<abort, chunk, work, meet>>
  BY PassStep DEF Compute
<1>2. /\ Types /\ Types' /\ Members' = Members /\ Members \subseteq Threads
      /\ \A u \in Threads \ {t} : Same(u)
      /\ \A u \in Threads : Joined(u)' <=> Joined(u)
  BY <1>1, ComputeFrame DEF Loop
<1>3. pc[t] \in {"arrive", "pass"} /\ t \in Members /\ Joined(t)
  <2>1. pc[t] \in {"arrive", "pass"}
    BY DEF BarrierAlone, BarrierPass
  <2> QED
    BY <2>1, Participant DEF AtHome, Late
<1>4. graph.n \in Nat /\ Members = 0..graph.n - 1 /\ t \in 0..graph.n - 1
  BY <1>2, <1>3, TypeFacts DEF Members
<1>5. 0 \in Members
  BY <1>4
<1>6. \A u \in Members \ {t} : /\ Inside(u) /\ Joined(u) /\ BarrierPass(t)
  <2>1. CASE BarrierAlone(t)
    <3>1. graph.n = 1
      BY <2>1 DEF BarrierAlone
    <3> QED
      BY <1>4, <3>1
  <2>2. CASE BarrierPass(t)
    <3>1. pc[t] = "pass"
      BY <2>2 DEF BarrierPass
    <3> QED
      BY <1>2, <2>2, <3>1, PassAlone
  <2> QED
    BY <2>1, <2>2
<1>7. \A u \in Members : Joined(u) /\ Meeting(u)
  BY <1>3, <1>6 DEF Meeting
<1>8. \A u \in Members : Gate(u) = <<meet[u], node[u]>> /\ Gate(u) = Now
  BY <1>2, <1>7, GateAt DEF Inv, Together
<1>9. /\ Now = <<meet[t], node[t]>>
      /\ \A u \in Members : meet[u] = meet[t] /\ node[u] = node[t]
  <2>1. \A u \in Members : <<meet[u], node[u]>> = <<meet[t], node[t]>>
    BY <1>3, <1>8
  <2> QED
    BY <1>3, <1>8, <2>1
<1>10. \A u \in Members \ {t} : Late(u)' /\ Gate(u)' = Beyond(meet[t], node[t], abort)
  <2> SUFFICES ASSUME NEW u \in Members \ {t}
               PROVE  Late(u)' /\ Gate(u)' = Beyond(meet[t], node[t], abort)
    OBVIOUS
  <2>1. nPassed' = nPassed + 1 /\ nPassed \in Nat /\ Inside(u) /\ Same(u)
    BY <1>2, <1>6, TypeFacts DEF BarrierPass
  <2>2. Late(u)'
    BY <2>1 DEF Inside, Late, Same
  <2>3. Gate(u)' = Beyond(meet'[u], node'[u], abort')
    BY <1>2, <1>7, <2>2, GateAtNext
  <2> QED
    BY <1>1, <1>9, <2>1, <2>2, <2>3 DEF Same
<1>11. Gate(t)' = Beyond(meet[t], node[t], abort)
  <2>0. meet[t] \in {"start", "end", "final"} /\ Joined(t)'
    BY <1>2, <1>3, TypeFacts
  <2>1. CASE meet[t] = "start"
    <3>1. pc'[t] = "chunk" /\ node'[t] = node[t]
      BY <2>1, PassStep
    <3>2. Gate(t)' = AfterWork(node[t])
      BY <1>2, <2>0, <3>1, GateAtNext DEF Working
    <3> QED
      BY <2>1, <3>2 DEF Beyond
  <2>2. CASE meet[t] = "end"
    <3>1. pc'[t] = "loop" /\ node'[t] = node[t] + 1
      BY <2>2, PassStep
    <3>2. Gate(t)' = AfterLoop(node[t] + 1, abort)
      BY <1>1, <1>2, <2>0, <3>1, GateAtNext
    <3> QED
      BY <2>2, <3>2 DEF Beyond
  <2>3. CASE meet[t] = "final"
    <3>1. pc'[t] \in AtHome /\ node'[t] = node[t]
      BY <2>3, PassStep DEF Idle, AtHome
    <3>2. Gate(t)' = <<"over", node[t]>>
      BY <1>2, <2>0, <3>1, GateAtNext
    <3> QED
      BY <2>3, <3>2 DEF Beyond
  <2> QED
    BY <2>0, <2>1, <2>2, <2>3
<1>12. Now' = Beyond(meet[t], node[t], abort)
  BY <1>5, <1>10, <1>11 DEF Now
<1> QED
  BY <1>1, <1>2, <1>3, <1>5, <1>7, <1>9, <1>10, <1>11, <1>12

LEMMA TogetherStep == ASSUME Inv, NEW t \in Threads, Compute(t) PROVE Together'
<1>1. CASE BarrierAlone(t) \/ BarrierPass(t)
  BY <1>1, Crossing, ComputeFrame DEF Together
<1>2. CASE ~BarrierAlone(t) /\ ~BarrierPass(t)
  BY <1>2, GateStep
<1> QED
  BY <1>1, <1>2

-----------------------------------------------------------------------------
(***************************************************************************)
(* Steps of the loop: the barrier's counters.                               *)
(***************************************************************************)
LEMMA InsidersFacts ==
    ASSUME Inv
    PROVE  /\ Insiders \subseteq Members /\ IsFiniteSet(Members) /\ Cardinality(Members) = graph.n
           /\ IsFiniteSet(Insiders) /\ Cardinality(Insiders) \in Nat
           /\ Cardinality(Insiders) <= graph.n
<1>1. Insiders \subseteq Members
  <2> SUFFICES ASSUME NEW u \in Threads, Inside(u) PROVE u \in Members
    BY DEF Insiders
  <2> QED
    BY Participant DEF Inside, Late, AtHome
<1>2. graph.n \in Nat
  BY TypeFacts DEF Inv
<1>3. IsFiniteSet(Members) /\ Cardinality(Members) = graph.n
  <2>1. 0 \in Int /\ graph.n - 1 \in Int /\ Members = 0..graph.n - 1
    BY <1>2 DEF Members
  <2>2. /\ IsFiniteSet(0..graph.n - 1)
        /\ Cardinality(0..graph.n - 1) = IF 0 > graph.n - 1 THEN 0 ELSE (graph.n - 1) - 0 + 1
    BY <2>1, FS_Interval
  <2> QED
    BY <1>2, <2>1, <2>2
<1> QED
  BY <1>1, <1>3, FS_Subset, FS_CardinalityType

LEMMA BarrierStep == ASSUME Inv, NEW t \in Threads, Compute(t) PROVE BarrierOK'
<1>0. /\ Members' = Members /\ Members \subseteq Threads /\ graph' = graph
      /\ \A u \in Threads \ {t} : Same(u)
  BY ComputeFrame DEF Loop
<1>1. /\ nPassed \in Nat /\ nBarrier \in Nat /\ graph.n \in Nat /\ BarrierOK
      /\ mine \in [Threads -> Nat]
  BY TypeFacts DEF Inv
<1>2. \A u \in Threads : mine'[u] <= nPassed'
  <2>1. nPassed' >= nPassed
    BY <1>1, PassedBy
  <2>2. \A u \in Threads \ {t} : mine'[u] = mine[u]
    BY <1>0 DEF Same
  <2>3. mine'[t] = mine[t] \/ mine'[t] = nPassed
    BY ComputeFrame, ReadStep
  <2> QED
    BY <1>1, <2>1, <2>2, <2>3, PassedBy DEF BarrierOK
<1>3. CASE BarrierEnter(t) /\ Last(nBarrier)
  <2>1. /\ pc[t] = "enter" /\ nBarrier' = nBarrier + 1 /\ pc'[t] = "reset"
        /\ UNCHANGED <<nPassed, mine>>
    BY <1>3, CountStep DEF BarrierEnter
  <2>2. \A u \in Threads : pc[u] \notin {"reset", "pass"}
    BY <2>1, PassAlone
  <2>3. nBarrier = Cardinality(Insiders) /\ nBarrier + 1 = graph.n
    BY <1>1, <1>3, <2>2 DEF BarrierOK, Last
  <2>4. t \in Members /\ t \notin Insiders
    BY <2>1, Participant DEF AtHome, Late, Insiders, Inside
  <2>5. /\ IsFiniteSet(Members \ {t}) /\ Cardinality(Members \ {t}) = graph.n - 1
        /\ Insiders \subseteq Members \ {t}
    BY <2>4, InsidersFacts, FS_RemoveElement
  <2>6. Insiders = Members \ {t}
    BY <1>1, <2>3, <2>5, FS_Subset
  <2>7. \A u \in Members \ {t} : Inside(u)'
    BY <1>0, <2>1, <2>6, SameView DEF Insiders
  <2>8. \A u \in Threads \ {t} : pc'[u] = pc[u]
    BY <1>0 DEF Same
  <2>9. nBarrier' = graph'.n /\ ~(\E u \in Threads : pc'[u] = "pass")
    BY <1>0, <2>1, <2>2, <2>3, <2>8
  <2>10. \A u \in Threads : pc'[u] = "enter" => mine'[u] = nPassed'
    BY <1>1, <2>1, <2>8 DEF BarrierOK
  <2>11. \A u \in Threads : pc'[u] \in {"reset", "pass"} => \A v \in Members' \ {u} : Inside(v)'
    BY <1>0, <2>2, <2>7, <2>8
  <2> QED
    BY <1>2, <2>1, <2>9, <2>10, <2>11 DEF BarrierOK
<1>4. CASE BarrierEnter(t) /\ ~Last(nBarrier)
  <2>1. /\ pc[t] = "enter" /\ nBarrier' = nBarrier + 1 /\ pc'[t] = "spin"
        /\ UNCHANGED <<nPassed, mine>>
    BY <1>4, CountStep DEF BarrierEnter
  <2>2. \A u \in Threads : pc[u] \notin {"reset", "pass"}
    BY <2>1, PassAlone
  <2>3. nBarrier = Cardinality(Insiders) /\ mine[t] = nPassed
    BY <1>1, <2>1, <2>2 DEF BarrierOK
  <2>4. Inside(t)' /\ t \notin Insiders
    BY <2>1, <2>3 DEF Inside, Insiders
  <2>5. Insiders' = Insiders \cup {t}
    BY <1>0, <2>1, <2>4, SameView DEF Insiders
  <2>6. Cardinality(Insiders') = nBarrier + 1
    BY <2>3, <2>4, <2>5, InsidersFacts, FS_AddElement
  <2>7. \A u \in Threads \ {t} : pc'[u] = pc[u]
    BY <1>0 DEF Same
  <2>8. \A u \in Threads : pc'[u] \notin {"reset", "pass"}
    BY <2>1, <2>2, <2>7
  <2>9. \A u \in Threads : pc'[u] = "enter" => mine'[u] = nPassed'
    BY <1>1, <2>1, <2>7 DEF BarrierOK
  <2> QED
    BY <1>2, <2>1, <2>6, <2>8, <2>9 DEF BarrierOK
<1>5. CASE BarrierReset(t)
  <2>1. /\ pc[t] = "reset" /\ nBarrier' = 0 /\ pc'[t] = "pass" /\ UNCHANGED <<nPassed, mine>>
    BY <1>5, CountStep DEF BarrierReset
  <2>2. \A u \in Threads \ {t} : /\ pc'[u] = pc[u] /\ pc[u] \notin {"enter", "reset", "pass"}
                                 /\ u \in Members => Inside(u)'
    BY <1>0, <2>1, PassAlone, SameView DEF Same
  <2>3. \A u \in Threads : pc'[u] \in {"reset", "pass"} => \A v \in Members' \ {u} : Inside(v)'
    BY <1>0, <2>2
  <2>4. \A u \in Threads : pc'[u] # "enter"
    BY <2>1, <2>2
  <2> QED
    BY <1>2, <2>1, <2>3, <2>4 DEF BarrierOK
<1>6. CASE BarrierPass(t)
  <2>1. pc[t] = "pass" /\ nPassed' = nPassed + 1 /\ nBarrier' = nBarrier /\ mine' = mine
    BY <1>6, PassStep DEF BarrierPass
  <2>2. \A u \in Threads \ {t} : pc'[u] = pc[u] /\ pc[u] \notin {"enter", "reset", "pass"}
    BY <1>0, <2>1, PassAlone DEF Same
  <2>3. pc'[t] \notin {"enter", "reset", "pass", "spin"}
    <3>1. meet[t] \in {"start", "end", "final"}
      BY TypeFacts DEF Inv
    <3> QED
      BY <1>6, <3>1, PassStep DEF Idle
  <2>4. nBarrier = 0
    BY <1>1, <2>1 DEF BarrierOK
  <2>5. Insiders' = {}
    <3>1. \A u \in Threads : mine'[u] # nPassed'
      BY <1>1, <2>1 DEF BarrierOK
    <3> QED
      BY <3>1 DEF Insiders, Inside
  <2>6. \A u \in Threads : pc'[u] \notin {"enter", "reset", "pass"}
    BY <2>2, <2>3
  <2> QED
    BY <1>2, <2>1, <2>4, <2>5, <2>6, FS_EmptySet DEF BarrierOK
<1>7. CASE ~(BarrierEnter(t) \/ BarrierReset(t) \/ BarrierPass(t))
  <2>1. /\ pc'[t] \notin {"reset", "pass", "spin"} /\ pc[t] \notin {"reset", "pass"}
        /\ ~Inside(t)
        /\ UNCHANGED <<nBarrier, nPassed>> /\ (pc'[t] = "enter" => mine'[t] = nPassed)
    <3>1. meet[t] \in {"start", "end", "final"}
      BY TypeFacts DEF Inv
    <3>2. CASE LoopHead(t) \/ PlainWork(t) \/ ChunkWork(t) \/ ChunkFetch(t) \/ NodeDone(t)
      <4>1. /\ pc[t] \in {"loop", "plain", "chunk", "fetch", "done"}
            /\ pc'[t] \in {"loop", "plain", "chunk", "fetch", "done", "arrive"}
            /\ UNCHANGED <<nBarrier, mine>>
        BY <3>2, LoopHeadStep, WorkStep, FetchStep, NodeDoneStep
      <4> QED
        BY <3>2, <4>1, <1>7, PassedBy DEF Inside
    <3>3. CASE BarrierRead(t)
      BY <3>3, ReadStep DEF Inside
    <3>4. CASE BarrierAlone(t) \/ BarrierSpin(t)
      <4>1. pc[t] = "arrive" \/ Late(t)
        BY <3>4 DEF BarrierAlone, BarrierSpin, Late
      <4>2. pc'[t] \in {"chunk", "loop", Idle(t)} /\ nBarrier' = nBarrier
        BY <3>1, <3>4, PassStep
      <4> QED
        BY <1>7, <4>1, <4>2, PassedBy DEF Inside, Late, Idle
    <3> QED
      BY <1>7, <3>2, <3>3, <3>4 DEF Compute
  <2>2. ~Inside(t)'
    BY <2>1 DEF Inside
  <2>3. \A u \in Threads \ {t} : /\ Inside(u)' <=> Inside(u)
                                 /\ pc'[u] = pc[u] /\ mine'[u] = mine[u]
    BY <1>0, <2>1, SameView DEF Same
  <2>4. nBarrier' = IF \E u \in Threads : pc'[u] = "pass" THEN 0
                    ELSE IF \E u \in Threads : pc'[u] = "reset" THEN graph'.n
                    ELSE Cardinality(Insiders')
    BY <1>0, <1>1, <2>1, <2>2, <2>3, CountSame
  <2>5. \A u \in Threads : pc'[u] = "enter" => mine'[u] = nPassed'
    BY <1>1, <2>1, <2>3 DEF BarrierOK
  <2>6. \A u \in Threads : pc'[u] \in {"reset", "pass"} => \A v \in Members' \ {u} : Inside(v)'
    BY <1>0, <1>1, <2>1, <2>3 DEF BarrierOK
  <2> QED
    BY <1>2, <2>4, <2>5, <2>6 DEF BarrierOK
<1> QED
  BY <1>3, <1>4, <1>5, <1>6, <1>7

-----------------------------------------------------------------------------
(***************************************************************************)
(* Steps of the loop: the abort.                                            *)
(***************************************************************************)
\* Who is at a barrier stays there until it is passed.
LEMMA MeetingStays ==
    ASSUME Inv, NEW t \in Threads, Compute(t), ~BarrierAlone(t), ~BarrierPass(t),
           NEW u \in Threads, Meeting(u)
    PROVE  Meeting(u)' /\ meet'[u] = meet[u] /\ node'[u] = node[u]
<1>1. nPassed' = nPassed /\ graph' = graph
  BY GateStep, ComputeFrame DEF Loop
<1>2. CASE u # t
  BY <1>1, <1>2, ComputeFrame, SameView DEF Same
<1>3. CASE u = t
  <2>1. pc[t] \in {"arrive", "enter", "reset", "pass"} \/ (pc[t] = "spin" /\ mine[t] = nPassed)
    BY <1>3 DEF Meeting, Inside
  <2>2. BarrierRead(t) \/ BarrierEnter(t) \/ BarrierReset(t)
    BY <2>1 DEF Compute, LoopHead, PlainWork, ChunkWork, ChunkFetch, NodeDone, BarrierSpin
  <2>3. pc[t] = "enter" => mine[t] = nPassed
    BY DEF Inv, BarrierOK
  <2> QED
    BY <1>1, <1>3, <2>2, <2>3, ReadStep, CountStep DEF Meeting, Inside
<1> QED
  BY <1>2, <1>3

LEMMA KickSame ==
    ASSUME Inv, NEW t \in Threads, Compute(t)
    PROVE  pc'[0] = "kick" <=> pc[0] = "kick"
<1>1. CASE t = 0
  BY <1>1, ComputeFrame, ComputeGoes DEF Idle, AtHome
<1>2. CASE t # 0
  BY <1>2, Constants, ComputeFrame DEF Same
<1> QED
  BY <1>1, <1>2

LEMMA AbortStep == ASSUME Inv, NEW t \in Threads, Compute(t) PROVE AbortOK'
<1>1. /\ AbortOK /\ abort \in -1..Len(Nodes) /\ Len(Nodes) \in Nat /\ graph' = graph
      /\ 0 \in Threads /\ Types
  BY Constants, TypeFacts, ComputeFrame DEF Inv, Loop
<1>2. CASE BarrierAlone(t) \/ BarrierPass(t)
  <2> DEFINE m == meet[t]
             k == node[t]
             g == Beyond(m, k, abort)
  <2>1. /\ Now = <<m, k>> /\ Now' = g /\ abort' = abort
        /\ m \in {"start", "end", "final"} /\ k \in 0..Len(Nodes)
        /\ Joined(t) /\ Meeting(t)
    BY <1>1, <1>2, Crossing, TypeFacts
  <2>2. m = "start" => k \in Steps
    BY <2>1, PlacesOf
  <2>3. m = "end" => k + 1 \in 0..Len(Nodes)
    BY <2>1, PlacesOf
  <2>4. pc'[0] = "kick" => abort' = -1
    BY <1>1, <2>1, KickSame DEF AbortOK
  <2>5. abort # -1 => (m = "end" /\ k = abort - 1) \/ (m = "final" /\ k = abort)
    BY <1>1, <2>1 DEF AbortOK
  <2>6. g = (IF m = "start" THEN AfterWork(k) ELSE IF m = "end" THEN AfterLoop(k + 1, abort)
             ELSE <<"over", k>>)
    BY <2>1 DEF Beyond
  <2>7. abort # -1 => g = <<"final", abort>> \/ g = <<"over", abort>>
    <3>1. CASE m = "end" /\ k = abort - 1
      <4>1. k + 1 = abort /\ abort \in 0..Len(Nodes)
        BY <1>1, <2>1, <3>1
      <4> QED
        BY <2>6, <3>1, <4>1, LoopTurn
    <3>2. CASE m = "final" /\ k = abort
      BY <2>6, <3>2
    <3> QED
      BY <2>5, <3>1, <3>2
  <2>8. g[1] \in {"final", "over"} /\ g[2] # Len(Nodes) /\ graph.seq > 0 => abort = g[2]
    <3>1. CASE m = "start"
      <4> HIDE DEF g, m, k
      <4>1. g[1] # "over" /\ (g[1] = "final" => g = <<"final", Len(Nodes)>>)
        BY <2>2, <2>6, <3>1, AfterWorkGate
      <4> QED
        BY <4>1
    <3>2. CASE m = "end"
      <4> HIDE DEF g, m, k
      <4>1. g[1] # "over" /\ (g[1] = "final" => g[2] = Len(Nodes) \/ g[2] = abort)
        BY <1>1, <2>3, <2>6, <3>2, AfterLoopGate
      <4> QED
        BY <4>1
    <3>3. CASE m = "final"
      <4>1. g = <<"over", k>>
        BY <2>6, <3>3
      <4>2. pc[0] # "kick"
        BY <1>1, <2>1, <3>3, GateAt DEF Now, Joined, AtHome
      <4> QED
        BY <1>1, <2>1, <3>3, <4>1, <4>2 DEF AbortOK
    <3> QED
      BY <2>1, <3>1, <3>2, <3>3
  <2> QED
    BY <1>1, <2>1, <2>4, <2>7, <2>8 DEF AbortOK
<1>3. CASE ~BarrierAlone(t) /\ ~BarrierPass(t)
  <2>1. Now' = Now /\ (pc'[0] = "kick" <=> pc[0] = "kick")
    BY <1>3, GateStep, KickSame
  <2>2. CASE abort' = abort
    <3>1. Meeting(0) => Meeting(0)'
      BY <1>1, <1>3, MeetingStays
    <3> QED
      BY <1>1, <2>1, <2>2, <3>1 DEF AbortOK
  <2>3. CASE abort' # abort
    <3>1. NodeDone(t)
      BY <2>3, LoopHeadStep, WorkStep, FetchStep, ReadStep, CountStep, PassStep DEF Compute
    <3>2. /\ t = 0 /\ abort' = node[0] + 1 /\ pc[0] = "done" /\ pc'[0] \in {"arrive", "loop"}
          /\ node[0] + 1 < Len(Nodes) => pc'[0] = "arrive"
      BY <2>3, <3>1, NodeDoneStep
    <3>3. Now = AfterWork(node[0]) /\ node[0] \in Steps
      BY <1>1, <3>2, GateAt, PlacesOf DEF Now, Joined
    <3>4. node[0] + 1 < Len(Nodes) => Meeting(0)' /\ Now = <<"end", abort' - 1>>
      BY <1>1, <3>2, <3>3 DEF Meeting, AfterWork, Steps
    <3>5. ~(node[0] + 1 < Len(Nodes)) => Now = <<"final", abort'>>
      BY <1>1, <3>2, <3>3 DEF AfterWork, Steps
    <3>6. Now[1] \in {"end", "final"} /\ (Now[1] = "final" => Now = <<"final", Len(Nodes)>>)
      BY <3>3, AfterWorkGate
    <3>7. pc'[0] # "kick"
      BY <3>2
    <3> QED
      BY <2>1, <3>4, <3>5, <3>6, <3>7 DEF AbortOK
  <2> QED
    BY <2>2, <2>3
<1> QED
  BY <1>2, <1>3

-----------------------------------------------------------------------------
(***************************************************************************)
(* Steps of the loop: what has been computed.                               *)
(***************************************************************************)
\* A thread at work is at the node that is current.
LEMMA AtWork ==
    ASSUME Inv, NEW t \in Members, Joined(t), pc[t] \in Working \cup {"done"}
    PROVE  /\ node[t] = Current /\ node[t] \in Steps /\ Kind(node[t]) # "nop" /\ Begun(node[t])
           /\ Now = AfterWork(node[t]) /\ pc[0] \notin AtHome
<1>1. Types /\ t \in Threads
  BY Members0 DEF Inv
<1>2. node[t] \in Steps /\ Kind(node[t]) # "nop"
  BY <1>1, PlacesOf DEF Inv, NodeOK
<1>3. Now = AfterWork(node[t])
  BY <1>1, GateAt DEF Inv, Together
<1>4. node[t] \in Nat
  BY <1>2, NodesFacts DEF Steps
<1>5. pc[0] \notin AtHome
  <2>1. Now[1] # "over"
    BY <1>2, <1>3, AfterWorkGate
  <2> QED
    BY <2>1, AllOver, Constants
<1> QED
  BY <1>2, <1>3, <1>4, <1>5, AfterWorkGate DEF Current, Begun

\* A step of thread t, short of passing the barrier, leaves it behind the current node or
\* not as it was, but for the work itself.
LEMMA BehindStep ==
    ASSUME Inv, NEW t \in Threads, Compute(t), ~BarrierAlone(t), ~BarrierPass(t),
           t \in Members, Joined(t), NEW c \in Steps, c = Current, Kind(c) # "nop"
    PROVE  /\ ~(PlainWork(t) \/ ChunkWork(t)) => (Behind(t, c)' <=> Behind(t, c))
           /\ PlainWork(t) \/ ChunkWork(t) => ~Behind(t, c) /\ (Behind(t, c)' <=> pc'[t] = "done")
<1>1. /\ Types /\ Now = Gate(t) /\ c = CurrentAt(Gate(t)) /\ Joined(t)' /\ nPassed' = nPassed
      /\ c \in Nat /\ c < Len(Nodes) /\ Len(Nodes) \in Nat
      /\ node[t] \in 0..Len(Nodes) /\ abort \in -1..Len(Nodes)
      /\ meet[t] \in {"start", "end", "final"}
  <2>1. Types /\ Now = Gate(t)
    BY DEF Inv, Together
  <2>2. c = CurrentAt(Gate(t))
    BY <2>1 DEF Current
  <2>3. Joined(t)' /\ nPassed' = nPassed
    BY ComputeFrame, GateStep
  <2>4. c \in Nat /\ c < Len(Nodes) /\ Len(Nodes) \in Nat
    BY Constants DEF Steps
  <2> QED
    BY <2>1, <2>2, <2>3, <2>4, TypeFacts
<1>2. CASE LoopHead(t)
  <2>1. pc[t] = "loop" /\ Gate(t) = AfterLoop(node[t], abort) /\ ~Meeting(t)
    BY <1>1, <1>2, GateAt, LoopHeadStep DEF Meeting, Inside
  <2>2. CASE node[t] = Len(Nodes) \/ abort = node[t]
    <3>1. Gate(t) = <<"final", node[t]>>
      BY <1>1, <2>1, <2>2, LoopTurn
    <3>2. node[t] = Len(Nodes)
      BY <1>1, <3>1 DEF CurrentAt
    <3>3. pc'[t] = "arrive" /\ Behind(t, c)
      BY <1>1, <1>2, <2>1, <3>2, LoopHeadStep DEF Behind
    <3> QED
      BY <1>1, <1>2, <2>1, <3>3 DEF Behind, Meeting, PlainWork, ChunkWork
  <2>3. CASE node[t] # Len(Nodes) /\ abort # node[t] /\ Kind(node[t]) = "nop"
    <3>1. pc'[t] = "loop" /\ node'[t] = node[t] + 1
      BY <1>2, <2>3, LoopHeadStep
    <3>2. node[t] # c
      BY <2>3
    <3>3. node[t] + 1 > c <=> node[t] > c
      BY <1>1, <3>2
    <3> QED
      BY <1>1, <2>1, <3>1, <3>3 DEF Behind, Meeting, Inside, PlainWork, ChunkWork
  <2>4. CASE node[t] # Len(Nodes) /\ abort # node[t] /\ Kind(node[t]) = "plain"
    <3>1. pc'[t] = "plain"
      BY <1>2, <2>4, LoopHeadStep
    <3>2. Gate(t) = AfterWork(node[t]) /\ node[t] \in Steps
      BY <1>1, <2>1, <2>4, LoopTurn DEF Steps
    <3>3. c = node[t]
      BY <1>1, <3>2, AfterWorkGate
    <3> QED
      BY <1>1, <2>1, <3>1, <3>3 DEF Behind, Meeting, Inside, PlainWork, ChunkWork
  <2>5. CASE node[t] # Len(Nodes) /\ abort # node[t] /\ Kind(node[t]) = "chunked"
    <3>1. Gate(t) = <<"start", node[t]>>
      BY <1>1, <2>1, <2>5, LoopTurn
    <3> QED
      BY <1>1, <3>1 DEF CurrentAt
  <2> QED
    BY <1>2, <2>2, <2>3, <2>4, <2>5, LoopHeadStep
<1>3. CASE PlainWork(t) \/ ChunkWork(t)
  <2>1. pc[t] \in {"plain", "chunk"} /\ pc'[t] \in {"done", "fetch"}
    BY <1>3, WorkStep
  <2> QED
    BY <1>1, <1>3, <2>1 DEF Behind, Meeting, Inside
<1>4. CASE ChunkFetch(t)
  <2>1. pc[t] = "fetch" /\ pc'[t] = "chunk"
    BY <1>4, FetchStep
  <2> QED
    BY <1>1, <1>4, <2>1 DEF Behind, Meeting, Inside, PlainWork, ChunkWork
<1>5. CASE NodeDone(t)
  <2>1. pc[t] = "done" /\ node[t] = c
    BY <1>5, AtWork DEF NodeDone
  <2>2. pc'[t] = "arrive" \/ (pc'[t] = "loop" /\ node'[t] = c + 1)
    BY <1>5, <2>1, NodeDoneStep
  <2> QED
    BY <1>1, <2>1, <2>2 DEF Behind, Meeting, PlainWork, ChunkWork
<1>6. CASE BarrierRead(t) \/ BarrierEnter(t) \/ BarrierReset(t)
  <2>1. Meeting(t) /\ pc[t] \notin {"plain", "chunk"}
    BY <1>6 DEF BarrierRead, BarrierEnter, BarrierReset, Meeting
  <2>2. Meeting(t)'
    BY <2>1, MeetingStays
  <2> QED
    BY <1>1, <2>1, <2>2 DEF Behind, PlainWork, ChunkWork
<1>7. CASE BarrierSpin(t)
  <2>1. Late(t) /\ ~Meeting(t) /\ pc[t] = "spin" /\ Gate(t) = Beyond(meet[t], node[t], abort)
    BY <1>1, <1>7, GateAt DEF BarrierSpin, Late, Meeting, Inside
  <2>2. CASE meet[t] = "start"
    <3>1. pc'[t] = "chunk"
      BY <1>7, <2>2, PassStep
    <3> QED
      BY <1>1, <2>1, <3>1 DEF Behind, Meeting, Inside, PlainWork, ChunkWork
  <2>3. CASE meet[t] = "end"
    <3>1. pc'[t] = "loop" /\ node'[t] = node[t] + 1
      BY <1>7, <2>3, PassStep
    <3>2. node[t] + 1 < Len(Nodes) /\ node[t] + 1 \in 0..Len(Nodes)
      BY <2>1, <2>3, PlacesOf
    <3>3. c >= node[t] + 1
      <4>1. Gate(t) = AfterLoop(node[t] + 1, abort)
        BY <2>1, <2>3 DEF Beyond
      <4>2. \/ CurrentAt(AfterLoop(node[t] + 1, abort)) >= node[t] + 1
            \/ CurrentAt(AfterLoop(node[t] + 1, abort)) = -1
            \/ node[t] + 1 = Len(Nodes)
        BY <1>1, <3>2, AfterLoopGate
      <4> QED
        BY <1>1, <3>2, <4>1, <4>2
    <3> QED
      BY <1>1, <2>1, <3>1, <3>2, <3>3 DEF Behind, Meeting, Inside, PlainWork, ChunkWork
  <2>4. CASE meet[t] = "final"
    BY <1>1, <2>1, <2>4 DEF Beyond, CurrentAt
  <2> QED
    BY <1>1, <2>2, <2>3, <2>4
<1> QED
  BY <1>2, <1>3, <1>4, <1>5, <1>6, <1>7 DEF Compute

\* The piece that thread t holds changes only where it computes it or fetches one.
LEMMA HoldsStep ==
    ASSUME Inv, NEW t \in Threads, Compute(t), ~BarrierAlone(t), ~BarrierPass(t), Joined(t), NEW p
    PROVE  /\ ~(ChunkWork(t) \/ ChunkFetch(t)) => (Holds(t, p)' <=> Holds(t, p))
           /\ ChunkWork(t) => (Holds(t, p) <=> taken[t] = p) /\ ~Holds(t, p)'
           /\ ChunkFetch(t) => ~Holds(t, p) /\ (Holds(t, p)' <=> chunk = p)
<1>1. Joined(t)' /\ nPassed' = nPassed /\ meet[t] \in {"start", "end", "final"}
  BY ComputeFrame, GateStep, TypeFacts DEF Inv
<1>2. CASE LoopHead(t) \/ PlainWork(t) \/ NodeDone(t) \/ BarrierRead(t) \/ BarrierEnter(t) \/ BarrierReset(t)
  <2>1. pc[t] \in {"loop", "plain", "done", "arrive", "enter", "reset"}
    BY <1>2 DEF LoopHead, PlainWork, NodeDone, BarrierRead, BarrierEnter, BarrierReset
  <2>2. pc'[t] \in {"loop", "plain", "done", "arrive", "enter", "reset", "pass"}
        \/ (pc'[t] = "spin" /\ Meeting(t)')
    <3>1. CASE BarrierEnter(t)
      <4>1. Meeting(t)
        BY <3>1 DEF BarrierEnter, Meeting
      <4>2. Meeting(t)' /\ pc'[t] \in {"reset", "spin"}
        BY <3>1, <4>1, CountStep, MeetingStays DEF BarrierEnter
      <4> QED
        BY <4>2
    <3>2. CASE LoopHead(t)
      BY <3>2, LoopHeadStep
    <3>3. CASE PlainWork(t)
      BY <3>3, WorkStep DEF PlainWork
    <3>4. CASE NodeDone(t) \/ BarrierRead(t) \/ BarrierReset(t)
      BY <3>4, NodeDoneStep, ReadStep, CountStep DEF BarrierReset
    <3> QED
      BY <1>2, <3>1, <3>2, <3>3, <3>4
  <2>3. ~Holds(t, p) /\ ~Holds(t, p)'
    BY <2>1, <2>2 DEF Holds, Late, Meeting, Inside
  <2> QED
    BY <2>1, <2>3 DEF ChunkWork, ChunkFetch
<1>3. CASE ChunkWork(t)
  <2>1. pc[t] = "chunk" /\ pc'[t] \in {"done", "fetch"}
    BY <1>3, WorkStep DEF ChunkWork
  <2> QED
    BY <1>3, <2>1 DEF Holds, Late, ChunkFetch
<1>4. CASE ChunkFetch(t)
  <2>1. pc[t] = "fetch" /\ pc'[t] = "chunk" /\ taken'[t] = chunk
    BY <1>4, FetchStep
  <2> QED
    BY <1>1, <1>4, <2>1 DEF Holds, Late, ChunkWork
<1>5. CASE BarrierSpin(t)
  <2>1. Late(t) /\ pc[t] = "spin"
    BY <1>5 DEF BarrierSpin, Late
  <2>2. CASE meet[t] = "start"
    <3>1. pc'[t] = "chunk" /\ taken'[t] = t
      BY <1>5, <2>2, PassStep
    <3> QED
      BY <1>1, <2>1, <2>2, <3>1 DEF Holds, Late, ChunkWork, ChunkFetch
  <2>3. CASE meet[t] # "start"
    <3>1. pc'[t] \in {"loop", Idle(t)}
      BY <1>1, <1>5, <2>3, PassStep
    <3> QED
      BY <2>1, <2>3, <3>1 DEF Holds, Late, Idle, ChunkWork, ChunkFetch
  <2> QED
    BY <2>2, <2>3
<1> QED
  BY <1>2, <1>3, <1>4, <1>5 DEF Compute

\* A step short of passing the barrier changes no finished node, and writes to none.
LEMMA OtherNodes ==
    ASSUME Inv, NEW t \in Threads, Compute(t), ~BarrierAlone(t), ~BarrierPass(t),
           NEW k \in Steps, NEW p \in PieceIds, k # Current
    PROVE  (Done(k, p)' <=> Done(k, p)) /\ work'[k][p] = work[k][p]
<1>1. Now' = Now /\ Members' = Members /\ graph' = graph /\ (pc'[0] = "kick" <=> pc[0] = "kick")
  BY GateStep, ComputeFrame, KickSame DEF Loop
<1>2. Current' = Current /\ (Begun(k)' <=> Begun(k)) /\ Pieces(k)' = Pieces(k)
  BY <1>1 DEF Current, Begun, Pieces, ChunkCount
<1>3. Done(k, p)' <=> Done(k, p)
  BY <1>1, <1>2 DEF Done
<1>4. work'[k][p] = work[k][p]
  <2>1. CASE PlainWork(t) \/ ChunkWork(t)
    <3>1. pc[t] \in Working
      BY <2>1 DEF PlainWork, ChunkWork, Working
    <3>2. node[t] = Current /\ node[t] \in Steps
      BY <3>1, Worked, AtWork
    <3>3. work' = work \/ \E q : Computed(node[t], q)
      BY <2>1, WorkStep
    <3> QED
      BY <3>2, <3>3, ComputedTypes DEF Inv
  <2>2. CASE ~(PlainWork(t) \/ ChunkWork(t))
    BY <2>2, LoopHeadStep, FetchStep, NodeDoneStep, ReadStep, CountStep, PassStep DEF Compute
  <2> QED
    BY <2>1, <2>2
<1> QED
  BY <1>3, <1>4

LEMMA WorkOKInside ==
    ASSUME Inv, NEW t \in Threads, Compute(t), ~BarrierAlone(t), ~BarrierPass(t)
    PROVE  WorkOK'
<1> SUFFICES ASSUME NEW k \in Steps, NEW p \in PieceIds
             PROVE  work'[k][p] = IF Done(k, p)' THEN 1 ELSE 0
  BY DEF WorkOK
<1>1. work[k][p] = IF Done(k, p) THEN 1 ELSE 0
  BY DEF Inv, WorkOK
<1>2. CASE k # Current
  BY <1>1, <1>2, OtherNodes
<1>3. CASE k = Current
  <2>1. /\ Now' = Now /\ nPassed' = nPassed /\ Members' = Members /\ Members \subseteq Threads
        /\ graph' = graph /\ (pc'[0] = "kick" <=> pc[0] = "kick")
        /\ \A u \in Threads : Joined(u)' <=> Joined(u)
        /\ \A u \in Threads \ {t} : Same(u)
    BY GateStep, ComputeFrame, KickSame DEF Loop
  <2>2. Current' = k /\ (Begun(k)' <=> Begun(k)) /\ Pieces(k)' = Pieces(k)
    BY <1>3, <2>1 DEF Current, Begun, Pieces, ChunkCount
  <2>3. Kind(k) \in Kinds
    BY NodesFacts
  <2>4. /\ Done(k, p) <=> /\ pc[0] # "kick" /\ Begun(k) /\ p \in Pieces(k)
                          /\ IF Kind(k) = "plain" THEN Behind(p, k)
                             ELSE p < chunk /\ \A u \in Members : ~Holds(u, p)
        /\ Done(k, p)' <=> /\ pc[0] # "kick" /\ Begun(k) /\ p \in Pieces(k)
                           /\ IF Kind(k) = "plain" THEN Behind(p, k)'
                              ELSE p < chunk' /\ \A u \in Members : ~Holds(u, p)'
    BY <1>3, <2>1, <2>2 DEF Done
  <2>5. /\ Kind(k) = "nop" => Pieces(k) = {}
        /\ Kind(k) = "plain" => Pieces(k) = Members
        /\ Kind(k) = "chunked" => Pieces(k) = 0..ChunkCount - 1
    BY DEF Pieces
  <2>6. \A u \in Threads \ {t} : /\ Behind(u, k)' <=> Behind(u, k)
                                 /\ Holds(u, p)' <=> Holds(u, p)
    BY <2>1, SameView
  <2>7. CASE PlainWork(t)
    <3>1. /\ t \in Members /\ Joined(t) /\ pc[t] = "plain" /\ pc'[t] = "done"
          /\ Computed(node[t], t) /\ Kind(node[t]) = "plain" /\ chunk' = chunk
      BY <2>7, WorkStep, Worked DEF PlainWork, Working
    <3>2. node[t] = k /\ Begun(k) /\ pc[0] # "kick"
      BY <1>3, <3>1, AtWork DEF Working, AtHome
    <3>3. work'[k][p] = IF p = t THEN work[k][p] + 1 ELSE work[k][p]
      BY <3>1, <3>2, ComputedTypes DEF Inv
    <3>4. ~Behind(t, k) /\ Behind(t, k)'
      BY <1>3, <2>3, <2>7, <3>1, <3>2, BehindStep
    <3>5. CASE p = t
      BY <1>1, <2>4, <2>5, <3>1, <3>2, <3>3, <3>4, <3>5
    <3>6. CASE p # t
      BY <1>1, <2>1, <2>4, <2>5, <2>6, <3>1, <3>2, <3>3, <3>6
    <3> QED
      BY <3>5, <3>6
  <2>8. CASE ChunkWork(t)
    <3>1. /\ t \in Members /\ Joined(t) /\ pc[t] = "chunk" /\ Kind(node[t]) = "chunked"
          /\ chunk' = chunk
      BY <2>8, WorkStep, Worked DEF ChunkWork, Working
    <3>2. node[t] = k /\ Begun(k) /\ pc[0] # "kick" /\ Kind(k) = "chunked"
      BY <1>3, <3>1, AtWork DEF Working, AtHome
    <3>3. (Holds(t, p) <=> taken[t] = p) /\ ~Holds(t, p)'
      BY <2>8, <3>1, HoldsStep
    <3>4. ChunkCount \in Nat /\ taken[t] \in Nat /\ graph.n \in Nat /\ Members = 0..graph.n - 1
      BY TypeFacts, ChunkAssumption DEF ChunkCount, Inv, Members
    <3>5. CASE taken[t] >= ChunkCount /\ work' = work
      <4>1. p \in Pieces(k) => p # taken[t]
        BY <2>5, <3>2, <3>4, <3>5
      <4>2. p \in Pieces(k) => ((\A u \in Members : ~Holds(u, p)') <=> (\A u \in Members : ~Holds(u, p)))
        BY <2>1, <2>6, <3>3, <4>1
      <4> QED
        BY <1>1, <2>4, <3>1, <3>2, <3>5, <4>2
    <3>6. CASE taken[t] < ChunkCount /\ Computed(k, taken[t])
      <4>1. work'[k][p] = IF p = taken[t] THEN work[k][p] + 1 ELSE work[k][p]
        BY <3>6, ComputedTypes DEF Inv
      <4>2. CASE p # taken[t]
        <5>1. (\A u \in Members : ~Holds(u, p)') <=> (\A u \in Members : ~Holds(u, p))
          BY <2>1, <2>6, <3>3, <4>2
        <5> QED
          BY <1>1, <2>4, <3>1, <3>2, <4>1, <4>2, <5>1
      <4>3. CASE p = taken[t]
        <5>1. /\ taken[t] < chunk /\ (taken[t] < graph.n => taken[t] = t)
              /\ \A u \in Members : u # t /\ Joined(u) /\ pc[u] = "chunk" => taken[u] # taken[t]
          <6>1. ChunkOK /\ Current # -1 /\ Kind(Current) = "chunked"
            BY <1>3, <3>2 DEF Inv, Steps
          <6> QED
            BY <3>1, <6>1 DEF ChunkOK
        <5>2. \A u \in Members \ {t} : ~Holds(u, p)
          <6>1. \A u \in Members \ {t} : u # taken[t]
            BY <3>4, <5>1
          <6> QED
            BY <4>3, <5>1, <6>1 DEF Holds
        <5>3. Done(k, p)' /\ ~Done(k, p)
          <6>1. p \in Pieces(k)
            BY <2>5, <3>2, <3>4, <3>6, <4>3
          <6>2. \A u \in Members : ~Holds(u, p)'
            BY <2>1, <2>6, <3>3, <5>2
          <6>3. Holds(t, p)
            BY <3>3, <4>3
          <6> QED
            BY <2>4, <3>1, <3>2, <4>3, <5>1, <6>1, <6>2, <6>3
        <5> QED
          BY <1>1, <4>1, <4>3, <5>3
      <4> QED
        BY <4>2, <4>3
    <3> QED
      BY <2>8, <3>1, <3>2, <3>5, <3>6, WorkStep
  <2>9. CASE ChunkFetch(t)
    <3>1. /\ t \in Members /\ Joined(t) /\ Kind(node[t]) = "chunked"
          /\ chunk' = chunk + 1 /\ work' = work /\ pc[t] = "fetch"
      BY <2>9, FetchStep, Worked DEF ChunkFetch, Working
    <3>2. node[t] = k /\ Kind(k) = "chunked" /\ chunk \in Nat /\ ChunkCount \in Nat
      BY <1>3, <3>1, AtWork, TypeFacts, ChunkAssumption DEF Working, ChunkCount, Inv
    <3>3. ~Holds(t, p) /\ (Holds(t, p)' <=> chunk = p)
      BY <2>9, <3>1, HoldsStep
    <3>4. CASE p = chunk
      <4>1. ~Done(k, p) /\ ~Done(k, p)'
        BY <2>4, <3>1, <3>2, <3>3, <3>4
      <4> QED
        BY <1>1, <3>1, <4>1
    <3>5. CASE p # chunk
      <4>1. (\A u \in Members : ~Holds(u, p)') <=> (\A u \in Members : ~Holds(u, p))
        BY <2>1, <2>6, <3>3, <3>5
      <4>2. p \in Pieces(k) => (p < chunk' <=> p < chunk)
        BY <2>5, <3>1, <3>2, <3>5
      <4>3. Done(k, p)' <=> Done(k, p)
        BY <2>4, <3>2, <4>1, <4>2
      <4> QED
        BY <1>1, <3>1, <4>3
    <3> QED
      BY <3>4, <3>5
  <2>10. CASE ~(PlainWork(t) \/ ChunkWork(t) \/ ChunkFetch(t))
    <3>1. work' = work
      BY <2>10, LoopHeadStep, NodeDoneStep, ReadStep, CountStep, PassStep DEF Compute
    <3>2. chunk' = chunk
      <4>1. CASE LoopHead(t)
        <5>1. CASE ~(node[t] = Len(Nodes) \/ abort = node[t]) /\ Kind(node[t]) = "chunked"
          <6>1. t \in Members /\ Joined(t) /\ pc[t] = "loop" /\ Inv /\ Types
            BY <4>1, Participant DEF LoopHead, AtHome, Late, Inv
          <6>2. node[t] \in 0..Len(Nodes) /\ Len(Nodes) \in Nat
            BY <6>1, TypeFacts, Constants
          <6>3. Now = AfterLoop(node[t], abort)
            BY <6>1, GateAt DEF Inv, Together
          <6>4. Now = <<"start", node[t]>>
            BY <5>1, <6>2, <6>3, LoopTurn
          <6>5. k = -1
            BY <1>3, <6>4 DEF Current, CurrentAt
          <6> QED
            BY <6>5 DEF Steps
        <5>2. CASE (node[t] = Len(Nodes) \/ abort = node[t]) \/ Kind(node[t]) # "chunked"
          BY <4>1, <5>2, LoopHeadStep
        <5> QED
          BY <5>1, <5>2
      <4>2. CASE ~LoopHead(t)
        BY <2>10, <4>2, NodeDoneStep, ReadStep, CountStep, PassStep DEF Compute
      <4> QED
        BY <4>1, <4>2
    <3>3. (\A u \in Members : ~Holds(u, p)') <=> (\A u \in Members : ~Holds(u, p))
      <4>1. Joined(t) => (Holds(t, p)' <=> Holds(t, p))
        BY <2>10, HoldsStep
      <4>2. ~Joined(t) => ~Holds(t, p)' /\ ~Holds(t, p)
        BY <2>1 DEF Holds
      <4> QED
        BY <2>1, <2>6, <4>1, <4>2
    <3>4. Kind(k) = "plain" /\ p \in Members => (Behind(p, k)' <=> Behind(p, k))
      <4>1. CASE p # t
        BY <2>1, <2>6, <4>1
      <4>2. CASE p = t /\ ~Joined(t)
        BY <2>1, <4>2 DEF Behind
      <4>3. CASE p = t /\ Joined(t)
        BY <1>3, <2>10, <4>3, BehindStep
      <4> QED
        BY <4>1, <4>2, <4>3
    <3>5. Done(k, p)' <=> Done(k, p)
      BY <2>4, <2>5, <3>2, <3>3, <3>4
    <3> QED
      BY <1>1, <3>1, <3>5
  <2> QED
    BY <2>7, <2>8, <2>9, <2>10
<1> QED
  BY <1>2, <1>3

\* With all threads in the barrier, every piece of what was begun is done.
LEMMA AllMet ==
    ASSUME Inv, 0 \in Members, \A u \in Members : Joined(u) /\ Meeting(u),
           NEW j \in Steps, NEW p
    PROVE  Done(j, p) <=> Begun(j) /\ p \in Pieces(j)
<1>1. pc[0] # "kick"
  BY DEF Meeting, Inside
<1>2. \A u \in Members : Behind(u, j) /\ ~Holds(u, p)
  BY DEF Behind, Holds, Meeting, Late, Inside
<1>3. ASSUME j = Current, Kind(j) = "chunked", p \in Pieces(j) PROVE p < chunk
  <2>1. chunk >= ChunkCount
    BY <1>2, <1>3 DEF Inv, ChunkOK, Steps
  <2>2. ChunkCount \in Nat /\ p \in 0..ChunkCount - 1 /\ chunk \in Nat
    BY <1>3, TypeFacts, ChunkAssumption DEF Pieces, ChunkCount, Inv
  <2> QED
    BY <2>1, <2>2
<1>4. /\ Kind(j) \in Kinds
      /\ Kind(j) = "nop" => Pieces(j) = {}
      /\ Kind(j) = "plain" => Pieces(j) = Members
  BY NodesFacts DEF Pieces
<1> QED
  BY <1>1, <1>2, <1>3, <1>4 DEF Done, Kinds

LEMMA WorkOKCross ==
    ASSUME Inv, NEW t \in Threads, BarrierAlone(t) \/ BarrierPass(t) PROVE WorkOK'
<1> DEFINE m == meet[t]
           k == node[t]
<1>1. /\ t \in Members /\ 0 \in Members
      /\ \A u \in Members : Joined(u) /\ Meeting(u) /\ meet[u] = m /\ node[u] = k
      /\ \A u \in Members \ {t} : Same(u) /\ Late(u)'
      /\ Now = <<m, k>> /\ Now' = Beyond(m, k, abort)
      /\ UNCHANGED <<abort, chunk, work>>
  BY Crossing
<1>2. /\ Members' = Members /\ Members \subseteq Threads /\ graph' = graph
      /\ \A u \in Threads : Joined(u)' <=> Joined(u)
      /\ pc'[0] # "kick" /\ m \in {"start", "end", "final"} /\ Len(Nodes) \in Nat
      /\ k \in 0..Len(Nodes) /\ abort \in -1..Len(Nodes)
  <2>1. Compute(t)
    BY DEF Compute
  <2>2. pc[0] # "kick"
    BY <1>1 DEF Meeting, Inside
  <2> QED
    BY <2>1, <2>2, ComputeFrame, KickSame, TypeFacts, Constants DEF Loop
<1> SUFFICES ASSUME NEW j \in Steps, NEW p \in PieceIds PROVE Done(j, p)' <=> Done(j, p)
  BY <1>1 DEF Inv, WorkOK
<1>3. /\ Done(j, p) <=> Begun(j) /\ p \in Pieces(j)
      /\ Pieces(j)' = Pieces(j) /\ j \in Nat /\ j < Len(Nodes)
  <2>1. \A u \in Members : Joined(u) /\ Meeting(u)
    BY <1>1
  <2>2. Done(j, p) <=> Begun(j) /\ p \in Pieces(j)
    BY <1>1, <2>1, AllMet
  <2>3. Pieces(j)' = Pieces(j)
    BY <1>2 DEF Pieces, ChunkCount
  <2>4. j \in Nat /\ j < Len(Nodes)
    BY <1>2 DEF Steps
  <2> QED
    BY <2>2, <2>3, <2>4
<1>4. Done(j, p)' <=> /\ Begun(j)' /\ p \in Pieces(j)
                      /\ j = Current' =>
                            IF Kind(j) = "plain" THEN Behind(p, j)'
                            ELSE p < chunk /\ \A u \in Members : ~Holds(u, p)'
  BY <1>1, <1>2, <1>3 DEF Done
<1>5. CASE m = "start"
  <2>1. k \in Steps /\ Kind(k) = "chunked" /\ Now' = AfterWork(k) /\ Now = <<"start", k>>
    BY <1>1, <1>2, <1>5, PlacesOf DEF Beyond
  <2>2. Current' = k /\ (Begun(j)' <=> j <= k)
    BY <2>1, AfterWorkGate DEF Current, Begun
  <2>3. Begun(j) <=> j < k
    BY <2>1 DEF Begun, BegunAt
  <2>4. CASE j # k
    BY <1>2, <1>3, <1>4, <2>2, <2>3, <2>4
  <2>5. CASE j = k
    <3>1. chunk = graph.n
      BY <1>1, <2>1 DEF Inv, ChunkOK
    <3>2. ChunkCount \in Nat /\ graph.n \in Nat /\ Members = 0..graph.n - 1
      BY TypeFacts, ChunkAssumption DEF ChunkCount, Inv, Members
    <3>3. ASSUME p \in Pieces(j), p < chunk PROVE \E u \in Members : Holds(u, p)'
      <4>1. p \in Members
        BY <2>1, <2>5, <3>1, <3>2, <3>3 DEF Pieces
      <4>2. CASE p = t
        <5>1. pc'[t] = "chunk" /\ taken'[t] = t
          BY <1>5, PassStep
        <5> QED
          BY <1>1, <1>2, <4>2, <5>1 DEF Holds
      <4>3. CASE p # t
        BY <1>1, <1>2, <1>5, <4>1, <4>3 DEF Holds, Same
      <4> QED
        BY <4>1, <4>2, <4>3
    <3> QED
      BY <1>2, <1>3, <1>4, <2>1, <2>2, <2>3, <2>5, <3>3
  <2> QED
    BY <2>4, <2>5
<1>6. CASE m = "end"
  <2>1. /\ k \in Steps /\ k + 1 < Len(Nodes) /\ k + 1 \in 0..Len(Nodes) /\ k \in Nat
        /\ Now' = AfterLoop(k + 1, abort) /\ Now = <<"end", k>>
    BY <1>1, <1>2, <1>6, PlacesOf DEF Beyond, Steps
  <2>2. Begun(j) <=> j <= k
    BY <1>3, <2>1 DEF Begun, BegunAt
  <2>3. /\ Current' >= k + 1 \/ Current' = -1
        /\ j < k + 1 => Begun(j)'
        /\ j >= k + 1 /\ Begun(j)' /\ Kind(j) # "nop" => j = Current' /\ Kind(j) = "plain"
    <3> DEFINE g == AfterLoop(k + 1, abort)
    <3>1. /\ CurrentAt(g) >= k + 1 \/ CurrentAt(g) = -1 \/ k + 1 = Len(Nodes)
          /\ j < k + 1 => BegunAt(g, j)
          /\ j >= k + 1 /\ BegunAt(g, j) /\ Kind(j) # "nop" => j = CurrentAt(g) /\ Kind(j) = "plain"
      BY <1>2, <2>1, AfterLoopGate
    <3> HIDE DEF g
    <3>2. Now' = g
      BY <2>1 DEF g
    <3> QED
      BY <1>2, <2>1, <3>1, <3>2 DEF Current, Begun
  <2>4. CASE j <= k
    BY <1>3, <1>4, <2>1, <2>2, <2>3, <2>4
  <2>5. CASE j > k
    <3>1. p \in Members => ~Behind(p, j)'
      <4>1. CASE p = t
        <5>1. pc'[t] = "loop" /\ node'[t] = k + 1
          BY <1>6, PassStep
        <5> QED
          BY <1>3, <2>1, <2>5, <4>1, <5>1 DEF Behind, Meeting, Inside
      <4>2. CASE p \in Members /\ p # t
        <5>1. pc'[p] = "spin" /\ ~Inside(p)'
          BY <1>1, <4>2 DEF Late, Inside
        <5> QED
          BY <5>1 DEF Behind, Meeting
      <4> QED
        BY <4>1, <4>2
    <3>2. /\ Kind(j) = "nop" => Pieces(j) = {}
          /\ Kind(j) = "plain" => Pieces(j) = Members
      BY DEF Pieces
    <3> QED
      BY <1>3, <1>4, <2>1, <2>2, <2>3, <2>5, <3>1, <3>2
  <2> QED
    BY <1>3, <2>1, <2>4, <2>5
<1>7. CASE m = "final"
  <2>1. Now' = <<"over", k>> /\ Now = <<"final", k>>
    BY <1>1, <1>7 DEF Beyond
  <2>2. (Begun(j)' <=> j < k) /\ (Begun(j) <=> j < k) /\ Current' = -1
    BY <2>1 DEF Begun, BegunAt, Current, CurrentAt
  <2> QED
    BY <1>3, <1>4, <2>2
<1> QED
  BY <1>2, <1>5, <1>6, <1>7

LEMMA ChunkCross ==
    ASSUME Inv, NEW t \in Threads, BarrierAlone(t) \/ BarrierPass(t) PROVE ChunkOK'
<1> DEFINE m == meet[t]
           k == node[t]
<1>1. /\ t \in Members /\ 0 \in Members
      /\ \A u \in Members : Joined(u) /\ Meeting(u) /\ meet[u] = m /\ node[u] = k
      /\ \A u \in Members \ {t} : Same(u) /\ Late(u)'
      /\ Now = <<m, k>> /\ Now' = Beyond(m, k, abort)
      /\ UNCHANGED <<abort, chunk, work>>
  BY Crossing
<1>2. /\ Members' = Members /\ Members \subseteq Threads /\ graph' = graph
      /\ m \in {"start", "end", "final"} /\ Len(Nodes) \in Nat
      /\ k \in 0..Len(Nodes) /\ abort \in -1..Len(Nodes)
  <2>1. Compute(t)
    BY DEF Compute
  <2> QED
    BY <2>1, ComputeFrame, TypeFacts, Constants DEF Loop
<1>3. \A u \in Members \ {t} : pc'[u] = "spin" /\ ~Meeting(u)'
  BY <1>1 DEF Late, Meeting, Inside
<1>4. pc'[t] \in {"chunk", "loop", Idle(t)} /\ ~Meeting(t)'
  <2>1. pc'[t] \in {"chunk", "loop", Idle(t)}
    BY <1>2, PassStep
  <2> QED
    BY <2>1 DEF Meeting, Inside, Idle
<1>5. ~Meeting(0)'
  BY <1>1, <1>3, <1>4
<1>6. CASE m = "start"
  <2>1. k \in Steps /\ Now = <<"start", k>>
    BY <1>1, <1>6, PlacesOf
  <2>2. chunk = graph.n
    BY <1>1, <2>1 DEF Inv, ChunkOK
  <2>3. pc'[t] = "chunk" /\ taken'[t] = t
    BY <1>6, PassStep
  <2>4. \A u \in Members : ~Behind(u, Current)'
    BY <1>3, <1>4, <2>3 DEF Behind
  <2>5. graph.n \in Nat /\ Members = 0..graph.n - 1
    BY TypeFacts DEF Inv, Members
  <2>6. \A u \in Members : pc'[u] = "chunk" => u = t
    BY <1>3
  <2>7. t < graph.n
    BY <1>1, <2>5
  <2> QED
    BY <1>1, <1>2, <1>5, <2>2, <2>3, <2>4, <2>5, <2>6, <2>7 DEF ChunkOK
<1>7. CASE m = "end"
  <2>1. k + 1 \in 0..Len(Nodes) /\ k + 1 < Len(Nodes) /\ Now' = AfterLoop(k + 1, abort)
    BY <1>1, <1>7, PlacesOf DEF Beyond
  <2>2. Current' # -1 => Kind(Current') # "chunked"
    BY <1>2, <2>1, AfterLoopGate DEF Current
  <2> QED
    BY <1>5, <2>2 DEF ChunkOK
<1>8. CASE m = "final"
  <2>1. Current' = -1
    BY <1>1, <1>8 DEF Beyond, Current, CurrentAt
  <2> QED
    BY <1>5, <2>1 DEF ChunkOK
<1> QED
  BY <1>2, <1>6, <1>7, <1>8

LEMMA ChunkInside ==
    ASSUME Inv, NEW t \in Threads, Compute(t), ~BarrierAlone(t), ~BarrierPass(t) PROVE ChunkOK'
<1>1. /\ Now' = Now /\ nPassed' = nPassed /\ Members' = Members /\ Members \subseteq Threads
      /\ graph' = graph /\ 0 \in Threads
      /\ \A u \in Threads : Joined(u)' <=> Joined(u)
      /\ \A u \in Threads \ {t} : Same(u)
  BY GateStep, ComputeFrame, Constants DEF Loop
<1>2. /\ Types /\ chunk \in Nat /\ graph.n \in Nat /\ ChunkCount \in Nat /\ Len(Nodes) \in Nat
      /\ meet[t] \in {"start", "end", "final"} /\ Members = 0..graph.n - 1
      /\ node[t] \in 0..Len(Nodes)
  BY TypeFacts, ChunkAssumption, Constants DEF ChunkCount, Inv, Members
<1>3. Current' = Current /\ ChunkCount' = ChunkCount /\ Current \in -1..Len(Nodes) - 1
  BY <1>1, NowRange DEF Current, ChunkCount
<1>4. ChunkFetch(t) => /\ chunk' = chunk + 1 /\ t \in Members /\ Joined(t) /\ pc[t] = "fetch"
                       /\ Now[1] # "start"
  <2> SUFFICES ASSUME ChunkFetch(t)
               PROVE  /\ chunk' = chunk + 1 /\ t \in Members /\ Joined(t) /\ pc[t] = "fetch"
                      /\ Now[1] # "start"
    OBVIOUS
  <2>1. chunk' = chunk + 1 /\ pc[t] = "fetch"
    BY FetchStep
  <2>2. t \in Members /\ Joined(t)
    BY <2>1, Worked DEF Working
  <2>3. Now = AfterWork(node[t]) /\ node[t] \in Steps
    BY <2>1, <2>2, AtWork DEF Working
  <2>4. Now[1] # "start"
    BY <2>3, AfterWorkGate
  <2> QED
    BY <2>1, <2>2, <2>4
<1>5. LoopHead(t) => /\ \/ chunk' = chunk \/ (chunk' = graph.n /\ t = 0 /\ Now[1] = "start")
                     /\ pc'[t] = "arrive" /\ Now[1] = "start" /\ t = 0 => chunk' = graph.n
  <2> SUFFICES ASSUME LoopHead(t)
               PROVE  /\ \/ chunk' = chunk \/ (chunk' = graph.n /\ t = 0 /\ Now[1] = "start")
                      /\ pc'[t] = "arrive" /\ Now[1] = "start" /\ t = 0 => chunk' = graph.n
    OBVIOUS
  <2>1. t \in Members /\ Joined(t) /\ pc[t] = "loop"
    BY Participant DEF LoopHead, AtHome, Late
  <2>2. Now = AfterLoop(node[t], abort)
    BY <1>1, <1>2, <2>1, GateAt DEF Inv, Together
  <2>3. CASE node[t] = Len(Nodes) \/ abort = node[t]
    <3>1. Now = <<"final", node[t]>>
      BY <1>2, <2>2, <2>3, LoopTurn
    <3> QED
      BY <2>3, <3>1, LoopHeadStep
  <2>4. CASE node[t] # Len(Nodes) /\ abort # node[t] /\ Kind(node[t]) # "chunked"
    BY <2>4, LoopHeadStep
  <2>5. CASE node[t] # Len(Nodes) /\ abort # node[t] /\ Kind(node[t]) = "chunked"
    <3>1. Now = <<"start", node[t]>>
      BY <1>2, <2>2, <2>5, LoopTurn
    <3> QED
      BY <2>5, <3>1, LoopHeadStep
  <2> QED
    BY <2>3, <2>4, <2>5
<1>6. ~LoopHead(t) /\ ~ChunkFetch(t) => chunk' = chunk
  BY WorkStep, NodeDoneStep, ReadStep, CountStep, PassStep DEF Compute
<1>7. ASSUME Now[1] = "start", Meeting(0)' PROVE chunk' = graph.n
  <2>1. CASE Meeting(0)
    <3>1. chunk = graph.n
      BY <1>7, <2>1 DEF Inv, ChunkOK
    <3> QED
      BY <1>4, <1>5, <1>6, <1>7, <3>1
  <2>2. CASE ~Meeting(0)
    <3>1. t = 0
      BY <1>1, <1>7, <2>2, SameView
    <3>2. pc[0] \notin {"arrive", "enter", "reset", "pass"} /\ ~Inside(0)
      BY <2>2 DEF Meeting
    <3>3. pc'[0] \in {"arrive", "enter", "reset", "pass", "spin"}
      BY <1>7 DEF Meeting, Inside
    <3>4. ~BarrierSpin(0)
      <4>1. ASSUME BarrierSpin(0) PROVE pc'[0] \in {"chunk", "loop", Idle(0)}
        BY <1>2, <3>1, <4>1, PassStep
      <4> QED
        BY <3>3, <4>1 DEF Idle
    <3>5. LoopHead(0) \/ NodeDone(0)
      <4>1. ~BarrierRead(0) /\ ~BarrierEnter(0) /\ ~BarrierReset(0)
        BY <3>2 DEF BarrierRead, BarrierEnter, BarrierReset
      <4>2. ~ChunkFetch(0) /\ ~PlainWork(0) /\ ~ChunkWork(0)
        BY <1>1, <3>3, WorkStep, FetchStep
      <4> QED
        BY <3>1, <3>4, <4>1, <4>2 DEF Compute
    <3>6. CASE LoopHead(0)
      BY <1>5, <1>7, <3>1, <3>3, <3>6, LoopHeadStep
    <3>7. CASE NodeDone(0)
      <4>1. pc[0] = "done" /\ Joined(0) /\ 0 \in Members
        BY <3>1, <3>7, Participant DEF NodeDone, AtHome, Late
      <4>2. Now = AfterWork(node[0]) /\ node[0] \in Steps
        BY <4>1, AtWork
      <4> QED
        BY <1>7, <4>2, AfterWorkGate
    <3> QED
      BY <3>5, <3>6, <3>7
  <2> QED
    BY <2>1, <2>2
<1>8. ASSUME Current # -1, Kind(Current) = "chunked"
      PROVE  /\ chunk' >= graph.n
             /\ \A u \in Members : /\ pc'[u] = "chunk" /\ Joined(u)' =>
                                         taken'[u] < chunk' /\ (taken'[u] < graph.n => taken'[u] = u)
                                   /\ Behind(u, Current)' => chunk' >= ChunkCount
             /\ \A u, v \in Members :
                   /\ u # v /\ Joined(u)' /\ Joined(v)' /\ pc'[u] = "chunk" /\ pc'[v] = "chunk"
                         => taken'[u] # taken'[v]
  <2>0. PICK c \in Steps : c = Current
    BY <1>2, <1>3, <1>8 DEF Steps
  <2>1. c \in Nat /\ Now[1] # "start"
    BY <1>2, <1>8, <2>0 DEF Current, CurrentAt, Steps
  <2>2. /\ chunk >= graph.n
        /\ \A u \in Members : /\ pc[u] = "chunk" /\ Joined(u) =>
                                    taken[u] < chunk /\ (taken[u] < graph.n => taken[u] = u)
                              /\ Behind(u, c) => chunk >= ChunkCount
        /\ \A u, v \in Members :
              /\ u # v /\ Joined(u) /\ Joined(v) /\ pc[u] = "chunk" /\ pc[v] = "chunk"
                    => taken[u] # taken[v]
    BY <1>8, <2>0 DEF Inv, ChunkOK
  <2>3. chunk' = (IF ChunkFetch(t) THEN chunk + 1 ELSE chunk)
    BY <1>4, <1>5, <1>6, <2>1
  <2>4. \A u \in Members : taken[u] \in Nat
    BY <1>1, <1>2, TypeFacts
  <2>5. \A u \in Members \ {t} : /\ Behind(u, c)' <=> Behind(u, c)
                                 /\ pc'[u] = pc[u] /\ taken'[u] = taken[u]
                                 /\ Joined(u)' <=> Joined(u)
    <3>1. \A u \in Members \ {t} : Behind(u, c)' <=> Behind(u, c)
      BY <1>1, SameView
    <3> QED
      BY <1>1, <3>1 DEF Same
  <2>6. \A u \in Members \ {t} :
            /\ pc'[u] = "chunk" /\ Joined(u)' =>
                  taken'[u] < chunk' /\ (taken'[u] < graph.n => taken'[u] = u)
            /\ Behind(u, c)' => chunk' >= ChunkCount
    BY <1>2, <2>2, <2>3, <2>4, <2>5
  <2>7. ASSUME t \in Members, Joined(t)
        PROVE  /\ pc'[t] = "chunk" =>
                     /\ taken'[t] < chunk' /\ (taken'[t] < graph.n => taken'[t] = t)
                     /\ \A u \in Members \ {t} : Joined(u) /\ pc[u] = "chunk" => taken[u] # taken'[t]
               /\ Behind(t, c)' => chunk' >= ChunkCount
    <3>0. /\ ~(PlainWork(t) \/ ChunkWork(t)) => (Behind(t, c)' <=> Behind(t, c))
          /\ PlainWork(t) \/ ChunkWork(t) => (Behind(t, c)' <=> pc'[t] = "done")
      BY <1>8, <2>0, <2>7, BehindStep
    <3>1. CASE PlainWork(t)
      BY <1>8, <2>7, <3>1, AtWork, Worked DEF PlainWork, Working
    <3>2. CASE ChunkWork(t)
      <4>1. pc[t] = "chunk" /\ pc'[t] \in {"done", "fetch"} /\ chunk' = chunk
        BY <3>2, WorkStep DEF ChunkWork
      <4>2. pc'[t] = "done" => taken[t] >= ChunkCount \/ graph.n >= ChunkCount
        BY <3>2, <4>1, WorkStep
      <4> QED
        BY <1>2, <2>2, <2>4, <2>7, <3>0, <3>2, <4>1, <4>2
    <3>3. CASE ChunkFetch(t)
      <4>1. taken'[t] = chunk /\ chunk' = chunk + 1 /\ ~PlainWork(t) /\ ~ChunkWork(t)
        BY <3>3, FetchStep DEF PlainWork, ChunkWork
      <4> QED
        BY <1>2, <2>2, <2>4, <2>7, <3>0, <4>1
    <3>4. CASE BarrierSpin(t)
      <4>1. ~PlainWork(t) /\ ~ChunkWork(t) /\ chunk' = chunk
        BY <3>4, PassStep DEF PlainWork, ChunkWork, BarrierSpin
      <4>2. CASE meet[t] = "start"
        <5>1. taken'[t] = t
          BY <3>4, <4>2, PassStep
        <5>2. t \in Nat /\ t < graph.n
          BY <1>2, <2>7
        <5> QED
          BY <1>2, <2>2, <2>4, <2>7, <3>0, <4>1, <5>1, <5>2
      <4>3. CASE meet[t] # "start"
        <5>1. pc'[t] \in {"loop", Idle(t)}
          BY <1>2, <3>4, <4>3, PassStep
        <5> QED
          BY <2>2, <2>7, <3>0, <4>1, <5>1 DEF Idle
      <4> QED
        BY <4>2, <4>3
    <3>5. CASE LoopHead(t) \/ NodeDone(t) \/ BarrierRead(t) \/ BarrierEnter(t) \/ BarrierReset(t)
      <4>1. pc'[t] \in {"loop", "arrive", "plain", "enter", "reset", "spin", "pass"}
        BY <3>5, LoopHeadStep, NodeDoneStep, ReadStep, CountStep
      <4>2. ~PlainWork(t) /\ ~ChunkWork(t) /\ ~ChunkFetch(t)
        BY <3>5 DEF LoopHead, NodeDone, BarrierRead, BarrierEnter, BarrierReset, PlainWork,
                    ChunkWork, ChunkFetch
      <4> QED
        BY <2>2, <2>3, <2>7, <3>0, <4>1, <4>2
    <3> QED
      BY <3>1, <3>2, <3>3, <3>4, <3>5 DEF Compute
  <2>8. chunk' >= graph.n
    BY <1>2, <2>2, <2>3
  <2>9. \A u \in Members : /\ pc'[u] = "chunk" /\ Joined(u)' =>
                                 taken'[u] < chunk' /\ (taken'[u] < graph.n => taken'[u] = u)
                           /\ Behind(u, c)' => chunk' >= ChunkCount
    <3>1. ~Joined(t) => ~Joined(t)' /\ ~Behind(t, c)'
      BY <1>1 DEF Behind
    <3> QED
      BY <1>1, <2>6, <2>7, <3>1
  <2>10. \A u, v \in Members :
             /\ u # v /\ Joined(u)' /\ Joined(v)' /\ pc'[u] = "chunk" /\ pc'[v] = "chunk"
                   => taken'[u] # taken'[v]
    BY <1>1, <2>2, <2>5, <2>7
  <2> QED
    <3>1. \A u \in Members : Behind(u, Current)' <=> Behind(u, c)'
      BY <1>3, <2>0 DEF Behind
    <3> QED
      BY <2>8, <2>9, <2>10, <3>1
<1> QED
  BY <1>1, <1>3, <1>7, <1>8 DEF ChunkOK

LEMMA ComputeKeeps == ASSUME Inv, NEW t \in Threads, Compute(t) PROVE Inv'
<1>1. Types'
  BY ComputeFrame DEF Loop
<1>2. WorkOK' /\ ChunkOK'
  BY WorkOKInside, WorkOKCross, ChunkInside, ChunkCross
<1> QED
  BY <1>1, <1>2, HomeStep, OutsideStep, NodeStep, TogetherStep, BarrierStep, AbortStep DEF Inv

LEMMA InvInit == ASSUME Init PROVE Inv
<1>1. /\ graph = [seq |-> 0, n |-> 0] /\ abort = -1 /\ nBarrier = 0 /\ nPassed = 0 /\ chunk = 0
      /\ \A t \in Threads : /\ pc[t] = Idle(t) /\ node[t] = 0 /\ meet[t] = "final" /\ mine[t] = 0
                            /\ taken[t] = 0 /\ lastGraph[t] = 0
  BY DEF Init
<1>2. Types
  <2>1. \A t \in Threads : Idle(t) \in Labels
    BY Places DEF Idle, AtHome
  <2>2. pc \in [Threads -> Labels]
    BY <2>1 DEF Init
  <2>3. work \in [Steps -> [PieceIds -> Nat]]
    BY DEF Init
  <2>4. graph \in [seq : Nat, n : 0..Pool] /\ abort \in -1..Len(Nodes) /\ 0 \in 0..Len(Nodes)
    BY <1>1, Constants
  <2>5. /\ node \in [Threads -> 0..Len(Nodes)] /\ meet \in [Threads -> {"start", "end", "final"}]
        /\ mine \in [Threads -> Nat] /\ taken \in [Threads -> Nat] /\ lastGraph \in [Threads -> Nat]
    BY <2>4 DEF Init
  <2> QED
    BY <2>2, <2>3, <2>4, <2>5 DEF Init, Types
<1>3. Members = {}
  BY <1>1 DEF Members
<1>4. pc[0] = "idle" /\ node[0] = 0
  BY <1>1, Constants DEF Idle
<1>5. \A t \in Threads : pc[t] \in {"idle", "top"} /\ (t # 0 => pc[t] = "top")
  BY <1>1 DEF Idle
<1>6. \A t \in Threads : pc[t] \in AtHome /\ ~Meeting(t) /\ ~Late(t) /\ ~Inside(t)
                         /\ pc[t] \notin Working \cup {"done"}
  BY <1>5 DEF AtHome, Meeting, Late, Inside, Working
<1>7. Now = <<"over", 0>>
  BY <1>2, <1>4, <1>6, Constants, GateAt DEF Now, Joined
<1>8. HomeOK
  BY <1>1, <1>4, <1>5 DEF HomeOK
<1>9. OutsideOK /\ NodeOK /\ Together
  BY <1>3, <1>6 DEF OutsideOK, NodeOK, Together, Working
<1>10. BarrierOK
  <2>1. Insiders = {}
    BY <1>6 DEF Insiders
  <2>2. \A t \in Threads : pc[t] \notin {"enter", "reset", "pass"}
    BY <1>5
  <2> QED
    BY <1>1, <2>1, <2>2, FS_EmptySet DEF BarrierOK
<1>11. AbortOK
  BY <1>1 DEF AbortOK
<1>12. WorkOK
  <2>1. \A k \in Steps, p \in PieceIds : work[k][p] = 0
    BY DEF Init
  <2>2. \A k \in Steps : ~Begun(k)
    BY <1>7, NodesFacts DEF Begun, BegunAt, Steps
  <2> QED
    BY <2>1, <2>2 DEF WorkOK, Done
<1>13. ChunkOK
  BY <1>7 DEF ChunkOK, Current, CurrentAt
<1> QED
  BY <1>2, <1>8, <1>9, <1>10, <1>11, <1>12, <1>13 DEF Inv

THEOREM Invariance == Spec => []Inv
<1>1. Init => Inv
  BY InvInit
<1>2. Inv /\ [Next]_vars => Inv'
  <2> SUFFICES ASSUME Inv, [Next]_vars PROVE Inv'
    OBVIOUS
  <2>1. CASE Caller
    BY <2>1, PrepareKeeps, KickoffKeeps, PauseKeeps DEF Caller
  <2>2. ASSUME NEW t \in Threads, Worker(t) PROVE Inv'
    BY <2>2, WorkerKeeps
  <2>3. ASSUME NEW t \in Threads, Compute(t) PROVE Inv'
    BY <2>3, ComputeKeeps
  <2>4. CASE UNCHANGED vars
    BY <2>4, StutterKeeps
  <2> QED
    BY <2>1, <2>2, <2>3, <2>4 DEF Next
<1> QED
  BY <1>1, <1>2, PTL DEF Spec

-----------------------------------------------------------------------------
(***************************************************************************)
(* The theorems.                                                            *)
(***************************************************************************)
\* In every behaviour the variables keep their types, and the barrier of ggml_barrier
\* never counts more threads than the pool has.
THEOREM TypeCorrect == Spec => []TypeOK
<1>1. Inv => TypeOK
  <2> SUFFICES ASSUME Inv PROVE TypeOK
    OBVIOUS
  <2>1. nBarrier \in Nat /\ nBarrier <= graph.n /\ graph.n <= Pool /\ Pool \in Nat
    <3>1. /\ BarrierOK /\ nBarrier \in Nat /\ graph.n \in Nat /\ graph.n <= Pool /\ Pool \in Nat
          /\ Cardinality(Insiders) <= graph.n
      BY InsidersFacts, TypeFacts, Constants DEF Inv
    <3> QED
      BY <3>1 DEF BarrierOK
  <2>2. nBarrier \in 0..Pool
    BY <2>1, TypeFacts DEF Inv
  <2> QED
    BY <2>2 DEF Inv, Types, TypeOK
<1> QED
  BY <1>1, Invariance, PTL

LEMMA PieceRange ==
    ASSUME Types, NEW k \in Steps
    PROVE  Pieces(k) \subseteq PieceIds
<1>1. /\ graph.n \in Nat /\ graph.n <= Pool /\ Pool \in Nat /\ Chunks \in Nat /\ PerThread \in Nat
  BY TypeFacts, Constants, ChunkAssumption
<1>2. ChunkCount \in Nat /\ ChunkCount <= Pool + Chunks
  BY <1>1 DEF ChunkCount
<1>3. Members \subseteq PieceIds /\ 0..ChunkCount - 1 \subseteq PieceIds
  BY <1>1, <1>2 DEF Members, PieceIds
<1>4. Kind(k) \in Kinds
  BY NodesFacts
<1> QED
  BY <1>3, <1>4 DEF Pieces, Kinds

\* A thread computes only when every earlier node of the graph is whole: each of its pieces
\* has been computed once, by whichever thread, before any thread is past the barrier.
THEOREM InOrder == Spec => []NodesInOrder
<1>1. Inv => NodesInOrder
  <2> SUFFICES ASSUME Inv, NEW t \in Threads, pc[t] \in Working, NEW k \in 0..node[t] - 1,
                      NEW p \in Pieces(k)
               PROVE  work[k][p] = 1
    BY DEF NodesInOrder, Whole
  <2>1. t \in Members /\ Joined(t)
    BY Worked
  <2>2. node[t] = Current /\ node[t] \in Steps /\ Now = AfterWork(node[t]) /\ pc[0] # "kick"
    BY <2>1, AtWork DEF AtHome
  <2>3. k \in Steps /\ k < node[t] /\ k # Current
    BY <2>2, Constants DEF Steps
  <2>4. Begun(k)
    BY <2>2, <2>3, AfterWorkGate, Constants DEF Begun, Steps
  <2>5. Done(k, p)
    BY <2>2, <2>3, <2>4 DEF Done
  <2>6. p \in PieceIds
    BY <2>3, PieceRange DEF Inv
  <2> QED
    BY <2>3, <2>5, <2>6 DEF Inv, WorkOK
<1> QED
  BY <1>1, Invariance, PTL

\* When ggml_graph_compute is back, the graph is whole up to one node, the end of the graph
\* or the node before which it was aborted, and nothing behind that node was touched.
THEOREM GraphsWhole == Spec => []GraphWhole
<1>1. Inv => GraphWhole
  <2> SUFFICES ASSUME Inv, pc[0] = "idle", graph.seq > 0
               PROVE  \E b \in 0..Len(Nodes) :
                         /\ b = IF abort = -1 THEN Len(Nodes) ELSE abort
                         /\ \A k \in Steps : IF k < b THEN Whole(k) ELSE Untouched(k)
    BY DEF GraphWhole
  <2> DEFINE b == node[0]
  <2>1. Now = <<"over", b>> /\ b \in 0..Len(Nodes) /\ Len(Nodes) \in Nat
    BY AllOver, Constants, TypeFacts DEF AtHome, Inv
  <2>2. b = IF abort = -1 THEN Len(Nodes) ELSE abort
    <3>1. /\ abort # -1 => Now = <<"over", abort>>
          /\ Now[2] # Len(Nodes) => abort = Now[2]
      BY <2>1 DEF Inv, AbortOK
    <3> QED
      BY <2>1, <3>1
  <2>3. Current = -1 /\ \A k \in Steps : Begun(k) <=> k < b
    BY <2>1 DEF Current, CurrentAt, Begun, BegunAt
  <2>4. ASSUME NEW k \in Steps, k < b PROVE Whole(k)
    <3>1. \A p \in Pieces(k) : p \in PieceIds /\ Done(k, p)
      BY <2>3, <2>4, PieceRange DEF Inv, Done, Steps
    <3> QED
      BY <3>1 DEF Inv, WorkOK, Whole
  <2>5. ASSUME NEW k \in Steps, ~(k < b) PROVE Untouched(k)
    <3>1. \A p : ~Done(k, p)
      BY <2>3, <2>5 DEF Done
    <3> QED
      BY <3>1 DEF Inv, WorkOK, Untouched
  <2> QED
    BY <2>1, <2>2, <2>4, <2>5
<1> QED
  BY <1>1, Invariance, PTL

\* No piece of a node is ever computed twice in one graph: not by two threads that take the
\* same chunk, and not by one thread that is overtaken by the barrier.
PiecesOnce == \A k \in Steps, p \in PieceIds : work[k][p] \in {0, 1}

THEOREM Once == Spec => []PiecesOnce
<1>1. Inv => PiecesOnce
  BY DEF Inv, WorkOK, PiecesOnce
<1> QED
  BY <1>1, Invariance, PTL

\* The thread that releases the barrier finds all others of the graph waiting in it, at the
\* same barrier of the same node: n_barrier_passed is never raised for one that others are
\* still on the way to, or have already left.
BarrierMeets ==
    \A t \in Threads : pc[t] = "pass" =>
        \A u \in Members \ {t} : /\ pc[u] = "spin" /\ mine[u] = nPassed
                                 /\ meet[u] = meet[t] /\ node[u] = node[t]

THEOREM Meets == Spec => []BarrierMeets
<1>1. Inv => BarrierMeets
  <2> SUFFICES ASSUME Inv, NEW t \in Threads, pc[t] = "pass", NEW u \in Members \ {t}
               PROVE  /\ pc[u] = "spin" /\ mine[u] = nPassed
                      /\ meet[u] = meet[t] /\ node[u] = node[t]
    BY DEF BarrierMeets
  <2>1. /\ t \in Members /\ Joined(t) /\ u \in Threads /\ Inside(u) /\ Joined(u) /\ Types
    BY PassAlone, Members0 DEF Inv
  <2>2. Meeting(t) /\ Meeting(u)
    BY <2>1 DEF Meeting
  <2>3. Gate(t) = <<meet[t], node[t]>> /\ Gate(u) = <<meet[u], node[u]>>
    BY <2>1, <2>2, GateAt
  <2>4. Gate(t) = Gate(u)
    BY <2>1 DEF Inv, Together
  <2> QED
    BY <2>1, <2>3, <2>4 DEF Inside
<1> QED
  BY <1>1, Invariance, PTL
=============================================================================
