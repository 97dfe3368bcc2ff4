--------------------------- MODULE GgmlThreadpool ---------------------------
(***************************************************************************)
(* The thread pool of ggml-cpu.c, built without OpenMP, that computes every *)
(* graph of the model.  Thread 0 is the caller of ggml_graph_compute; the   *)
(* others are the pool's workers, which poll for a graph, sleep on a        *)
(* condition variable, or sleep paused.  The threads that take part in a    *)
(* graph run the same node loop and meet at a barrier of two counters.      *)
(*                                                                          *)
(* A node is computed in pieces: a "plain" operator gives one to each       *)
(* thread, a "chunked" one (mul_mat) has more of them, handed out by a      *)
(* shared counter.  A "nop" is a node that the loop skips.                  *)
(*                                                                          *)
(* Atomics are sequentially consistent.  A critical section of the mutex is *)
(* one step: every writer of what a sleeper tests holds the mutex.          *)
(***************************************************************************)
EXTENDS Integers, Sequences

CONSTANTS
    Pool,        \* n_threads of the pool
    Nodes,       \* the kinds of the graph's nodes, in order
    Chunks,      \* chunks into which a chunked node is cut
    PerThread,   \* 4 in the code: with fewer chunks for each thread it is cut by threads
    MaxGraphs,   \* bound: graphs computed in a behaviour
    MaxPauses    \* bound: calls of pause in a behaviour

Kinds == {"plain", "chunked", "nop"}

ASSUME PoolAssumption  == Pool \in Nat \ {0}
ASSUME NodesAssumption == Nodes \in Seq(Kinds)
ASSUME ChunkAssumption == Chunks \in Nat /\ PerThread \in Nat \ {0}
ASSUME BoundAssumption == MaxGraphs \in Nat /\ MaxPauses \in Nat

VARIABLES
    stop, pause,
    graph,       \* n_graph: its number and how many threads take part
    abort,       \* the node before which all stop, -1 for none
    nBarrier,    \* n_barrier
    nPassed,     \* n_barrier_passed
    chunk,       \* current_chunk
    pc,          \* pc[t]: where thread t is
    node,        \* node[t]: node_n of thread t
    meet,        \* meet[t]: the barrier thread t is in or comes to next
    mine,        \* mine[t]: n_passed, read on entry
    taken,       \* taken[t]: the chunk thread t computes
    lastGraph,   \* last_graph
    work,        \* work[k][p]: how often piece p of node k was computed in this graph
    pauses

control == <<stop, pause, graph, pauses>>
barrier == <<nBarrier, nPassed, mine>>
vars    == <<control, barrier, abort, chunk, pc, node, meet, taken, lastGraph, work>>

Threads == 0..Pool - 1
Steps   == 0..Len(Nodes) - 1
Kind(k) == Nodes[k + 1]
Members == 0..graph.n - 1              \* the threads of the present graph
ChunkCount == IF Chunks < graph.n * PerThread THEN graph.n ELSE Chunks
Pieces(k) == CASE Kind(k) = "plain"   -> Members
               [] Kind(k) = "chunked" -> 0..ChunkCount - 1
               [] Kind(k) = "nop"     -> {}
PieceIds == 0..(Pool + Chunks)

Idle(t) == IF t = 0 THEN "idle" ELSE "top"
Goto(t, label) == pc' = [pc EXCEPT ![t] = label]

Init ==
    /\ stop = FALSE /\ pause \in BOOLEAN
    /\ graph = [seq |-> 0, n |-> 0]
    /\ abort = -1
    /\ nBarrier = 0 /\ nPassed = 0 /\ chunk = 0
    /\ pc = [t \in Threads |-> Idle(t)]
    /\ node = [t \in Threads |-> 0]
    /\ meet = [t \in Threads |-> "final"]
    /\ mine = [t \in Threads |-> 0]
    /\ taken = [t \in Threads |-> 0]
    /\ lastGraph = [t \in Threads |-> 0]
    /\ work = [k \in Steps |-> [p \in PieceIds |-> 0]]
    /\ pauses = 0

-----------------------------------------------------------------------------
(***************************************************************************)
(* The caller, between two graphs.                                          *)
(***************************************************************************)
BroadcastSleepers == [t \in Threads |-> IF pc[t] = "asleep" THEN "check" ELSE pc[t]]  \* variant

Broadcast == [t \in Threads |-> IF pc[t] = "asleep"  THEN "check"
                                ELSE IF pc[t] = "paused" THEN "top" ELSE pc[t]]

ClearWork == [k \in Steps |-> [p \in PieceIds |-> 0]]

\* ggml_graph_compute sets up the shared state, before any worker is told
Prepare ==
    /\ pc[0] = "idle"
    /\ graph.seq < MaxGraphs
    /\ chunk' = 0 /\ abort' = -1 /\ work' = ClearWork
    /\ Goto(0, "kick")
    /\ UNCHANGED <<control, barrier, node, meet, taken, lastGraph>>

\* kickoff, which also resumes a paused pool; n_threads is capped by the pool
Kickoff ==
    /\ pc[0] = "kick"
    /\ \E n \in 1..Pool : graph' = [seq |-> graph.seq + 1, n |-> n]
    /\ pause' = FALSE
    /\ pc' = [Broadcast EXCEPT ![0] = "loop"]
    /\ node' = [node EXCEPT ![0] = 0]
    /\ UNCHANGED <<stop, pauses, barrier, abort, chunk, meet, taken, lastGraph, work>>

Pause ==
    /\ pc[0] = "idle"
    /\ ~pause /\ pauses < MaxPauses
    /\ pause' = TRUE /\ pauses' = pauses + 1
    /\ pc' = Broadcast
    /\ UNCHANGED <<stop, graph, barrier, abort, chunk, node, meet, taken, lastGraph, work>>

Resume ==
    /\ pc[0] = "idle"
    /\ pause
    /\ pause' = FALSE
    /\ pc' = Broadcast
    /\ UNCHANGED <<stop, graph, pauses, barrier, abort, chunk, node, meet, taken, lastGraph, work>>

FreeBegin ==
    /\ pc[0] = "idle"
    /\ stop' = TRUE /\ pause' = FALSE
    /\ pc' = [Broadcast EXCEPT ![0] = "join"]
    /\ UNCHANGED <<graph, pauses, barrier, abort, chunk, node, meet, taken, lastGraph, work>>

FreeEnd ==
    /\ pc[0] = "join"
    /\ \A t \in Threads \ {0} : pc[t] = "exited"
    /\ Goto(0, "freed")
    /\ UNCHANGED <<control, barrier, abort, chunk, node, meet, taken, lastGraph, work>>

-----------------------------------------------------------------------------
(***************************************************************************)
(* A worker outside a graph.                                                *)
(***************************************************************************)
\* the head of the worker's loop: pause, then stop, then look for work
WorkerTop(t) ==
    /\ pc[t] = "top"
    /\ Goto(t, IF pause THEN "lock" ELSE IF stop THEN "exited" ELSE "poll")
    /\ UNCHANGED <<control, barrier, abort, chunk, node, meet, taken, lastGraph, work>>

WorkerPauseUntested(t) ==                                  \* variant
    /\ pc[t] = "lock"
    /\ Goto(t, "paused")
    /\ UNCHANGED <<control, barrier, abort, chunk, node, meet, taken, lastGraph, work>>

\* pause is tested again under the mutex before the wait
WorkerPause(t) ==
    /\ pc[t] = "lock"
    /\ Goto(t, IF pause THEN "paused" ELSE "top")
    /\ UNCHANGED <<control, barrier, abort, chunk, node, meet, taken, lastGraph, work>>

NewGraph(t) == graph.seq # lastGraph[t]
ThreadReady(t) == stop \/ pause \/ NewGraph(t)

\* ggml_graph_compute_thread_ready has returned true: a new graph is noted, and taken by
\* a thread that has a part in it
Answer(t) ==
    IF stop \/ pause
    THEN Goto(t, "top") /\ UNCHANGED <<lastGraph, node>>
    ELSE /\ lastGraph' = [lastGraph EXCEPT ![t] = graph.seq]
         /\ Goto(t, IF t < graph.n THEN "loop" ELSE "top")
         /\ node' = [node EXCEPT ![t] = 0]

\* polling ends with a graph for this thread, or goes on to the mutex
Poll(t) ==
    /\ pc[t] = "poll"
    /\ \/ /\ ~stop /\ ~pause /\ NewGraph(t) /\ t < graph.n
          /\ Answer(t)
       \/ /\ ~stop /\ ~pause /\ NewGraph(t) /\ t >= graph.n
          /\ lastGraph' = [lastGraph EXCEPT ![t] = graph.seq]
          /\ Goto(t, "check")
          /\ UNCHANGED node
       \/ /\ stop \/ pause \/ ~NewGraph(t)      \* told to stop, or polled long enough
          /\ Goto(t, "check")
          /\ UNCHANGED <<lastGraph, node>>
    /\ UNCHANGED <<control, barrier, abort, chunk, meet, taken, work>>

CheckForWork(t) ==
    /\ pc[t] = "check"
    /\ IF ThreadReady(t) THEN Answer(t)
                         ELSE Goto(t, "asleep") /\ UNCHANGED <<lastGraph, node>>
    /\ UNCHANGED <<control, barrier, abort, chunk, meet, taken, work>>

-----------------------------------------------------------------------------
(***************************************************************************)
(* ggml_graph_compute_thread: the node loop of a thread of the graph.       *)
(***************************************************************************)
\* thread 0 sets the counter behind the chunks that the threads begin with
ChunkSet(t) == chunk' = IF t = 0 THEN graph.n ELSE chunk

\* the loop's condition, the nodes it skips, and the start of an operator.  Operators
\* that are fused count as one node.
LoopHead(t) ==
    /\ pc[t] = "loop"
    /\ LET k == node[t] IN
       IF k = Len(Nodes) \/ abort = k
       THEN /\ Goto(t, "arrive") /\ meet' = [meet EXCEPT ![t] = "final"]
            /\ UNCHANGED <<chunk, node>>
       ELSE IF Kind(k) = "nop"
       THEN node' = [node EXCEPT ![t] = k + 1] /\ UNCHANGED <<chunk, pc, meet>>
       ELSE IF Kind(k) = "plain"
       THEN Goto(t, "plain") /\ UNCHANGED <<chunk, node, meet>>
       ELSE /\ Goto(t, "arrive") /\ meet' = [meet EXCEPT ![t] = "start"]
            /\ ChunkSet(t)
            /\ UNCHANGED node
    /\ UNCHANGED <<control, barrier, abort, taken, lastGraph, work>>

Computed(k, p) == work' = [work EXCEPT ![k][p] = @ + 1]

PlainWork(t) ==
    /\ pc[t] = "plain"
    /\ Computed(node[t], t)
    /\ Goto(t, "done")
    /\ UNCHANGED <<control, barrier, abort, chunk, node, meet, taken, lastGraph>>

\* mul_mat's loop over chunks: the first is the thread's own number, the next comes from
\* the shared counter, unless there was one for each thread
ChunkWork(t) ==
    /\ pc[t] = "chunk"
    /\ IF taken[t] < ChunkCount
       THEN /\ Computed(node[t], taken[t])
            /\ Goto(t, IF graph.n >= ChunkCount THEN "done" ELSE "fetch")
       ELSE Goto(t, "done") /\ UNCHANGED work
    /\ UNCHANGED <<control, barrier, abort, chunk, node, meet, taken, lastGraph>>

ChunkFetch(t) ==
    /\ pc[t] = "fetch"
    /\ taken' = [taken EXCEPT ![t] = chunk]
    /\ chunk' = chunk + 1
    /\ Goto(t, "chunk")
    /\ UNCHANGED <<control, barrier, abort, node, meet, lastGraph, work>>

\* variant: the node that was just computed is named
AbortHere(k) == abort' = k
AbortAfter(k) == abort' = k + 1

\* after a node thread 0 asks the abort callback; then all meet, but not after the last
NodeDone(t) ==
    /\ pc[t] = "done"
    /\ \/ UNCHANGED abort
       \/ t = 0 /\ AbortAfter(node[t])
    /\ IF node[t] + 1 < Len(Nodes)
       THEN /\ Goto(t, "arrive") /\ meet' = [meet EXCEPT ![t] = "end"]
            /\ UNCHANGED node
       ELSE Goto(t, "loop") /\ node' = [node EXCEPT ![t] = @ + 1] /\ UNCHANGED meet
    /\ UNCHANGED <<control, barrier, chunk, taken, lastGraph, work>>

-----------------------------------------------------------------------------
(***************************************************************************)
(* ggml_barrier.                                                            *)
(***************************************************************************)
\* thread t goes on after the barrier it was in
Leave(t) ==
    CASE meet[t] = "start" -> /\ Goto(t, "chunk")
                              /\ taken' = [taken EXCEPT ![t] = t]
                              /\ UNCHANGED node
      [] meet[t] = "end"   -> /\ Goto(t, "loop")
                              /\ node' = [node EXCEPT ![t] = @ + 1]
                              /\ UNCHANGED taken
      [] meet[t] = "final" -> Goto(t, Idle(t)) /\ UNCHANGED <<node, taken>>

BarrierAlone(t) ==
    /\ pc[t] = "arrive" /\ graph.n = 1
    /\ Leave(t)
    /\ UNCHANGED <<control, barrier, abort, chunk, meet, lastGraph, work>>

BarrierRead(t) ==
    /\ pc[t] = "arrive" /\ graph.n # 1
    /\ mine' = [mine EXCEPT ![t] = nPassed]
    /\ Goto(t, "enter")
    /\ UNCHANGED <<control, nBarrier, nPassed, abort, chunk, node, meet, taken, lastGraph, work>>

LastOfFew(seen) == seen >= graph.n - 2                      \* variant
Last(seen) == seen = graph.n - 1

BarrierEnter(t) ==
    /\ pc[t] = "enter"
    /\ nBarrier' = nBarrier + 1
    /\ Goto(t, IF Last(nBarrier) THEN "reset" ELSE "spin")
    /\ UNCHANGED <<control, nPassed, mine, abort, chunk, node, meet, taken, lastGraph, work>>

BarrierReset(t) ==
    /\ pc[t] = "reset"
    /\ nBarrier' = 0
    /\ Goto(t, "pass")
    /\ UNCHANGED <<control, nPassed, mine, abort, chunk, node, meet, taken, lastGraph, work>>

BarrierPass(t) ==
    /\ pc[t] = "pass"
    /\ nPassed' = nPassed + 1
    /\ Leave(t)
    /\ UNCHANGED <<control, nBarrier, mine, abort, chunk, meet, lastGraph, work>>

BarrierSpin(t) ==
    /\ pc[t] = "spin" /\ nPassed # mine[t]
    /\ Leave(t)
    /\ UNCHANGED <<control, barrier, abort, chunk, meet, lastGraph, work>>

-----------------------------------------------------------------------------
Caller == Prepare \/ Kickoff \/ Pause \/ Resume \/ FreeBegin \/ FreeEnd

Worker(t) == WorkerTop(t) \/ WorkerPause(t) \/ Poll(t) \/ CheckForWork(t)

Compute(t) == \/ LoopHead(t) \/ PlainWork(t) \/ ChunkWork(t) \/ ChunkFetch(t) \/ NodeDone(t)
              \/ BarrierAlone(t) \/ BarrierRead(t) \/ BarrierEnter(t)
              \/ BarrierReset(t) \/ BarrierPass(t) \/ BarrierSpin(t)

Next == Caller \/ \E t \in Threads : Worker(t) \/ Compute(t)

Spec == Init /\ [][Next]_vars

\* threads are scheduled; a caller inside ggml_graph_compute or free goes on
FairSpec ==
    /\ Spec
    /\ WF_vars(Kickoff) /\ WF_vars(FreeEnd)
    /\ \A t \in Threads : WF_vars(Worker(t)) /\ WF_vars(Compute(t))

-----------------------------------------------------------------------------
(***************************************************************************)
(* Properties.                                                              *)
(***************************************************************************)
Labels == {"idle", "kick", "join", "freed", "top", "lock", "paused", "poll", "check", "asleep",
           "exited", "loop", "plain", "chunk", "fetch", "done", "arrive", "enter", "reset",
           "pass", "spin"}

\* Types, and the bounds of the counters: the barrier counts at most the threads of a graph.
TypeOK ==
    /\ stop \in BOOLEAN /\ pause \in BOOLEAN
    /\ graph \in [seq : Nat, n : 0..Pool]
    /\ abort \in -1..Len(Nodes)
    /\ nBarrier \in 0..Pool /\ nPassed \in Nat /\ chunk \in Nat
    /\ pc \in [Threads -> Labels]
    /\ node \in [Threads -> 0..Len(Nodes)]
    /\ meet \in [Threads -> {"start", "end", "final"}]
    /\ mine \in [Threads -> Nat]
    /\ taken \in [Threads -> Nat]
    /\ lastGraph \in [Threads -> Nat]
    /\ work \in [Steps -> [PieceIds -> Nat]]
    /\ pauses \in Nat

Whole(k)     == \A p \in Pieces(k) : work[k][p] = 1
Untouched(k) == \A p \in PieceIds : work[k][p] = 0
Working      == {"plain", "chunk", "fetch"}

\* While any thread works on a node, every piece of every earlier node of this graph has
\* been computed, exactly once, by whichever thread: the barrier after each node.
NodesInOrder ==
    \A t \in Threads : pc[t] \in Working =>
        \A k \in 0..node[t] - 1 : Whole(k)

\* When ggml_graph_compute returns, the threads have stopped at one node boundary: all
\* nodes before it are whole, none after it was begun, and without an abort it is the end.
GraphWhole ==
    pc[0] = "idle" /\ graph.seq > 0 =>
        \E b \in 0..Len(Nodes) :
            /\ b = IF abort = -1 THEN Len(Nodes) ELSE abort
            /\ \A k \in Steps : IF k < b THEN Whole(k) ELSE Untouched(k)

\* A graph handed to the pool is computed: no worker sleeps through a kickoff, paused or not.
GraphReturns == pc[0] = "kick" ~> pc[0] = "idle"

\* ggml_threadpool_free returns: every worker sees stop, wherever it polls, sleeps or waits.
FreeReturns == pc[0] = "join" ~> pc[0] = "freed"
=============================================================================
