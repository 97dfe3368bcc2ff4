# TLA+ models of llama.cpp-omni

This directory holds formal models of the parts of the repository that carry
protocol and state: the full-duplex speech server (`tools/omni`,
`tools/server/{session,ws_handler,server-omni}.cpp`), the task queue of the
upstream server, the KV cache of libllama and the CPU thread pool of ggml on
which all of it runs.

Every definition that stands for code is listed in `PROJECT.json` under `map`
with the lines it translates. Names follow the code; where TLA+ needs a name the
code does not have, the comment beside it says what it stands for. Line numbers
without a file are lines of `tools/omni/omni.cpp`.

## 1. The system

One process serves one model. A client opens a WebSocket, sends `session.init`
and then one `input.append` per second of audio; the server answers every input
with text deltas, a listen delta, or both, and with audio.

```
 WebSocket thread (one per connection)          HTTP thread
   handle_ws_backend                              POST /sessions/:id/close
     | stream_prefill   | stream_decode             |
     | (octx_mutex)     | (own decode thread)       | (octx_mutex)
     v                  v                           v
   duplex_prefill     duplex_decode            omni_prepare_for_reuse
     |  encoder_queue    |  pending_decode          |  running = false, joins
     v                   v                          v
   encoder thread --> prefill_queue --> LLM thread ---> KV cache, windows
                                           |               |
                                           |               +--> llama_decode --> ggml thread pool
                                           +--> text_queue, text_done_flag --> WebSocket thread
                                           +--> TTS queue --> TTS thread --> token2wav thread --> vocoder
```

The library interface offers a second client of the same pipeline, the *duplex
session* (`omni_duplex_session_begin / push_frame / wait_next_frame /
session_end`), whose two worker threads call prefill and decode. The upstream
HTTP server in the same tree serves completions over `server_queue`.

### Inventory

| Component | State | Operations | What is hard | What makes it correct |
|---|---|---|---|---|
| Duplex pipeline (9302-9479, 10100-10287) | two bounded queues, `pending_decode`, `in_flight_prefill`, `break_event`, `running` | start, `duplex_prefill`, encoder loop, LLM loop, `duplex_decode`, break, stop | four threads, three condition variables, counters outside locks, break and stop at any moment | a decode sees its own frame and no later one; frames in order; every request answered once |
| Duplex session (11409-11668) | `pending_frames`, `decode_pending`, `done_results`, frame counter, `in_flight` | begin, push, wait, two workers, end | two workers over the pipeline, counters outside locks, draining at the end, ids that restart | one result per frame, in order, of this session; end loses nothing |
| KV context (968-1080, 3429-3857, 9644-10097) | positions in the KV cache, `round_start_positions`, `unit_history`, turn and unit ids | prefill, decode, forced slide, window enforcement | evictions in the middle of a response, several books over one cache | the newest suffix is kept, the books describe the cache, the context never overflows |
| Backend sessions (`session.cpp`, `ws_handler.cpp`, `server-omni.cpp`) | the active session, `octx_mutex`, the shared `omni_context`, `text_queue` | init, input, poll, cleanup, HTTP close, disconnect | session looked up and used after a wait; text stream shared by successive decodes; close from another thread | the active session owns the context; a reply is whole; abandoned handlers and closes end |
| Speech path (TTS thread, token2wav thread) | two queues, `slide_last_was_listen`, `token_buffer`, `break_event` | push, chunk, flush, finish, window, break, joins | end marks travel behind data through two queues; overlapping windows; a bounded queue whose waiter looks at no stop flag | a turn is heard to its end; windows tile the stream; the joins should come back, and may not |
| KV cache (`llama-kv-cache.cpp`, `llama-kv-cells.h`) | cells, used set, `seq_pos`, pending shifts and stream copies, heads | `seq_rm/cp/keep/add/div`, `clear`, `prepare`, `apply_ubatch`, update | a batch is placed on trial and taken back; keys are rotated later than positions move | the books agree; a key stands where its cell says |
| CPU thread pool (`ggml-cpu.c`) | `n_graph`, barrier counters, `current_chunk`, `abort`, `pause`, `stop` | kickoff, poll, sleep, node loop, barrier, pause, resume, free | lock-free epochs, a reset between two barriers, abort seen at different nodes | no node before its predecessors; every graph and every free returns |
| Server task queue (`server-queue.cpp`, slots of `server-context.cpp`) | `queue_tasks`, deferred, waiting ids, results, slots | post, defer, pop, launch, release, cancel, sleep, wake | one condition variable for two purposes; a task moves under three locks | a task is in one place; every request is answered |
| Simplex path (`llm_thread_func`, old `stream_decode`) | `llm_thread_info` queue, `prefill_done` | prefill, batch, decode | a process-wide flag written by two threads | a decode waits for its own prefill |
| Protocol codec, encoders, vocoder, VoxCPM2, models, samplers, other ggml backends, common, conversion, clients | - | - | sequential code or numerics | - |

The hazards of this code, each at its line and with the properties that catch
it, are listed in `PROJECT.json` under `hazards`.

## 2. The plan

1. `DuplexPipeline`, `FrameTurns`. **Done**, proved.
2. `DuplexSession`, composed with the pipeline. **Done**, safety proved.
3. `ContextWindow`. **Done** for duplex sessions, safety proved. Open: the simplex
   branch of the slide, `clean_kvcache`, failures of a prefill batch, window and
   slide both active in one run.
4. `BackendSession`. **Done** for full-duplex connections, safety proved.
   Open: turn-based inputs; a composition with the pipeline's bounded queues
   (`octx_mutex` held by a blocked `duplex_prefill`).
5. `SpeechPipeline`, `ServerQueue`, `GgmlThreadpool`. **Done**, safety proved.
6. `KvCache` and `KvStore`. **Done**, proved: books, keys and the refinement.
7. Open: `SimplexTurn` (the `prefill_done` handshake, batching, `need_speek`);
   the MoE expert slot cache of `llama-moe-slot.cpp`; parent and child tasks and
   partial results of the task queue.

Modules that carry proofs use no recursive operators (a recursion over a sequence is
a recursive function, as `Kept` of `ServerQueue` or `TotalLength` of
`ContextWindow`); constants have named, weak
assumptions; invariants are conjunctions of named parts.

## 3. The modules

A wait on a condition variable whose notifier may not hold the mutex is three
states of the waiting thread: `"awake"` (or the place of its test), `"drowsy"`
(the predicate was false and the thread still holds the mutex) and `"asleep"`. A
notification wakes sleepers only, so one sent in the drowsy state is lost, as in
C++. Where every notifier holds the mutex, test and sleep are one step.

### DuplexPipeline, FrameTurns

Threads `sub` (a caller of `duplex_prefill`), `enc`, `llm`, `dec` (a caller of
`duplex_decode`), and the control thread that starts and stops the pipeline. An
action is one critical section, or one access to an atomic between two of them,
in the code's order. So `PrefillPush` and `PrefillCount` are two actions, because
`in_flight_prefill` is raised after the lock is released.

Two client disciplines: `Pipelined = TRUE` is the duplex session (prefill may run
ahead of decode), `FALSE` the WebSocket handler (prefill, then decode, then the
next input). `SkipDecode` is an input with `force_listen`, which prefills and
does not decode. `RaiseBreak` and `ClearBreak` are the writers of `break_event`.
Frame `n` is the n-th accepted prefill; round `r` the decode its caller means for
frame `r`; `seen[r]` records how many frames were in the KV cache when round `r`
ran.

`FrameTurns` is what the comment at 10102-10110 promises: frame, decode, frame,
decode, each decode on exactly the frames so far. `TurnTaking` is the refinement.
It and `DecodeSeesOwnFrame` speak of a pipeline that was not disturbed
(`Undisturbed`): they end at the first break, which drops packets, and at the first
skip, behind which every decode takes the packet before its own.

### DuplexSession

EXTENDS `DuplexPipeline` and drives its `CallPrefill` and `CallDecode` through the
two workers. `PushDrawId`, `PushFrame` and `PushCount` are the three steps of
`push_frame`; `DecoderReport` and `DecoderUncount` the two of a result. Sessions
may begin again on the same pipeline; `base` is the number of frames of earlier
sessions, so that the pipeline's frame numbers go on while session ids restart.
`text` is the round whose text is in `text_queue`. The caller may raise a break at any
moment and keep the session. `PipelineClient` says that
what a session does to the pipeline is what `DuplexPipeline` lets a client do.

Three branches of the code cannot be taken or are left out. A prefill does not fail
(11502) and a push is not refused (11591), since the caller joins its producer before
it ends the session and the pipeline is stopped only behind the session. A session that
begins on a running pipeline sends its chunk 0 into the queue of the simplex LLM thread
(10583-10640); that thread does not run, and the model leaves the chunk out.

### ContextWindow

The KV cache is a sequence of tokens; `n_past` is its length. A token carries a
serial number, the turn and the unit it was written for. `Without` is a pair of
`llama_memory_seq_rm` and `llama_memory_seq_add`. A prefill is one or more pieces
between the registration of a unit's start and end; a decode samples tokens one
by one; before each write `SlideDue` may evict, as `eval_tokens` and
`prefill_with_emb` do. `setup` is the configuration of a behaviour (window mode,
water marks, reserves), drawn once from `Setups`; `MCContextWindow` gives three
of them, the forced slide alone, the unit window and the turn window, which run
between a prefill and its decode. A sampled token that speech does not use is
written and not counted (9924), as often as the bound lets it; a sampling call that
returns nothing (9936) is not modelled.

### BackendSession

One handler per connection. A session has the name of the connection that opened
it. Handler places follow the code from `session.init` to cleanup; a critical
section of `octx_mutex` in which threads are joined is two actions (begin, end)
with `lock` held between them. Of the context the model keeps for which session
it was reset (`outputDir` is `base_output_dir`), whether the duplex pipeline
runs, and which sessions' inputs that pipeline accepted (`fed`). The text queue
is modelled fragment by fragment, with the LLM thread's pushes and the handler's
poll loop as separate steps. A decode that finds no pipeline takes the old path
of `stream_decode` (`DecodeFallsBack`): it waits for the process-wide flag
`prefill_done`, samples in the decode thread itself, and the next one waits for
ever.

Two steps of the code can fail to reach the thread they are for, and the model has both
outcomes of each. `LlmAnswer` and `DecodeFails` stand for a notification outside
`llm_mtx`: the caller returns, or it sleeps on (`"missed"`) until something notifies
again. `StopPipe` is `duplex_stop_threads`: the joins end once the LLM thread is idle,
or never (`stranded`), because a thread missed the stop (9334-9337) or because the LLM
thread waits for room in the TTS queue (10040). That wait itself is in
`SpeechPipeline`, where `LlmJoins` shows how it strands; here it is one choice at the
stop.

### SpeechPipeline

The LLM thread's pushes into the TTS queue (`MAX_QUEUE_SIZE`, 1 in the code), the
TTS thread (`TtsTake`, flush of the turn's tail, finish), and the token2wav thread,
which collects tokens in `token_buffer`, feeds the vocoder windows of `CHUNK_SIZE`
plus `PRE_LOOKAHEAD` tokens and keeps the overlap. A turn ends with a chunk marked
`fin` and, when the model listens, `eot`; the mark travels through both queues.
Audio tokens are numbered; `spoken` is the stream the vocoder was fed without the
shared parts, `ended` the last turn whose `generation_done` was written.
`break_event` is raised by the server and lowered by whoever comes first. `stage`
follows the three joins of `omni_prepare_for_reuse`.

Left out are the paths on which the TTS thread passes over what it took: text without a
character or a token to speak (6428, 6453), hidden states of the wrong size (6528, 6535),
and a chunk of special tokens only, given up together with the end mark it carries (6546),
after which `generation_done` is not written for its turn. `TurnHeard` and `DoneComplete`
speak of chunks that have something to say.

### ServerQueue

Three kinds of threads: requests (HTTP threads), the loop thread, and nothing
else. A request wakes the server if it sleeps, registers its ids, posts its
tasks, polls, and stops (which posts cancels). The loop takes a task, launches it,
defers it or cancels one, then walks the slots (`visit`); `leaving` is the slot
between its result and its release, which pops a deferred task. A completion
outlives a bounded number of `update_slots` calls. An action on a slot (save, restore,
erase) succeeds when the slot is idle, or is refused with an error.

### KvCache, KvStore

`cells[st][i]` is a cell of `llama_kv_cells` in stream `st`: its position, pending
shift and sequences, and for the properties the token it is for. `Rewrite` is the
one way in which `pos_set`, `seq_add`, `seq_rm`, `rm`, `pos_add` change the books
`used` and `count` (`seq_pos`): old positions of the hit cells out, new ones in.
Sequence calls are one action each. `llama_decode` is a sequence of phases:
pending stream copies, the pending shift, the trial placement of every micro-batch
(`prepare`), the restoration in reverse order, and the computation of each
micro-batch, which may fail. `data` is the key buffer: for which token and for
which position its content was rotated. `find_slot` is the non-contiguous search
from the head on.

`KvStore` is what `llama.h` promises: streams of tokens with a position and a set
of sequences. `ImplementsStore` maps the cells to it; while a batch is on trial
the cells before the trial are mapped, so that the promise contains that trying
changes nothing. Not in `KvStore` is the sentence of `llama.h` that all positions
between the least and the largest of a sequence are present (775, 782): a caller
that removes a range in the middle makes it false.

The batches are those of `Groups`: the tokens of a micro-batch share one set of
sequences in each stream, start at 0 in an empty cache and have consecutive positions.
`llama-batch.cpp` also accepts another first position for an empty sequence (295-314),
positions that repeat (360-383), and unified micro-batches that mix sets of sequences
(474-505). Also left out: a shift whose computation fails (`llama-kv-cache.cpp:801-808`)
and the assertion that a copied cell's position without its shift is not negative (478).

### GgmlThreadpool

`ggml-cpu.c` built without OpenMP. Thread 0 is the caller of
`ggml_graph_compute`. Each access to an atomic is one step; a critical section of
the pool's mutex is one step. The barrier is its two counters (`nBarrier`,
`nPassed`) with the epoch a thread read on entry (`mine`); `work` counts how often
each piece of each node was computed in the present graph. `n_graph` holds the
graph number and the number of threads. Nodes are `plain` (one piece per thread),
`chunked` (`mul_mat` with its shared counter) or skipped.

## 4. The runs

| Run | Instance | Distinct states | Properties |
|---|---|---|---|
| `duplex_break` | queues of 1 and 2, 3 frames, 1 skipped decode, 1 break, alternating client, stop | 58 811 | `InFlightExact FramesInOrder AnsweredOnce RequestAnswered` |
| `session_frames` | all queues of 1, 3 frames over 2 sessions, 1 break, stop | 1 306 307 | `ResultsInOrder EndDrains ResultIsOwn DecodeSeesOwnFrame PipelineClient TurnTaking` |
| `context` | three setups: forced slide, unit window, turn window | 1 617 361 | `CacheIsRecent BoundariesExact ContextFits Accounted RoundsStayWhole TurnsDropWhole` |
| `backend_session` | 2 connections, 2 inputs or closes together, 2 fragments | 111 250 | `ContextIsActives ReplyIsWhole DecodersAreActives InputsOwn HandlerEnds CloseReturns` |
| `threadpool` | 3 threads, 3 nodes, 4 chunks, 2 graphs, 1 pause | 143 706 | `NodesInOrder GraphWhole GraphReturns FreeReturns` |
| `kv_cache` | 2 cells per stream, 2 sequences, 3 tokens, 2 calls, batches of 2 | 44 870 | `BooksExact KeysFollow ImplementsStore` |
| `speech` | TTS queue of 1, windows of 2 + 1 tokens, 3 items, 1 break, stop | 372 047 | `WindowsTile DoneComplete TurnHeard` |
| `server_queue` | 1 slot, 3 requests with 4 tasks, 1 failure, 2 sleeps | about 399 000 | `TasksOnce NothingLeft Answered WakersReturn` |

The comment above each property in its module says it in words. Each property is
violated when a definition of the model is changed as a plausible bug would
change the code (`mutants` in `PROJECT.json`; the changed forms carry the comment
`variant` in the modules).

Four runs end in a counterexample; each refutes a sentence of the code's own
comments.

- **`duplex_lost_wakeup` / `DecodeReturns`.** The answer of a decode is stored and
  notified without `llm_mtx` (`omni.cpp:10207`). It can fall between the caller's
  test and its sleep, and nothing notifies again.
- **`speech_stop` / `LlmJoins`.** A close raises `break_event` and then joins the LLM
  thread (`server-omni.cpp:393`, 9340). The TTS thread empties its queue on the break
  (6267-6277) and tells nobody; an LLM thread that waits there for room (10040) sleeps
  on, and the close, "a completion primitive" (`server-omni.cpp:387`), never returns.
- **`backend_listen` / `ListenReported`.** The poll loop (`ws_handler.cpp:1160`)
  pops the listen marker and breaks on the done flag without looking at it. The
  client gets neither a listen delta nor `response.done`.
- **`server_stranded` / `DeferredRuns`.** Only the release of a slot pops a deferred
  task (`server-context.cpp:1105`). When the popped task does not take the slot,
  because its request was cancelled, its launch fails, or it only saves or restores
  the slot, the other deferred tasks stay although every slot is free.

### Why these bounds

*Pipeline and session.* The interesting situations are a full queue in front of and
behind the encoder, a packet in the encoder's and one in the LLM thread's hand, and a
request posted before its packet arrives. Queues of one and three frames reach all of
them: with the two workers of a session, and a caller that pushes ahead, every queue is
full and every hand holds a frame. The code's capacities only make the queues longer;
the proofs hold for every capacity. Two sessions make the restart of frame ids visible.
One break meets every place a thread can be in, since a break leaves no trace but the
dropped packets. In `duplex_break` the client alternates as the handler does; one skip
leaves one surplus packet in the pipeline when the break comes. The properties of an
undisturbed pipeline are checked on the behaviours before that: of `session_frames`,
whose client runs ahead, up to its break.

*Context.* Constants are scaled. In the setup `Rounds`, 12 stands for `n_ctx`, a
slide due five tokens from it for the 2048 of the code, forced two tokens from it
for the 512, a target of three for a quarter of `n_ctx`. What the argument needs is
kept: the pieces are not longer than the forced reserve, and a speak chunk does not
fit between the slide's trigger and the force. Twenty tokens slide several times,
with and without two boundaries to choose from. In `Units` and `Turns` the context
is out of reach, so that only the window evicts, and no listen is forced (see the
observations below).

*Backend.* Two connections are one closed and one that follows it. Two calls are two
inputs, of the same or of successive connections, or one input and one close at any
moment of its handling; longer queues of connections repeat these pairs. `HandlerEnds`
and `CloseReturns` name what the code does not give: a decode that missed its
notification or waits for the simplex LLM thread (`DecodeHangs`), and a stop whose join
does not end (`stranded`).

*Thread pool.* Three threads are the smallest pool in which two can be on different
sides of a barrier while the third is elsewhere. A second graph meets workers that
have not yet left the first one's last barrier, with a different number of threads;
the skipped node shifts the barriers against the node numbers, and four chunks over
two per thread make threads compete for the counter. One pause falls anywhere.

*KV cache.* Two cells per stream make every second batch meet a full stream, so
that trials fail half way and are restored. Two sequences share cells in the unified
case and copy streams in the other; one call before and one after the batch, or two
before it, put a shift on top of a pending copy and the reverse. Divisor 2 and
deltas of one reach the clipping at position 0.

*Speech.* A TTS queue of one is the code's `MAX_QUEUE_SIZE`. With windows of two
tokens, three per text and tails of zero or two, the last window of a turn is empty,
short or full. Three items are a turn of two chunks and a second turn, or three
turns that end at once. The same instance lets a break empty the queue while the LLM
thread waits for room and a stop follow it (`speech_stop`).

*Server queue.* One slot, two competing completions and a request that mixes a slot
action with a completion defer, cancel and pop in every order. Two sleeps separate
a request woken in time from one woken when the loop already sleeps again.

### Fairness

There is weak fairness only: the operating system schedules runnable threads, and no
lock is assumed fair.

- `DuplexPipeline`: each thread that can run does, a thread whose test failed falls
  asleep, `StopEnd` follows once the joins can return, and the caller of
  `duplex_decode` posts the rounds it owes (each caller's loop does).
- `BackendSession`: handlers, decode threads, the LLM thread and the HTTP thread. A
  poll that finds nothing is a step, so that a spinning handler does not count as
  progress of the LLM thread. Weak fairness is enough for `octx_mutex` because each
  competitor takes it a bounded number of times in the run.
- `GgmlThreadpool`: `Kickoff` and `FreeEnd` once called, each worker, and each
  thread's way through the graph. A spinning thread takes steps; it does not move
  the others.
- `ServerQueue`: the loop thread and each request thread. `SpeechPipeline`: the
  three threads and the stop once it has begun.

Clients owe nothing: nobody is forced to prefill, break, stop, close, post a graph,
pause, or wake a server. Every run sets `CHECK_DEADLOCK FALSE` because each bounded
system does come to rest: all frames used, all connections gone, the token budget
spent, the pool freed. Progress is checked by the liveness properties instead.

## 5. The proofs

Checked by TLAPS, for all values of the constants that the named assumptions of the
modules allow (`CapAssumption`, `BoundAssumption`, `ModeAssumption`,
`PendingAssumption` and so on). A further condition, where a theorem has one, is an
ASSUME in its statement.

| Module | Theorem | Property | Condition |
|---|---|---|---|
| `DuplexPipelineProofs` | `TypeCorrect` | `TypeOK` |  |
| `DuplexPipelineProofs` | `CounterExact` | `InFlightExact` |  |
| `DuplexPipelineProofs` | `StrictPairing` | `DecodeSeesOwnFrame` |  |
| `DuplexPipelineProofs` | `ImplementsTurns` | `TurnTaking` (refinement) |  |
| `DuplexPipelineProofs` | `RequestsKept` | an open request is in one place |  |
| `DuplexPipelineProofs` | `AnswersFinal` | `AnsweredOnce` |  |
| `DuplexPipelineProofs` | `FramesKeepOrder` | `FramesInOrder` |  |
| `DuplexSessionProofs` | `ClientOfPipeline` | `PipelineClient` (composition) |  |
| `DuplexSessionProofs` | `OutstandingCount` | `in_flight` is exact |  |
| `DuplexSessionProofs` | `ResultsKeepOrder` | `ResultsInOrder` |  |
| `DuplexSessionProofs` | `EndIsEmpty` | `EndDrains` |  |
| `DuplexSessionProofs` | `ResultsOfOwnFrame` | `ResultIsOwn` |  |
| `ContextWindowProofs` | `TypeCorrect` | `TypeOK` |  |
| `ContextWindowProofs` | `Recent` | `CacheIsRecent` | `WindowAlone` |
| `ContextWindowProofs` | `BoundariesHold` | `BoundariesExact` |  |
| `ContextWindowProofs` | `RoundsKeptWhole` | `RoundsStayWhole` |  |
| `ContextWindowProofs` | `FitsWithRoom` | `ContextFits` | `Roomy` |
| `ContextWindowProofs` | `BooksBalance` | `Accounted` | `WindowAlone`, `AllRegistered` |
| `ContextWindowProofs` | `TurnsDroppedWhole` | `TurnsDropWhole` | `WindowAlone`, `AllRegistered` |
| `BackendSessionProofs` | `ContextOwned` | `ContextIsActives` |  |
| `BackendSessionProofs` | `DecodersOwned` | `DecodersAreActives` |  |
| `BackendSessionProofs` | `InputsOwned` | `InputsOwn` |  |
| `BackendSessionProofs` | `RepliesWhole` | `ReplyIsWhole` |  |
| `SpeechPipelineProofs` | `TypeCorrect` | `TypeOK` |  |
| `SpeechPipelineProofs` | `OneStream` | `WindowsTile` |  |
| `SpeechPipelineProofs` | `MarkedWhenFed` | `DoneComplete` |  |
| `KvCacheProofs` | `TypeCorrect` | `TypeOK` |  |
| `KvCacheProofs` | `BooksAgree` | `BooksExact` |  |
| `KvCacheProofs` | `KeysInPlace` | `KeysFollow` | failing groups have one sequence |
| `KvCacheProofs` | `StoreImplemented` | `ImplementsStore` (refinement) |  |
| `GgmlThreadpoolProofs` | `TypeCorrect` | `TypeOK` |  |
| `GgmlThreadpoolProofs` | `InOrder` | `NodesInOrder` |  |
| `GgmlThreadpoolProofs` | `GraphsWhole` | `GraphWhole` |  |
| `GgmlThreadpoolProofs` | `Once` | no piece is computed twice |  |
| `GgmlThreadpoolProofs` | `Meets` | a barrier releases threads that wait at it |  |
| `ServerQueueProofs` | `TypeCorrect` | `TypeOK` |  |
| `ServerQueueProofs` | `Once` | `TasksOnce` |  |
| `ServerQueueProofs` | `Nothing` | `NothingLeft` |  |
| `ServerQueueProofs` | `KeptUntilRead` | no task and no result is lost |  |

Some properties themselves end at an event: `InputsOwn`, `DecodersAreActives` and
`ReplyIsWhole` at the first HTTP close, `DoneComplete`, `ResultIsOwn` and one clause of
`EndDrains` at the first break, `DecodeSeesOwnFrame` and `TurnTaking` at the first break
or skip. Every invariant and every action
property of the passing runs, and both refinements, are stated by one of these theorems.

**Types of the pipeline.** `TypeOK` is not inductive: that the encoder appends a
frame, and not 0, to `prefill_queue` follows from its place in the loop. `LocalOK`
says for each place of each thread what its local variables hold; `TypeInv ==
TypeOK /\ LocalOK` is inductive.

**The counter.** `FlightInv` extends `InFlightExact` from `Running` to the time
before the start. A break lowers the counter by what it removed. During a stop it is
false, since the encoder drops its packet without lowering the counter, which is why
the property speaks of a running pipeline.

**The pairing.** `DecodeSeesOwnFrame` needs the whole pipeline: `OrderInv` (the
frames between the KV cache and the last push are consecutive, queue by queue),
`CacheInv` (the cache is 1, 2, ... and a decode saw its own frame last), `LlmInv`
(the LLM thread's request against the length of the cache at each place of its loop)
and `RoundInv` (a request is posted, taken or answered, and between decodes the cache
holds exactly the rounds handled). The critical step is `LlmRoute`: a decode whose
packet has not arrived must wait rather than run, and the counter's exactness makes
that decision right although the counter is read without a lock, since the frame of
the posted round was counted before its decode could be called. These invariants
hold as long as the pipeline is undisturbed, which no step restores (`UndisturbedBefore`),
so that they carry over to the step that disturbs it and are void behind it.

**The refinement.** A step either leaves `kv` and `seen` alone or is `LlmPrefill` (a
`WriteFrame`) or `LlmDecode` (a `DecodeRound`). `SeenInv` supplies the guard of
`WriteFrame`: every frame in the cache has been decoded when the next one is written.

**Order under breaks and skips.** `OwnInv` and `OpenInv` follow a request from its
posting to its answer, also through the break that answers it from another place of
the loop. `LineInv` says that cache, hands and queues, read in a line, rise without
repetition; a break cuts a piece out of the line (`RisingCut`), and what is left
still rises.

**The session.** `SessionInv` joins the pipeline's invariant with the places of the
two workers (`PlaceOK`), what a session's life implies (`LifeOK`: an ending session
is empty, because the counter that end polls is exact and a sum of lengths is zero
only if each is), the numbering of the frames from queue to queue (`FramesInv`),
the pipeline's counters against the session's queues (`TallyInv`), and the counter
(`CountInv`). `ClientOfPipeline` shows that every step of the composed system is a
step of `DuplexPipeline` or leaves it alone, so every theorem about the pipeline
holds of a session's pipeline; `ResultsOfOwnFrame` uses that: the text in the queue
is of the last decode (`OwnTextInv`), and the pairing says which frames that saw.

**The context.** `FlowInv` types each phase of a step. Every action is then one of four
kinds, as `StepKinds` states: a write, a slide, a drop of whole units, or nothing that
touches the cache; each invariant is preserved kind by kind. `Recent` holds as long as only
the window evicts while a window is on (`WindowAlone`): a slide cuts behind `n_keep`, which
lies in front of what the window protects (968). `BoundariesHold` follows `round_start_positions`
through `Carried`: a slide moves the boundaries behind its cut by as much as it moves the
tokens and forgets the others. `FitsWithRoom` needs a configuration as the code means it
(`Roomy`): the kept part ends below the mark where a slide is forced, and no piece is longer
than the reserve. The code sets `target_keep` and the reserves so (a quarter of `n_ctx`, 2048
and 512) and compares no piece with them. The invariant `Room` says when a deferred slide may
leave the cache above the mark: only when one boundary at most is left, and then the next
slide cuts by length. `BooksBalance` and `TurnsDroppedWhole` rest on `Books`: the units of
`unit_history` lie one behind the other in the cache, the open unit behind them, and their
turns only grow; so the units of the oldest turn are the first ones, and dropping them all
removes exactly that turn's tokens. A forced listen breaks this (9857), hence `AllRegistered`.

**The backend.** `OwnerInv` relates the manager's session, the holder of `octx_mutex` and the
place of each handler; the rest follows per action. For `RepliesWhole`, `DecodeText` counts:
what the handler has sent, what it holds and what lies in `text_queue` are together the
fragments that the decode has made, in order, and the done flag is raised only behind the
last. That the next input clears a stream nobody writes to any more is `DecodersOwned`.

**The speech path.** What was fed, the buffer behind its lookahead and the tokens in the queue
of token2wav are one run of consecutive numbers that ends with the last token made
(`StreamInv`; a break may cut pieces off its front). `OrderInv` and `ClosedInv` say that turns
only grow along the TTS queue, so that a turn that is marked as ended gets no more tokens;
`MarkInv` adds that all its tokens are in what the marked window feeds. `WindowAssumption`
asks that the lookahead be no longer than a window (3 and 25 in the code, 8895-8897): else the
overlap would not lie in the window before.

**The KV cache.** The books change in one way, `Rewrite`: positions of the hit cells
leave `seq_pos`, new ones enter. The lemma about it counts them out and in and gives
the exactness of `used` and `count` for every call at once. The trial keeps the
overwritten cells; `EntryOK` says that what will be put back is well formed, so that
the restoration is again a `Rewrite`. The maximum of `seq_pos` that `seq_pos_max`
reads exists because the positions are a finite set. For the keys the invariant
follows the buffers through the pending stream copies (`Chain` names the buffers after
each of them) and says which cells a trial has changed (`TrialOK`: each cell by
at most one entry, so that the reverse restoration returns exactly the origin). The
condition on failing groups is needed; see the last observation.

*The refinement* (`StoreImplemented`). A token is a used cell's. A call changes the tokens of
its stream as the store says because it changes each cell so (`StreamEdit`), and a trial
changes nothing visible. What needs an argument is the run: it writes what the trial computed,
after everything was taken back. `FreshOK` says of each entry not yet computed that its cells
are free, and its positions behind those of its sequences, both in the cells as they are now
and in the entries before it. `RowsOK` says that an entry has consecutive positions, the same
number in every stream: `find_slot` numbers the free cells by their distance from where the
search starts, no two cells are at the same distance around the ring (`DistanceUnique`), so
that the numbering is a bijection (`Ranking`) and the first n of them are a row (`PlacedRow`).
A failed micro-batch leaves its row to the sequences that the removal does not reach, or
nothing; no condition on the groups is needed for this.

**The thread pool.** All threads of a graph come to the same barrier next (`Together`): `Gate`
computes, from a thread's place, node and epoch, the next barrier on its way through the node
loop, skipped nodes and abort included. `BarrierOK` ties `n_barrier` to the threads inside, also
between its reset and the release; `AbortOK` says that an abort is seen by all threads at one
node although they read it at different times. `WorkOK` says of each piece of each node whether
it has been computed, from the places of the threads alone, and `ChunkOK` that the chunks
below the counter are in one hand each. `NodesInOrder`, `GraphWhole`, `Once` and `Meets` are
read off this invariant.

**The task queue.** A task is live in the queue, among the deferred, in the loop's hand or in a
slot, or its result is sent; `OnceOK` keeps these apart. `CountAt` adds up: what a request has
received, its live tasks and its unread results are all of its tasks as long as it receives.
So a request that has received everything leaves nothing behind, and one that cancels erases
its ids before a later result could be kept (`WaitAt`). `Kept`, the `remove_if` of the cancel
and of the receipt, is a recursive function; `KeepsExists` shows that it is defined for every
sequence.

**Only model checked.** The liveness properties, because the proof system does not treat
fairness: `RequestAnswered`, `HandlerEnds`, `CloseReturns`, `GraphReturns`, `FreeReturns`,
`TurnHeard`, `Answered`, `WakersReturn`.

## 6. Not modelled

`components` in `PROJECT.json` lists every part and what of it is left out. In
short: the numerics (encoders, graph construction, sampling, vocoder, kernels of
ggml, which are most of the repository's lines), parsing and formatting, the
inherited HTTP front end and router, offline tools, and clients. Of the modelled
parts: turn-based inputs and audio deltas of a backend session; the endpoints under
`/v1/stream` that address the same context without a session; the simplex LLM
thread; in the speech path the TTS model's own KV cache and the handshake by
`speek_done`, `chunk_idx`, the Python vocoder, failures of a window; in the task
queue `terminate`, partial results, parent and child tasks, metrics; in the KV cache
state save and load, the interleaved window (`iswa`) and recurrent memories,
contiguous slots, multi-dimensional positions; lifetimes of C++ objects and failures of
allocation.

### Observations

What follows was met while modelling and is not the subject of a run; where a property
or a theorem makes an exception, this is the reason.

- *Skipped decodes.* After an input with `force_listen` (`ws_handler.cpp:1122`)
  every later decode takes the packet of the input before its own;
  `DecodeSeesOwnFrame` and `TurnTaking` end there.
- *Close beside a decode.* A close (`server-omni.cpp:387`) joins the pipeline's
  threads but not a caller inside `duplex_decode`, and a handler that waits for
  `octx_mutex` does not look its session up again (`ws_handler.cpp:1105`): its input
  enters the next session's pipeline. `InputsOwn`, `DecodersAreActives` and
  `ReplyIsWhole` speak of executions without a close.
- *Forced listen with a window.* The two tokens of a forced listen (9857) are
  written before a unit is registered for them, so that the consistency check of the
  window fails from then on. The window is off by default.
- *The other joins.* `omni_prepare_for_reuse` clears the flags of the TTS and
  token2wav threads without their mutexes (4688-4702), as it does `running`: a thread
  between its test and its sleep misses the stop and its join does not end.
- *Turn ends.* When a turn ends on the chunk limit, `slide_last_was_listen` stays as
  it was; token2wav may merge the end marks of several turns that wait in its queue,
  and may write one twice. `TurnHeard` asks for a mark of this turn or a later one.
- *Task posted to a sleeping server.* It wakes nobody (`Answered` excludes it; the
  server's README, line 1782, makes waking the requests' own step). A request that is told to go on
  when the loop has already gone to sleep again waits once more without asking
  again (`WakersReturn` stops at the second sleep). A cancel that arrives while the
  loop holds the task in its hand misses it. `recv_with_timeout` starts its timer
  anew at every notification.
- *`pos_div`.* The sign of the shift that `pos_div` adds (`llama-kv-cells.h:442-457`)
  is the opposite of the one of `pos_add`, so that the pending rotation moves a
  divided key away from its position. The model follows the code, and `KeysFollow`
  leaves divided positions out.
- *A failed micro-batch with shared tokens.* The comment at
  `llama-context.cpp:1979` speaks of removing all positions of the micro-batch; the
  code removes those of each token's first sequence, so that a token shared by
  sequences stays in the others with a key that was never computed. `KeysInPlace`
  assumes, and the run's `Failing` is, groups of one sequence.
