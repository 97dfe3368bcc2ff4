--------------------------- MODULE SpeechPipeline ---------------------------
(***************************************************************************)
(* The speech path of a duplex session: the LLM thread puts chunks of text  *)
(* into the TTS queue, the TTS thread turns them into audio tokens for the  *)
(* token2wav thread, and that thread feeds a sliding window to the vocoder. *)
(* break_event is raised by the server and lowered by whoever comes first:  *)
(* token2wav or the next decode.  omni_prepare_for_reuse joins the LLM      *)
(* thread, then TTS, then token2wav.                                        *)
(*                                                                          *)
(* A wait on a condition variable is a test ("push", "test"), the state     *)
(* between a false test and sleep ("drowsy", the mutex still held) and sleep *)
(* ("asleep"), as in DuplexPipeline.                                        *)
(***************************************************************************)
EXTENDS Integers, Sequences, FiniteSets, SequencesExt

CONSTANTS
    MaxQueue,    \* TTSThreadInfo's MAX_QUEUE_SIZE, 1 in the code
    Chunk,       \* CHUNK_SIZE: tokens the vocoder advances by
    Look,        \* PRE_LOOKAHEAD: tokens that a window shares with the next
    PerText,     \* audio tokens of a chunk of text inside a turn
    Tails,       \* audio tokens there may be when the text of a turn ends
    MaxItems,    \* bound: chunks of text, and breaks while serving, together
    MaxBreaks    \* bound: breaks

ASSUME QueueAssumption  == MaxQueue \in Nat \ {0}
ASSUME WindowAssumption == Chunk \in Nat \ {0} /\ Look \in 1..Chunk /\ PerText \in Nat \ {0}
                           /\ Tails \subseteq Nat /\ Tails # {}
ASSUME BoundAssumption  == MaxItems \in Nat /\ MaxBreaks \in Nat

VARIABLES
    brk,         \* break_event
    pc,          \* where each thread is
    stage,       \* how far omni_prepare_for_reuse has come
    turn,        \* the turn it is generating
    listened,    \* slide_last_was_listen
    queue,       \* the TTS queue
    tts,         \* the TTS thread's chunk, llm_finish and turn_eos_flushed
    t2w,         \* the token2wav queue
    feed,        \* what token2wav took: final, turn
    buffer,      \* token_buffer
    window,      \* the window fed last
    spoken,      \* the tokens fed so far, without the shared ones
    ended,       \* the last turn whose generation_done was written
    turnOf,      \* turnOf[n]: the turn of the n-th audio token
    items,       \* chunks of text so far
    breaks       \* breaks so far

llmVars == <<turn, listened, items>>
ttsVars == <<queue, tts>>
vocVars == <<feed, buffer, window, spoken, ended>>
vars == <<brk, pc, stage, llmVars, ttsVars, t2w, vocVars, turnOf, breaks>>

Threads == {"llm", "tts", "t2w"}
Window  == Chunk + Look
Silence == [i \in 1..Look |-> 0]
NoItem  == [turn |-> 0, words |-> FALSE, fin |-> FALSE, eot |-> FALSE]
Awake   == [llm |-> "push", tts |-> "test", t2w |-> "test"]

Init ==
    /\ brk = FALSE
    /\ pc = [llm |-> "idle", tts |-> "top", t2w |-> "top"] /\ stage = "serving"
    /\ turn = 1 /\ listened = TRUE /\ items = 0 /\ breaks = 0
    /\ queue = <<>> /\ t2w = <<>> /\ turnOf = <<>>
    /\ tts = [item |-> NoItem, fin |-> FALSE, flushed |-> FALSE]
    /\ feed = [final |-> FALSE, turn |-> 0]
    /\ buffer = Silence /\ window = <<>> /\ spoken = <<>> /\ ended = 0

TtsRunning == stage \in {"serving", "llm"}
T2wRunning == stage \in {"serving", "llm", "tts"}

\* pc with t at place l and the sleepers among who awake
Moved(t, l, who) == [x \in Threads |-> IF x = t THEN l
                                       ELSE IF x \in who /\ pc[x] = "asleep" THEN Awake[x] ELSE pc[x]]
Goto(t, l) == pc' = Moved(t, l, {})

\* the TTS mutex can be had; the token2wav one is only waited for by token2wav
TtsFree == pc["llm"] # "drowsy" /\ pc["tts"] # "drowsy"
T2wFree == pc["t2w"] # "drowsy"

FallAsleep(t) == /\ pc[t] = "drowsy" /\ Goto(t, "asleep")
                 /\ UNCHANGED <<brk, stage, llmVars, ttsVars, t2w, vocVars, turnOf, breaks>>

-----------------------------------------------------------------------------
(***************************************************************************)
(* The LLM thread: duplex_do_decode.                                        *)
(***************************************************************************)
\* what the bound leaves: a decode that began can always end
Left == MaxItems - items - breaks

LlmLeaves == UNCHANGED <<stage, ttsVars, t2w, vocVars, turnOf, breaks>>

DecodeBegin ==
    /\ pc["llm"] = "idle" /\ stage = "serving" /\ Left > 0
    /\ brk' = FALSE
    /\ Goto("llm", "sample")
    /\ LlmLeaves /\ UNCHANGED llmVars

\* the forced listens that open a session
ForcedListen ==
    /\ pc["llm"] = "idle" /\ stage = "serving" /\ items = 0
    /\ brk' = FALSE /\ listened' = TRUE
    /\ LlmLeaves /\ UNCHANGED <<pc, turn, items>>

\* a sampling loop ends with text, an end token or both
Sampled ==
    /\ pc["llm"] = "sample"
    /\ Goto("llm", "push")
    /\ LlmLeaves /\ UNCHANGED <<brk, llmVars>>

SampleBreak ==
    /\ pc["llm"] = "sample" /\ brk
    /\ Goto("llm", "idle")
    /\ LlmLeaves /\ UNCHANGED <<brk, llmVars>>

\* waits for room, whatever is raised or stopped meanwhile
NoRoom ==
    /\ pc["llm"] = "push" /\ TtsFree /\ Len(queue) >= MaxQueue
    /\ Goto("llm", "drowsy")
    /\ LlmLeaves /\ UNCHANGED <<brk, llmVars>>

\* What was sampled goes to the TTS thread, and with it the end of the decode (fin) and of
\* the turn (eot); nobody sees it before, so it is chosen here.
PushText(words, fin, eot) ==
    /\ pc["llm"] = "push" /\ TtsFree /\ Len(queue) < MaxQueue /\ Left > 0
    /\ queue' = Append(queue, [turn |-> turn, words |-> words, fin |-> fin, eot |-> eot])
    /\ items' = items + 1
    /\ turn' = IF eot THEN turn + 1 ELSE turn
    /\ pc' = Moved("llm", IF fin THEN "idle" ELSE "sample", {"tts"})
    /\ UNCHANGED <<brk, stage, tts, t2w, vocVars, turnOf, breaks>>

\* turnEos: one of turn_eos, tts_eos and eos was sampled on the way
MoreText(turnEos) == Left > 1 /\ PushText(TRUE, FALSE, turnEos) /\ UNCHANGED listened
ChunkEos(words, turnEos) == PushText(words, TRUE, turnEos) /\ listened' = FALSE
ChunkLimit(turnEos) == PushText(TRUE, TRUE, turnEos) /\ UNCHANGED listened

\* a listen token after speech ends the turn
ListenEnds(turnEos) == turnEos \/ ~listened
Listen(words, turnEos) == PushText(words, TRUE, ListenEnds(turnEos)) /\ listened' = TRUE

LlmStep ==
    \/ Sampled \/ SampleBreak \/ NoRoom \/ FallAsleep("llm")
    \/ \E e \in BOOLEAN : MoreText(e) \/ ChunkLimit(e)
    \/ \E w, e \in BOOLEAN : ChunkEos(w, e) \/ Listen(w, e)

-----------------------------------------------------------------------------
(***************************************************************************)
(* The TTS thread: tts_thread_func_duplex.                                  *)
(***************************************************************************)
TtsLeaves == UNCHANGED <<brk, stage, llmVars, vocVars, breaks>>

\* to the token2wav queue, and on to place l; n new tokens
PushAudio(n, final, l) ==
    LET new == [i \in 1..n |-> Len(turnOf) + i] IN
    /\ T2wFree
    /\ t2w' = Append(t2w, [tokens |-> new, final |-> final, turn |-> tts.item.turn])
    /\ turnOf' = turnOf \o [i \in 1..n |-> tts.item.turn]
    /\ pc' = Moved("tts", l, {"t2w"})

\* on a break the queue is emptied and the state of the turn dropped
TtsBreak ==
    /\ pc["tts"] = "top" /\ TtsRunning /\ brk /\ TtsFree
    /\ queue' = <<>>
    /\ tts' = [tts EXCEPT !.fin = FALSE]
    /\ TtsLeaves /\ UNCHANGED <<pc, t2w, turnOf>>

TtsTop ==
    /\ pc["tts"] = "top" /\ ~(TtsRunning /\ brk)
    /\ Goto("tts", IF TtsRunning THEN "test" ELSE "gone")
    /\ TtsLeaves /\ UNCHANGED <<ttsVars, t2w, turnOf>>

TtsWait ==
    /\ pc["tts"] = "test" /\ TtsFree
    /\ \/ queue = <<>> /\ TtsRunning /\ ~brk /\ Goto("tts", "drowsy")
       \/ brk /\ Goto("tts", "top")
       \/ ~brk /\ ~TtsRunning /\ Goto("tts", "gone")
    /\ TtsLeaves /\ UNCHANGED <<ttsVars, t2w, turnOf>>

\* whoever waits for room is told
Roomy == {"llm"}

\* all that is queued, but nothing behind the end of a turn
Taken == {k \in 1..Len(queue) : \A j \in 1..k - 1 : ~queue[j].eot}
TtsTake ==
    LET n == Cardinality(Taken) IN
    /\ pc["tts"] = "test" /\ TtsFree
    /\ queue # <<>> /\ TtsRunning /\ ~brk
    /\ queue' = SubSeq(queue, n + 1, Len(queue))
    /\ tts' = [tts EXCEPT !.fin = @ \/ \E k \in 1..n : queue[k].fin,
                          !.item = [queue[n] EXCEPT !.words = \E k \in 1..n : queue[k].words]]
    /\ pc' = Moved("tts", "make", Roomy)
    /\ TtsLeaves /\ UNCHANGED <<t2w, turnOf>>

\* a decode ends without words, and the turn goes on
TtsChunkEnd ==
    /\ pc["tts"] = "make" /\ ~tts.item.words /\ ~tts.item.eot
    /\ tts' = [tts EXCEPT !.fin = FALSE]
    /\ PushAudio(0, FALSE, "top")
    /\ TtsLeaves /\ UNCHANGED queue

AfterWordsKept(flushed) == flushed                                    \* variant
\* new words: what was flushed before is another turn's
AfterWords(flushed)  == FALSE
\* generate_audio_tokens_local reports failure when it made no token, even if it has told
\* token2wav that the turn is over
TtsMake(n) ==
    /\ pc["tts"] = "make" /\ tts.item.words
    /\ n \in IF tts.item.eot THEN Tails ELSE {PerText}
    /\ PushAudio(n, tts.item.eot, IF tts.fin THEN "finish" ELSE "top")
    /\ tts' = [tts EXCEPT !.flushed = (tts.item.eot /\ n > 0) \/ AfterWords(@)]
    /\ TtsLeaves /\ UNCHANGED queue

\* the end of a turn without new words, unless it was flushed with the words
TtsFlush(n) ==
    /\ pc["tts"] = "make" /\ ~tts.item.words /\ tts.item.eot
    /\ \/ /\ tts.flushed
          /\ Goto("tts", "finish")
          /\ UNCHANGED <<tts, t2w, turnOf>>
       \/ /\ ~tts.flushed /\ n \in Tails
          /\ PushAudio(n, TRUE, "finish")
          /\ tts' = [tts EXCEPT !.flushed = n > 0]
    /\ TtsLeaves /\ UNCHANGED queue

\* the end of a decode: at the end of a turn token2wav is told, unless it was
TtsFinish ==
    /\ pc["tts"] = "finish"
    /\ tts' = [tts EXCEPT !.fin = FALSE, !.flushed = @ \/ ~tts.item.words]
    /\ IF tts.item.eot /\ tts.flushed THEN Goto("tts", "top") /\ UNCHANGED <<t2w, turnOf>>
                                      ELSE PushAudio(0, tts.item.eot, "top")
    /\ TtsLeaves /\ UNCHANGED queue

TtsStep ==
    \/ TtsBreak \/ TtsTop \/ TtsWait \/ TtsTake \/ TtsChunkEnd \/ TtsFinish \/ FallAsleep("tts")
    \/ \E n \in Tails \cup {PerText} : TtsMake(n) \/ TtsFlush(n)

-----------------------------------------------------------------------------
(***************************************************************************)
(* The token2wav thread: t2w_thread_func_cpp.                               *)
(***************************************************************************)
VocLeaves == UNCHANGED <<stage, llmVars, ttsVars, turnOf, breaks>>

VocBreak ==
    /\ pc["t2w"] = "top" /\ T2wRunning /\ brk
    /\ t2w' = <<>> /\ brk' = FALSE /\ buffer' = Silence
    /\ VocLeaves /\ UNCHANGED <<pc, feed, window, spoken, ended>>

VocTop ==
    /\ pc["t2w"] = "top" /\ ~(T2wRunning /\ brk)
    /\ Goto("t2w", IF T2wRunning THEN "test" ELSE "gone")
    /\ VocLeaves /\ UNCHANGED <<brk, t2w, vocVars>>

VocWait ==
    /\ pc["t2w"] = "test"
    /\ \/ t2w = <<>> /\ T2wRunning /\ ~brk /\ Goto("t2w", "drowsy")
       \/ t2w = <<>> /\ ~T2wRunning /\ Goto("t2w", "gone")
       \/ brk /\ (T2wRunning \/ t2w # <<>>) /\ Goto("t2w", "top")
    /\ VocLeaves /\ UNCHANGED <<brk, t2w, vocVars>>

MoreToFeed(buf, final) == Len(buf) >= Window \/ (final /\ buf # <<>>)

\* everything queued at once, whichever turns it belongs to
VocTake ==
    /\ pc["t2w"] = "test" /\ t2w # <<>> /\ ~brk
    /\ buffer' = buffer \o FlattenSeq([k \in 1..Len(t2w) |-> t2w[k].tokens])
    /\ feed' = [final |-> \E k \in 1..Len(t2w) : t2w[k].final,
                turn |-> LET ends == {k \in 1..Len(t2w) : t2w[k].final}
                         IN  IF ends = {} THEN 0 ELSE t2w[CHOOSE k \in ends : \A j \in ends : j <= k].turn]
    /\ t2w' = <<>>
    /\ Goto("t2w", IF MoreToFeed(buffer', feed'.final) THEN "feed" ELSE "top")
    /\ VocLeaves /\ UNCHANGED <<brk, window, spoken, ended>>

IsLastAlways(len)  == feed.final                                      \* variant
IsLast(len)        == feed.final /\ len <= Window

AdvanceWindow == Window                                               \* variant
\* how far the buffer slides; the two last cases cannot occur
Advance == Chunk
SlideBy(len) == IF IsLast(len) THEN len
                ELSE IF len > Chunk THEN Advance ELSE IF len > Look THEN len - Look ELSE 0

VocWindow ==
    LET len == Len(buffer) IN
    /\ pc["t2w"] = "feed"
    /\ window' = SubSeq(buffer, 1, IF len < Window THEN len ELSE Window)
    /\ spoken' = spoken \o SubSeq(window', Look + 1, Len(window'))
    /\ buffer' = IF IsLast(len) THEN Silence ELSE SubSeq(buffer, SlideBy(len) + 1, len)
    /\ ended' = IF IsLast(len) THEN feed.turn ELSE ended
    /\ Goto("t2w", IF ~IsLast(len) /\ MoreToFeed(buffer', feed.final) THEN "feed" ELSE "top")
    /\ VocLeaves /\ UNCHANGED <<brk, t2w, feed>>

VocStep == VocBreak \/ VocTop \/ VocWait \/ VocTake \/ VocWindow \/ FallAsleep("t2w")

-----------------------------------------------------------------------------
(***************************************************************************)
(* Breaks, and omni_prepare_for_reuse.  Flags are set and condition         *)
(* variables notified without the mutexes.                                  *)
(***************************************************************************)
RaiseBreak ==
    /\ stage = "serving" /\ breaks < MaxBreaks /\ Left > 1
    /\ brk' = TRUE /\ breaks' = breaks + 1
    /\ UNCHANGED <<pc, stage, llmVars, ttsVars, t2w, vocVars, turnOf>>

StopLeaves == UNCHANGED <<brk, llmVars, ttsVars, vocVars, turnOf, breaks>>

StopBegin == stage = "serving" /\ stage' = "llm" /\ StopLeaves /\ UNCHANGED <<pc, t2w>>

LlmGone ==
    /\ stage = "llm" /\ pc["llm"] = "idle" /\ Goto("llm", "gone")
    /\ StopLeaves /\ UNCHANGED <<stage, t2w>>

StopTts ==
    /\ stage = "llm" /\ pc["llm"] = "gone"
    /\ stage' = "tts" /\ pc' = Moved("llm", "gone", {"tts"})
    /\ StopLeaves /\ UNCHANGED t2w

StopT2w ==
    /\ stage = "tts" /\ pc["tts"] = "gone"
    /\ stage' = "t2w" /\ pc' = Moved("tts", "gone", {"t2w"})
    /\ StopLeaves /\ UNCHANGED t2w

StopEnd ==
    /\ stage = "t2w" /\ pc["t2w"] = "gone"
    /\ stage' = "done" /\ queue' = <<>> /\ t2w' = <<>>
    /\ UNCHANGED <<brk, pc, llmVars, tts, vocVars, turnOf, breaks>>

Stopping == LlmGone \/ StopTts \/ StopT2w \/ StopEnd

-----------------------------------------------------------------------------
Next == DecodeBegin \/ ForcedListen \/ LlmStep \/ TtsStep \/ VocStep
        \/ RaiseBreak \/ StopBegin \/ Stopping

Spec == Init /\ [][Next]_vars

\* the threads run; nothing obliges the server to ask for decodes, breaks or a stop
FairSpec == Spec /\ WF_vars(LlmStep) /\ WF_vars(TtsStep) /\ WF_vars(VocStep) /\ WF_vars(Stopping)

-----------------------------------------------------------------------------
(***************************************************************************)
(* Properties.                                                              *)
(***************************************************************************)
LastOf(s, n) == SubSeq(s, Len(s) - n + 1, Len(s))

\* What the vocoder is fed is one stream: a window opens with silence, after the end of a
\* turn or a break, or with the end of the window before it; tokens come in the order they
\* were made, and without a break none is left out or fed twice.
WindowsTile ==
    /\ window # <<>> =>
          LET new    == SubSeq(window, Look + 1, Len(window))
              before == SubSeq(spoken, 1, Len(spoken) - Len(new))
              open   == SubSeq(window, 1, Look)
          IN  /\ LastOf(spoken, Len(new)) = new
              /\ open = Silence \/ open = LastOf(Silence \o before, Look)
    /\ \A i \in 1..Len(spoken) - 1 : spoken[i] < spoken[i + 1]
    /\ breaks = 0 => \A i \in 1..Len(spoken) : spoken[i] = i

\* The generation_done mark of a turn is written when every token of that turn, and of
\* those before it, was fed.
DoneComplete ==
    breaks = 0 => \A n \in 1..Len(turnOf) : turnOf[n] <= ended => n \in 1..Len(spoken)

\* The tokens of turns that ended without being fed, or without the mark of their turn.
Owed == {n \in 1..Len(turnOf) : turn > turnOf[n] /\ ~(n \in Range(spoken) /\ ended >= turnOf[n])}

\* A turn that ends while the session goes on is heard to its end: each token of it is fed,
\* the tail that waits for a full window too, and the mark of its turn is written.
TurnHeard == Owed # {} ~> Owed = {} \/ breaks > 0 \/ stage # "serving"

\* A stop comes back from the join of the LLM thread, whatever was raised before it: close is
\* a completion primitive, which returns once the inference threads are stopped.
LlmJoins == stage = "llm" ~> stage # "llm"
=============================================================================
