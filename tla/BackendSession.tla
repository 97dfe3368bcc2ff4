---------------------------- MODULE BackendSession ----------------------------
(***************************************************************************)
(* Full-duplex sessions of the server (tools/server): the SessionManager,   *)
(* one handle_ws_backend thread per WebSocket connection with its decode    *)
(* thread, the close endpoint, and the omni_context they all share.         *)
(*                                                                          *)
(* A connection and the session it opens have the same name.  Of the        *)
(* context the model keeps the session it was reset for, whether its duplex *)
(* pipeline runs, whose inputs it was fed, and the text queue between the   *)
(* LLM thread and the handlers; the pipeline itself is DuplexPipeline.  Every  *)
(* session is full_duplex, so after the first one the context is reused.    *)
(*                                                                          *)
(* A notification that comes between a thread's test and its sleep is lost.  *)
(* Where the code notifies without the mutex the step has both outcomes: the *)
(* thread goes on, or it sleeps on (stranded, a decode thread "missed").    *)
(***************************************************************************)
EXTENDS Integers, Sequences

CONSTANTS
    Handlers,     \* the WebSocket connections
    None,
    MaxCalls,     \* bound: inputs and close requests, together
    MaxPieces     \* bound: text fragments of a decode

ASSUME HandlersAssumption == None \notin Handlers /\ "http" \notin Handlers \cup {None}
ASSUME BoundsAssumption   == MaxCalls \in Nat /\ MaxPieces \in Nat

VARIABLES
    active,       \* active_: the session, or None
    ready,        \* its state: TRUE when ACTIVE, FALSE when UNINITIALIZED
    lock,         \* octx_mutex
    outputDir,    \* base_output_dir: the session the context was reset for
    pipe,         \* the duplex pipeline: "off" (nullptr), "up", "stopping"
    fed,          \* the sessions whose inputs the pipeline accepted since the reset
    stranded,     \* the pipeline is stopping and a thread of it sleeps on
    textQueue,    \* text_queue
    textDone,     \* text_done_flag
    prefillDone,  \* prefill_done, the flag of the simplex decode path
    llm,          \* what the LLM thread does, and for whom
    at,           \* at[h]: where the handler is
    ws,           \* ws[h]: the connection is open
    callback,     \* the active session has its close_ws
    decoder,      \* decoder[h]: the handler's decode_thread
    inputs,       \* how many inputs were read
    reply,        \* reply[h]: what was said and sent for the current input
    http,         \* the close endpoint: where it is and its session
    closes

manager == <<active, ready, callback>>
context == <<outputDir, pipe, fed, stranded>>
text    == <<textQueue, textDone>>
closing == <<http, closes>>
workers == <<llm, prefillDone>>
vars    == <<manager, lock, context, text, workers, at, ws, decoder, inputs, reply, closing>>

LlmIdle  == [step |-> "idle", for |-> None]
NoReply  == [spoken |-> 0, told |-> <<>>, listened |-> FALSE, reported |-> FALSE]
Fragment(kind, h, n) == [kind |-> kind, from |-> h, n |-> n]

Go(h, there) == at' = [at EXCEPT ![h] = there]

\* session_mgr.close(h): forgets the session if it is the one the manager holds
Close(h) ==
    /\ active' = IF active = h THEN None ELSE active
    /\ ready' = (ready /\ active # h)
    /\ callback' = (callback /\ active # h)

-----------------------------------------------------------------------------
(***************************************************************************)
(* duplex_stop_threads.                                                     *)
(***************************************************************************)
Woken == [h \in Handlers |-> IF decoder[h] = "missed" THEN "returned" ELSE decoder[h]]

\* running = false and notifications without a mutex, then the joins.  The encoder and the
\* LLM thread can miss them on their way to sleep; the LLM thread can also wait for room in
\* the TTS queue, which looks at no flag: a break empties that queue and tells nobody.
StopPipe ==
    IF pipe = "up"
    THEN pipe' = "stopping" /\ stranded' \in BOOLEAN /\ decoder' = Woken
    ELSE UNCHANGED <<pipe, stranded, decoder>>

ThreadsJoined == llm = LlmIdle /\ ~stranded

-----------------------------------------------------------------------------
(***************************************************************************)
(* handle_ws_backend: session.init.                                         *)
(***************************************************************************)
OnlyActiveBlocks == active = None \/ ~ready                \* variant
MayAllocate      == active = None

Allocate(h) ==
    /\ at[h] = "init"
    /\ ws[h]
    /\ IF MayAllocate
       THEN /\ active' = h /\ ready' = FALSE /\ callback' = FALSE
            /\ Go(h, "create") /\ ws' = ws
       ELSE UNCHANGED manager /\ Go(h, "gone") /\ ws' = [ws EXCEPT ![h] = FALSE]
    /\ UNCHANGED <<lock, context, text, workers, decoder, inputs, reply, closing>>

\* create_session_octx: omni_prepare_for_reuse stops what an earlier session left running
CreateBegin(h) ==
    /\ at[h] = "create"
    /\ lock = None
    /\ lock' = h
    /\ StopPipe
    /\ Go(h, "reset")
    /\ UNCHANGED <<manager, outputDir, fed, text, workers, ws, inputs, reply, closing>>

\* the threads are joined: reset_octx_for_session, or a new context
CreateEnd(h) ==
    /\ at[h] = "reset"
    /\ ThreadsJoined
    /\ outputDir' = h /\ pipe' = "off" /\ fed' = {}
    /\ textQueue' = <<>> /\ textDone' = FALSE
    /\ lock' = None
    /\ Go(h, "prompt")
    /\ UNCHANGED <<manager, stranded, workers, ws, decoder, inputs, reply, closing>>

\* stream_prefill(index = 0) writes the system prompt and starts the pipeline
PrefillPrompt(h) ==
    /\ at[h] = "prompt"
    /\ lock = None
    /\ pipe' = "up"
    /\ Go(h, "activate")
    /\ UNCHANGED <<manager, lock, outputDir, fed, stranded, text, workers, ws, decoder, inputs,
                   reply, closing>>

\* the session becomes ACTIVE before its close callback is there
Activate(h) ==
    /\ at[h] = "activate"
    /\ lock = None
    /\ active = h /\ ~ready
    /\ lock' = h
    /\ ready' = TRUE
    /\ Go(h, "callback")
    /\ UNCHANGED <<active, callback, context, text, workers, ws, decoder, inputs, reply, closing>>

SetCallback(h) ==
    /\ at[h] = "callback"
    /\ callback' = (callback \/ active = h)
    /\ lock' = None
    /\ Go(h, "read")
    /\ UNCHANGED <<active, ready, context, text, workers, ws, decoder, inputs, reply, closing>>

\* fail_fast: a failed init or an unacceptable input; the pipeline keeps running
FailFast(h) ==
    /\ at[h] \in {"create", "prompt", "read", "input"}
    /\ at[h] # "read" => lock = None
    /\ at[h] = "create" => outputDir = None                \* omni_init, for want of a context
    /\ at[h] = "read" => ws[h]
    /\ Close(h)
    /\ Go(h, "gone")
    /\ ws' = [ws EXCEPT ![h] = FALSE]
    /\ UNCHANGED <<lock, context, text, workers, decoder, inputs, reply, closing>>

-----------------------------------------------------------------------------
(***************************************************************************)
(* handle_ws_backend: one input.                                            *)
(***************************************************************************)
Read(h) ==
    /\ at[h] = "read"
    /\ ws[h]
    /\ inputs + closes < MaxCalls
    /\ inputs' = inputs + 1
    /\ Go(h, "input")
    /\ UNCHANGED <<manager, lock, context, text, workers, ws, decoder, reply, closing>>

ReadClosed(h) ==
    /\ at[h] = "read"
    /\ ~ws[h]
    /\ Go(h, "cleanup")
    /\ UNCHANGED <<manager, lock, context, text, workers, ws, decoder, inputs, reply, closing>>

\* stream_prefill under octx_mutex; the session is not looked up again.  Without a
\* pipeline the input goes to the queue of the simplex LLM thread, which does not run.
\* With force_listen the handler reports listen itself and reads on.
Prefill(h) ==
    /\ at[h] = "input"
    /\ lock = None
    /\ fed' = IF pipe = "up" THEN fed \cup {h} ELSE fed
    /\ Go(h, "submit") \/ Go(h, "read")
    /\ UNCHANGED <<manager, lock, outputDir, pipe, stranded, text, workers, ws, decoder, inputs, reply,
                   closing>>

\* the text stream is reset and the decode thread started
Submit(h) ==
    /\ at[h] = "submit"
    /\ textQueue' = <<>> /\ textDone' = FALSE
    /\ decoder' = [decoder EXCEPT ![h] = "called"]
    /\ Go(h, "poll")
    /\ UNCHANGED <<manager, lock, context, workers, ws, inputs, reply, closing>>

\* one turn of the poll loop: take a fragment, then look at the done flag, then send
DoneFirst       == textDone                                \* variant
StreamFinished  == textDone /\ Len(textQueue) <= 1

Send(h, piece) ==
    CASE piece.kind = "text" -> [reply EXCEPT ![h].told = Append(@, piece)]
      [] piece.kind = "listen" -> [reply EXCEPT ![h].reported = TRUE]
      [] OTHER -> reply

Poll(h) ==
    /\ at[h] = "poll"
    /\ textQueue' = IF textQueue = <<>> THEN <<>> ELSE Tail(textQueue)
    /\ IF StreamFinished
       THEN reply' = reply /\ Go(h, "join")
       ELSE IF textQueue = <<>>                            \* 200 ms without text
       THEN reply' = reply /\ Go(h, "check")
       ELSE /\ reply' = Send(h, Head(textQueue))
            /\ Go(h, IF Head(textQueue).kind = "listen" THEN "join" ELSE "check")
    /\ UNCHANGED <<manager, lock, context, textDone, workers, ws, decoder, inputs, closing>>

\* "was the session closed externally?"
Check(h) ==
    /\ at[h] = "check"
    /\ Go(h, IF active = h THEN "poll" ELSE "leave")
    /\ UNCHANGED <<manager, lock, context, text, workers, ws, decoder, inputs, reply, closing>>

DetachesWhenTold(h) == textDone                            \* variant
Joined(h)           == decoder[h] = "returned"

Join(h) ==
    /\ at[h] \in {"join", "leave"}
    /\ Joined(h)
    /\ decoder' = [decoder EXCEPT ![h] = "none"]
    /\ reply' = [reply EXCEPT ![h] = NoReply]
    /\ Go(h, IF at[h] = "join" THEN "read" ELSE "cleanup")
    /\ UNCHANGED <<manager, lock, context, text, workers, ws, inputs, closing>>

-----------------------------------------------------------------------------
(***************************************************************************)
(* Closing: the handler's own cleanup and the close endpoint.               *)
(***************************************************************************)
\* break, empty the text stream, and omni_prepare_for_reuse up to the join
StopContext ==
    /\ textQueue' = <<>> /\ textDone' = TRUE
    /\ StopPipe

StillHeld == lock                                          \* variant
Released  == None

CleanupBegin(h) ==
    /\ at[h] = "cleanup"
    /\ lock = None
    /\ lock' = h
    /\ IF active = h THEN StopContext ELSE UNCHANGED <<pipe, stranded, decoder, text>>
    /\ Go(h, "drop")
    /\ UNCHANGED <<manager, outputDir, fed, workers, ws, inputs, reply, closing>>

CleanupEnd(h) ==
    /\ at[h] = "drop"
    /\ active = h => ThreadsJoined
    /\ pipe' = IF active = h THEN "off" ELSE pipe
    /\ Close(h)
    /\ lock' = Released
    /\ Go(h, "gone")
    /\ ws' = [ws EXCEPT ![h] = FALSE]
    /\ UNCHANGED <<outputDir, fed, stranded, text, workers, decoder, inputs, reply, closing>>

\* POST /sessions/:session_id/close: get, then close the transport
CloseRequest ==
    /\ http.at = "idle"
    /\ inputs + closes < MaxCalls
    /\ active # None /\ ready
    /\ closes' = closes + 1
    /\ http' = [at |-> "stop", for |-> active]
    /\ ws' = [ws EXCEPT ![active] = @ /\ ~callback]
    /\ UNCHANGED <<manager, lock, context, text, workers, at, decoder, inputs, reply>>

CloseBegin ==
    /\ http.at = "stop"
    /\ lock = None
    /\ lock' = "http"
    /\ IF active = http.for THEN StopContext ELSE UNCHANGED <<pipe, stranded, decoder, text>>
    /\ http' = [http EXCEPT !.at = "drop"]
    /\ UNCHANGED <<manager, outputDir, fed, workers, at, ws, inputs, reply, closes>>

CloseEnd ==
    /\ http.at = "drop"
    /\ active = http.for => ThreadsJoined
    /\ pipe' = IF active = http.for THEN "off" ELSE pipe
    /\ Close(http.for)
    /\ lock' = Released
    /\ http' = [at |-> "idle", for |-> None]
    /\ UNCHANGED <<outputDir, fed, stranded, text, workers, at, ws, decoder, inputs, reply, closes>>

\* the client goes away; the handler finds out when it reads, so that elsewhere than at
\* the read and in the poll loop it is the same as a little later
Disconnect(h) ==
    /\ at[h] \in {"init", "read", "poll"}
    /\ ws[h]
    /\ ws' = [ws EXCEPT ![h] = FALSE]
    /\ IF at[h] = "init" THEN Go(h, "gone") ELSE at' = at
    /\ UNCHANGED <<manager, lock, context, text, workers, decoder, inputs, reply, closing>>

-----------------------------------------------------------------------------
(***************************************************************************)
(* The decode thread: stream_decode, outside octx_mutex.                    *)
(***************************************************************************)
\* with a running pipeline duplex_decode posts; with a stopping one it returns
DecodeEnter(h) ==
    /\ decoder[h] = "called"
    /\ pipe # "off"
    /\ decoder' = [decoder EXCEPT ![h] = IF pipe = "up" THEN "posted" ELSE "returned"]
    /\ UNCHANGED <<manager, lock, context, text, workers, at, ws, inputs, reply, closing>>

\* without one the old path clears the text stream and waits for prefill_done, which
\* is true at first and which only the simplex LLM thread sets again
DecodeFallsBack(h) ==
    /\ decoder[h] = "called"
    /\ pipe = "off"
    /\ textQueue' = <<>> /\ textDone' = FALSE
    /\ decoder' = [decoder EXCEPT ![h] = "waiting"]
    /\ UNCHANGED <<manager, lock, context, workers, at, ws, inputs, reply, closing>>

DecodeAlone(h) ==
    /\ decoder[h] = "waiting"
    /\ prefillDone
    /\ prefillDone' = FALSE
    /\ decoder' = [decoder EXCEPT ![h] = "alone"]
    /\ UNCHANGED <<manager, lock, context, text, llm, at, ws, inputs, reply, closing>>

\* the pipeline stopped before the request was answered; the caller returns, unless it
\* missed the notification of the stop
DecodeFails(h) ==
    /\ decoder[h] = "posted"
    /\ pipe # "up"
    /\ \E how \in {"returned", "missed"} : decoder' = [decoder EXCEPT ![h] = how]
    /\ UNCHANGED <<manager, lock, context, text, workers, at, ws, inputs, reply, closing>>

Push(kind, h, n) == textQueue' = Append(textQueue, Fragment(kind, h, n))

\* the old path samples in the decode thread itself
AloneSpeak(h) ==
    /\ decoder[h] = "alone"
    /\ reply[h].spoken < MaxPieces
    /\ Push("text", h, reply[h].spoken + 1)
    /\ reply' = [reply EXCEPT ![h].spoken = @ + 1]
    /\ UNCHANGED <<manager, lock, context, textDone, workers, at, ws, decoder, inputs, closing>>

AloneFinish(h) ==
    /\ decoder[h] = "alone"
    /\ \E kind \in {"listen", "end"} : Push(kind, h, 0)
    /\ textDone' = TRUE
    /\ decoder' = [decoder EXCEPT ![h] = "returned"]
    /\ UNCHANGED <<manager, lock, context, workers, at, ws, inputs, reply, closing>>

(***************************************************************************)
(* The LLM thread: duplex_do_decode's text.                                 *)
(***************************************************************************)

LlmTake(h) ==
    /\ llm = LlmIdle
    /\ pipe = "up"
    /\ decoder[h] = "posted"
    /\ llm' = [step |-> "begin", for |-> h]
    /\ UNCHANGED <<prefillDone, manager, lock, context, text, at, ws, decoder, inputs, reply, closing>>

LlmBegin ==
    /\ llm.step = "begin"
    /\ textQueue' = <<>> /\ textDone' = FALSE
    /\ llm' = [llm EXCEPT !.step = "speak"]
    /\ UNCHANGED <<prefillDone, manager, lock, context, at, ws, decoder, inputs, reply, closing>>

LlmSpeak ==
    /\ llm.step = "speak"
    /\ reply[llm.for].spoken < MaxPieces
    /\ Push("text", llm.for, reply[llm.for].spoken + 1)
    /\ reply' = [reply EXCEPT ![llm.for].spoken = @ + 1]
    /\ UNCHANGED <<manager, lock, context, textDone, workers, at, ws, decoder, inputs, closing>>

\* the model samples <|listen|>; the done flag comes at the end of the decode
LlmListen ==
    /\ llm.step = "speak"
    /\ Push("listen", llm.for, 0)
    /\ reply' = [reply EXCEPT ![llm.for].listened = TRUE]
    /\ llm' = [llm EXCEPT !.step = "listened"]
    /\ UNCHANGED <<prefillDone, manager, lock, context, textDone, at, ws, decoder, inputs, closing>>

\* the text of the step that sampled <|listen|> follows the marker
LlmTrail ==
    /\ llm.step = "listened"
    /\ Push("text", llm.for, 0)
    /\ llm' = [llm EXCEPT !.step = "trailed"]
    /\ UNCHANGED <<prefillDone, manager, lock, context, textDone, at, ws, decoder, inputs, reply, closing>>

\* the first decodes of a session are forced to listen: marker and flag in one go
LlmForcedListen ==
    /\ llm.step = "speak"
    /\ reply[llm.for].spoken = 0
    /\ Push("listen", llm.for, 0)
    /\ textDone' = TRUE
    /\ reply' = [reply EXCEPT ![llm.for].listened = TRUE]
    /\ llm' = [llm EXCEPT !.step = "answer"]
    /\ UNCHANGED <<prefillDone, manager, lock, context, at, ws, decoder, inputs, closing>>

FlagUnset == textDone                                      \* variant
FlagSet   == TRUE

LlmFinish ==
    /\ llm.step \in {"speak", "listened", "trailed"}
    /\ IF llm.step = "speak" THEN Push("end", llm.for, 0) ELSE textQueue' = textQueue
    /\ textDone' = FlagSet
    /\ llm' = [llm EXCEPT !.step = "answer"]
    /\ UNCHANGED <<prefillDone, manager, lock, context, at, ws, decoder, inputs, reply, closing>>

\* done is stored and decode_done_cv notified without llm_mtx: whoever sleeps returns, and
\* a caller between its test and its sleep misses both
LlmAnswer ==
    /\ llm.step = "answer"
    /\ llm' = LlmIdle
    /\ \E how \in {"returned", "missed"} :
           decoder' = [Woken EXCEPT ![llm.for] = IF @ = "posted" THEN how ELSE @]
    /\ UNCHANGED <<prefillDone, manager, lock, context, text, at, ws, inputs, reply, closing>>

-----------------------------------------------------------------------------
Init ==
    /\ active = None /\ ready = FALSE /\ callback = FALSE /\ lock = None
    /\ outputDir = None /\ pipe = "off" /\ fed = {} /\ stranded = FALSE
    /\ textQueue = <<>> /\ textDone = FALSE /\ prefillDone = TRUE
    /\ llm = LlmIdle
    /\ at = [h \in Handlers |-> "init"]
    /\ ws = [h \in Handlers |-> TRUE]
    /\ decoder = [h \in Handlers |-> "none"]
    /\ inputs = 0
    /\ reply = [h \in Handlers |-> NoReply]
    /\ http = [at |-> "idle", for |-> None] /\ closes = 0

Handle(h) == \/ CreateBegin(h) \/ CreateEnd(h) \/ PrefillPrompt(h) \/ Activate(h)
             \/ SetCallback(h) \/ ReadClosed(h) \/ Prefill(h) \/ Submit(h) \/ Poll(h) \/ Check(h)
             \/ Join(h) \/ CleanupBegin(h) \/ CleanupEnd(h)
Decode(h) == \/ DecodeEnter(h) \/ DecodeFails(h)
             \/ DecodeFallsBack(h) \/ DecodeAlone(h) \/ AloneSpeak(h) \/ AloneFinish(h)
Client(h) == Allocate(h) \/ Read(h) \/ FailFast(h) \/ Disconnect(h)
Llm       == \/ \E h \in Handlers : LlmTake(h)
             \/ LlmBegin \/ LlmSpeak \/ LlmListen \/ LlmTrail \/ LlmForcedListen
             \/ LlmFinish \/ LlmAnswer
Http      == CloseBegin \/ CloseEnd

Next == \/ \E h \in Handlers : Handle(h) \/ Decode(h) \/ Client(h)
        \/ Llm \/ Http \/ CloseRequest

Spec == Init /\ [][Next]_vars

(***************************************************************************)
(* Fairness: every thread of the server that can run runs.  Nothing is      *)
(* assumed of the clients.                                                  *)
(***************************************************************************)
Fairness ==
    /\ \A h \in Handlers : WF_vars(Handle(h)) /\ WF_vars(Decode(h))
    /\ WF_vars(Llm) /\ WF_vars(Http)

FairSpec == Spec /\ Fairness

-----------------------------------------------------------------------------
(***************************************************************************)
(* Type correctness: of the manager, the context, the text stream and the   *)
(* threads, and octx_mutex is held only by a handler or a close request that *)
(* is inside one of its critical sections.                                  *)
(***************************************************************************)
Places == {"init", "create", "reset", "prompt", "activate", "callback", "read", "input",
           "submit", "poll", "check", "join", "leave", "cleanup", "drop", "gone"}

TypeOK ==
    /\ active \in Handlers \cup {None} /\ ready \in BOOLEAN /\ callback \in BOOLEAN
    /\ active = None => ~ready /\ ~callback
    /\ outputDir \in Handlers \cup {None} /\ fed \subseteq Handlers
    /\ pipe \in {"off", "up", "stopping"} /\ (stranded => pipe = "stopping")
    /\ \A i \in DOMAIN textQueue :
           textQueue[i].kind \in {"text", "listen", "end"} /\ textQueue[i].from \in Handlers
    /\ at \in [Handlers -> Places] /\ ws \in [Handlers -> BOOLEAN]
    /\ decoder \in [Handlers -> {"none", "called", "posted", "missed", "waiting", "alone",
                              "returned"}]
    /\ lock \in Handlers \cup {None, "http"}
    /\ lock \in Handlers => at[lock] \in {"reset", "callback", "drop"}
    /\ lock = "http" <=> http.at = "drop"

(***************************************************************************)
(* An ACTIVE session finds the context reset for it, with its own output    *)
(* directory, and its pipeline running unless it is being closed under      *)
(* octx_mutex: no other connection reset or stopped the context that the    *)
(* session uses (allocate admits one session; create_session_octx).         *)
(***************************************************************************)
ContextIsActives == ready => outputDir = active /\ (pipe = "up" \/ lock # None)

(***************************************************************************)
(* Without an HTTP close, when the poll loop of an input is over, the client *)
(* was sent what the model said before it listened or ended its turn: every *)
(* fragment, once, in order, and none of another input (text_queue,         *)
(* text_done_flag and the loop of handle_ws_backend).                       *)
(***************************************************************************)
ReplyIsWhole ==
    closes = 0 => \A h \in Handlers : at[h] = "join" =>
        reply[h].told = [n \in 1 .. reply[h].spoken |-> Fragment("text", h, n)]

(***************************************************************************)
(* Without an HTTP close, the decode of an input is over before the next one *)
(* and before another session: nobody but the active session's handler has a *)
(* decode thread, and nobody else's request is in the LLM thread.           *)
(***************************************************************************)
DecodersAreActives ==
    closes = 0 => /\ \A h \in Handlers : decoder[h] # "none" => active = h
                  /\ llm.for \in {active, None}

(***************************************************************************)
(* The handler of a connection that the client gave up, or a close request  *)
(* ended, cleans up and returns.  Three things of the code can keep it, and *)
(* only these: its decode sleeps though it was answered or stopped, its     *)
(* decode waits for the simplex LLM thread, or a stop does not come back.   *)
(***************************************************************************)
DecodeHangs(h) == decoder[h] = "missed" \/ (decoder[h] = "waiting" /\ ~prefillDone)

HandlerEnds ==
    \A h \in Handlers : (~ws[h]) ~> (at[h] = "gone" \/ DecodeHangs(h) \/ stranded)

(***************************************************************************)
(* A close request returns, even while other connections come and go: it    *)
(* obtains octx_mutex and the inference threads it joins end, unless one of *)
(* them is stranded by this stop or by another connection's.                *)
(***************************************************************************)
CloseReturns == (http.at # "idle") ~> (http.at = "idle" \/ stranded)

(***************************************************************************)
(* Sessions that follow each other in one context do not mix: a pipeline is *)
(* fed the inputs of the session it was started for (session.h: at most one *)
(* active session per backend).  An HTTP close voids this: a handler that   *)
(* waits for octx_mutex meanwhile does not look its session up again.       *)
(***************************************************************************)
InputsOwn == closes = 0 => fed \subseteq {outputDir}

(***************************************************************************)
(* When the model listened, the client got a listen delta by the time the   *)
(* poll loop of the input is over (comment of handle_ws_backend: pure listen *)
(* steps are represented by listen delta only).                             *)
(***************************************************************************)
ListenReported ==
    closes = 0 => \A h \in Handlers : at[h] = "join" /\ reply[h].listened => reply[h].reported
=============================================================================
