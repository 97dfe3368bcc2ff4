---------------------------- MODULE DuplexSession ----------------------------
(***************************************************************************)
(* The high-level duplex session of tools/omni/omni.cpp, on top of the      *)
(* pipeline: omni_duplex_push_frame puts a frame into pending_frames, the   *)
(* prefill worker submits it to duplex_prefill and hands it to the decode   *)
(* worker, which calls duplex_decode and reports a result that              *)
(* omni_duplex_wait_next_frame takes.                                       *)
(*                                                                          *)
(* The caller's threads are a producer (push_frame) and a consumer          *)
(* (wait_next_frame) that also joins the producer and ends the session, as  *)
(* in test-duplex.cpp and perf-duplex.cpp.  The session can be ended and    *)
(* begun again on the same pipeline; frame ids restart at 1, so frame f is  *)
(* the pipeline's frame base + f.  Waits are guards here: what a lost wake-up *)
(* does is checked on the pipeline, whose waits have the same form.         *)
(***************************************************************************)
EXTENDS DuplexPipeline

CONSTANTS
    PendingMax,    \* PENDING_MAX
    MaxSessions    \* bound: sessions begun in a behaviour

ASSUME PendingAssumption == PendingMax \in Nat \ {0}
ASSUME SessionAssumption == MaxSessions \in Nat

VARIABLES
    session,       \* "none", "up", "ending" (running is false)
    pendingFrames, \* pending_frames
    decodePending, \* decode_pending
    doneResults,   \* done_results
    lastId,        \* frame_id_counter
    outstanding,   \* the session's in_flight
    at,            \* where each thread of the session and of its caller is
    held,          \* the frame each of them holds, or 0
    text,          \* the round whose text is in text_queue, 0 when it is empty
    taken,         \* results taken by wait_next_frame in this session
    base,          \* frames accepted by the pipeline before this session
    begun          \* sessions begun

sessionQueues == <<pendingFrames, decodePending, doneResults>>
sessionState  == <<session, sessionQueues, lastId, outstanding, at, held, taken, base, begun>>
allVars       == <<vars, sessionState, text>>

Roles == {"producer", "prefiller", "decoder", "consumer"}

Move(role, here, there) ==
    /\ at[role] = here
    /\ at' = [at EXCEPT ![role] = there]

Result(frame, good, words) == [frame |-> frame, ok |-> good, text |-> words]

-----------------------------------------------------------------------------
(***************************************************************************)
(* The caller.                                                              *)
(***************************************************************************)
\* chunk 0 goes through stream_prefill, which starts the pipeline when it is not running;
\* on a running pipeline it joins the queue of the simplex thread, and is left out here
BeginSession ==
    /\ session = "none"
    /\ begun < MaxSessions
    /\ Start \/ (Running /\ UNCHANGED vars)
    /\ session' = "up"
    /\ pendingFrames' = <<>> /\ decodePending' = <<>> /\ doneResults' = <<>>
    /\ lastId' = 0 /\ outstanding' = 0 /\ taken' = 0
    /\ at' = [at EXCEPT !["prefiller"] = "take", !["decoder"] = "take"]
    /\ base' = accepted
    /\ begun' = begun + 1
    /\ UNCHANGED <<held, text>>

\* the id is drawn before pending_mtx is taken
PushDrawId ==
    /\ session = "up"
    /\ base + lastId < MaxFrames
    /\ Move("producer", "idle", "push")
    /\ lastId' = lastId + 1
    /\ held' = [held EXCEPT !["producer"] = lastId + 1]
    /\ UNCHANGED <<vars, session, sessionQueues, outstanding, text, taken, base, begun>>

PendingRoom == Len(pendingFrames) < PendingMax

PushFrame ==
    /\ PendingRoom
    /\ Move("producer", "push", "count")
    /\ pendingFrames' = Append(pendingFrames, held["producer"])
    /\ held' = [held EXCEPT !["producer"] = 0]
    /\ UNCHANGED <<vars, session, decodePending, doneResults, lastId, outstanding,
                   text, taken, base, begun>>

\* in_flight is raised after pending_mtx is released
PushCount ==
    /\ Move("producer", "count", "idle")
    /\ outstanding' = outstanding + 1
    /\ UNCHANGED <<vars, session, sessionQueues, lastId, held, text, taken, base, begun>>

WaitNextFrame ==
    /\ session = "up"
    /\ Move("consumer", "idle", "wait")
    /\ UNCHANGED <<vars, session, sessionQueues, lastId, outstanding, held, text,
                   taken, base, begun>>

TakeResult ==
    /\ session # "none"
    /\ doneResults # <<>>
    /\ Move("consumer", "wait", "idle")
    /\ doneResults' = Tail(doneResults)
    /\ taken' = taken + 1
    /\ UNCHANGED <<vars, session, pendingFrames, decodePending, lastId, outstanding,
                   held, text, base, begun>>

\* a timeout, or the session is over and has no result left
NoResult ==
    /\ session # "none"
    /\ doneResults = <<>>
    /\ Move("consumer", "wait", "idle")
    /\ UNCHANGED <<vars, session, sessionQueues, lastId, outstanding, held, text,
                   taken, base, begun>>

\* the caller joins its producer, then omni_duplex_session_end polls in_flight
Submitted == pendingFrames = <<>>                          \* variant
Drained   == outstanding <= 0

EndSession ==
    /\ session = "up"
    /\ at["producer"] = "idle"
    /\ at["consumer"] = "idle"
    /\ Drained
    /\ session' = "ending"
    /\ UNCHANGED <<vars, sessionQueues, lastId, outstanding, at, held, text, taken,
                   base, begun>>

\* both workers joined: the session is deleted with the results nobody took
DeleteSession ==
    /\ session = "ending"
    /\ at["prefiller"] = "off" /\ at["decoder"] = "off"
    /\ session' = "none"
    /\ pendingFrames' = <<>> /\ decodePending' = <<>> /\ doneResults' = <<>>
    /\ lastId' = 0 /\ outstanding' = 0 /\ taken' = 0
    /\ base' = accepted
    /\ UNCHANGED <<vars, at, held, text, begun>>

\* omni_prepare_for_reuse, omni_free: end the session, then stop the pipeline
StopPipeline ==
    /\ session = "none"
    /\ SignalStop
    /\ UNCHANGED <<sessionState, text>>

-----------------------------------------------------------------------------
(***************************************************************************)
(* The two workers.                                                         *)
(***************************************************************************)
PendingAgain == pendingFrames                              \* variant
PendingRest  == Tail(pendingFrames)

PrefillerTake ==
    /\ pendingFrames # <<>>
    /\ Move("prefiller", "take", "call")
    /\ held' = [held EXCEPT !["prefiller"] = Head(pendingFrames)]
    /\ pendingFrames' = PendingRest
    /\ UNCHANGED <<vars, session, decodePending, doneResults, lastId, outstanding,
                   text, taken, base, begun>>

PrefillerCall ==
    /\ Move("prefiller", "call", "in")
    /\ CallPrefill
    /\ UNCHANGED <<session, sessionQueues, lastId, outstanding, held, text, taken,
                   base, begun>>

PrefillAccepting == pc["sub"] \in {"idle", "put", "count"} \* variant
PrefillReturned  == pc["sub"] = "idle"

\* a prefill fails only when the pipeline was stopped, which happens behind a session
PrefillerHandOver ==
    /\ PrefillReturned
    /\ Move("prefiller", "in", "take")
    /\ decodePending' = Append(decodePending, held["prefiller"])
    /\ held' = [held EXCEPT !["prefiller"] = 0]
    /\ UNCHANGED <<vars, session, pendingFrames, doneResults, lastId, outstanding,
                   text, taken, base, begun>>

DecoderTake ==
    /\ decodePending # <<>>
    /\ Move("decoder", "take", "call")
    /\ held' = [held EXCEPT !["decoder"] = Head(decodePending)]
    /\ decodePending' = Tail(decodePending)
    /\ UNCHANGED <<vars, session, pendingFrames, doneResults, lastId, outstanding,
                   text, taken, base, begun>>

DecoderCall ==
    /\ Move("decoder", "call", "in")
    /\ EnterDecode
    /\ UNCHANGED <<session, sessionQueues, lastId, outstanding, held, text, taken,
                   base, begun>>

DecodePosted   == pc["dec"] # "post"                       \* variant
DecodeReturned == pc["dec"] = "idle"

\* the worker empties text_queue into the result and pushes it
DecoderReport ==
    /\ DecodeReturned
    /\ Move("decoder", "in", "uncount")
    /\ doneResults' = Append(doneResults,
           Result(held["decoder"], req[base + held["decoder"]] = "ok", text))
    /\ text' = 0
    /\ held' = [held EXCEPT !["decoder"] = 0]
    /\ UNCHANGED <<vars, session, pendingFrames, decodePending, lastId, outstanding,
                   taken, base, begun>>

DecoderUncount ==
    /\ Move("decoder", "uncount", "take")
    /\ outstanding' = outstanding - 1
    /\ UNCHANGED <<vars, session, sessionQueues, lastId, held, text, taken, base, begun>>

WorkerExit ==
    /\ session = "ending"
    /\ \/ pendingFrames = <<>> /\ Move("prefiller", "take", "off")
       \/ decodePending = <<>> /\ Move("decoder", "take", "off")
    /\ UNCHANGED <<vars, session, sessionQueues, lastId, outstanding, held, text,
                   taken, base, begun>>

-----------------------------------------------------------------------------
\* the pipeline's own threads; a decode clears text_queue and leaves its text there.
\* break_event is raised by a caller that interrupts the answer and keeps the session.
PipelineStep ==
    /\ \/ SubStep \/ EncStep \/ LlmStep \/ DecStep \/ StopEnd
       \/ RaiseBreak \/ ClearBreak
       \/ \E t \in Threads : Block(t) \/ FallAsleep(t)
    /\ text' = IF seen' = seen THEN text ELSE cur
    /\ UNCHANGED sessionState

SessionInit ==
    /\ Init
    /\ session = "none"
    /\ pendingFrames = <<>> /\ decodePending = <<>> /\ doneResults = <<>>
    /\ lastId = 0 /\ outstanding = 0 /\ taken = 0 /\ base = 0 /\ begun = 0
    /\ at = [r \in Roles |-> IF r \in {"producer", "consumer"} THEN "idle" ELSE "off"]
    /\ held = [r \in Roles |-> 0]
    /\ text = 0

Caller == \/ BeginSession \/ PushDrawId \/ PushFrame \/ PushCount \/ WaitNextFrame
          \/ TakeResult \/ NoResult \/ EndSession \/ DeleteSession \/ StopPipeline

Workers == \/ PrefillerTake \/ PrefillerCall \/ PrefillerHandOver
           \/ DecoderTake \/ DecoderCall \/ DecoderReport \/ DecoderUncount \/ WorkerExit

SessionNext == Caller \/ Workers \/ PipelineStep

SessionSpec == SessionInit /\ [][SessionNext]_allVars

-----------------------------------------------------------------------------
(***************************************************************************)
(* Properties.                                                              *)
(***************************************************************************)
Places == [producer  |-> {"idle", "push", "count"},
           prefiller |-> {"off", "take", "call", "in"},
           decoder   |-> {"off", "take", "call", "in", "uncount"},
           consumer  |-> {"idle", "wait"}]

\* Every variable of the session keeps the type of the C++ object it stands for.
SessionTypeOK ==
    /\ session \in {"none", "up", "ending"}
    /\ pendingFrames \in Seq(Frames) /\ Len(pendingFrames) <= PendingMax
    /\ decodePending \in Seq(Frames)
    /\ doneResults \in Seq([frame : Frames, ok : BOOLEAN, text : Frames \cup {0}])
    /\ lastId \in 0..MaxFrames /\ taken \in 0..MaxFrames /\ base \in 0..MaxFrames
    /\ outstanding \in Int /\ begun \in 0..MaxSessions
    /\ DOMAIN at = Roles /\ \A r \in Roles : at[r] \in Places[r]
    /\ held \in [Roles -> Frames \cup {0}]
    /\ text \in Frames \cup {0}

Queued(role) == Len(One(held[role]))
Reached(role, place) == IF at[role] = place THEN 1 ELSE 0

\* The line of a session's frames from the oldest result to the newest push.
Finished  == [i \in 1..Len(doneResults) |-> doneResults[i].frame]
FrameLine == Finished \o One(held["decoder"]) \o decodePending
             \o One(held["prefiller"]) \o pendingFrames \o One(held["producer"])

\* wait_next_frame gives the frames of a session in push order: none is lost between the
\* three queues, none comes twice and none overtakes another.
ResultsInOrder ==
    session # "none" =>
        /\ Len(FrameLine) + taken = lastId
        /\ \A i \in 1..Len(FrameLine) : FrameLine[i] = taken + i

\* The session's in_flight, raised outside the lock after the push and lowered outside
\* the lock after the result, is exact but for these two steps.
OutstandingExact ==
    session # "none" =>
        outstanding + Reached("producer", "count") =
            Len(pendingFrames) + Queued("prefiller") + Len(decodePending)
            + Queued("decoder") + Reached("decoder", "uncount")

\* omni_duplex_session_end drains: once it stops the workers every pushed frame has its
\* result and the pipeline has handled it and, unless a break dropped a packet that
\* was on its way, has nothing left of this session.
EndDrains ==
    session = "ending" =>
        /\ taken + Len(doneResults) = lastId
        /\ accepted = base + lastId /\ handled = accepted
        /\ pending = 0
        /\ breaks = 0 => encQ = <<>> /\ preQ = <<>>

\* Until a break is raised a result carries the text of its own frame's decode, on a KV
\* cache that ended with that frame, also when frame ids restarted in a later session.
ResultIsOwn ==
    breaks = 0 => \A i \in 1..Len(doneResults) :
        LET round == base + doneResults[i].frame IN
        /\ doneResults[i].ok
        /\ doneResults[i].text = round
        /\ seen[round] = round

\* The session is a client DuplexPipeline describes: it decodes a frame only after its
\* prefill was accepted, and the pipeline is stopped only when every frame is handled.
PipelineClient == Spec
=============================================================================
