--------------------------- MODULE DuplexPipeline ---------------------------
(***************************************************************************)
(* The duplex pipeline of tools/omni/omni.cpp: a caller of duplex_prefill   *)
(* (thread "sub"), the encoder thread ("enc"), the LLM thread ("llm") and a *)
(* caller of duplex_decode ("dec") share two bounded queues, one pending    *)
(* decode request, two mutexes and three condition variables.               *)
(*                                                                          *)
(* A frame is the number of the chunk it carries (the index given to        *)
(* duplex_prefill); round r is the duplex_decode meant for frame r.         *)
(*                                                                          *)
(* A wait on a condition variable is split where the C++ wait is: a thread  *)
(* that finds its predicate false becomes "drowsy" (it still holds the      *)
(* mutex), and only its next step releases the mutex and puts it to sleep.  *)
(* A notify that takes no mutex can fall between the two and be lost.       *)
(***************************************************************************)
EXTENDS Integers, Sequences

CONSTANTS
    EncCap,      \* ENCODER_QUEUE_CAP
    PreCap,      \* PREFILL_QUEUE_CAP
    Pipelined,   \* TRUE: the two workers of a DuplexSession call the pipeline;
                 \* FALSE: one WebSocket handler alternates prefill and decode
    MaxFrames,   \* bound: frames submitted in a behaviour
    MaxSkips,    \* bound: force_listen steps, a prefill without its decode
    MaxBreaks    \* bound: times break_event is raised

ASSUME CapAssumption   == EncCap \in Nat \ {0} /\ PreCap \in Nat \ {0}
ASSUME BoundAssumption == MaxFrames \in Nat /\ MaxSkips \in Nat /\ MaxBreaks \in Nat
ASSUME ModeAssumption  == Pipelined \in BOOLEAN

VARIABLES
    life,        \* the DuplexPipeline object: "none", "up", "stopping", "gone"
    encQ,        \* encoder_queue
    preQ,        \* prefill_queue
    pending,     \* pending_decode: a round, or 0 for nullptr
    inFlight,    \* in_flight_prefill
    req,         \* req[r]: the DuplexDecodeReq of round r, "none" before it is posted
    broke,       \* break_event
    kv,          \* the frames written into the KV cache, in order
    seen,        \* seen[r]: length of kv when round r was decoded, -1 before
    pc,          \* pc[t]: where thread t is
    waiting,     \* waiting[t]: how thread t stands at its wait statement
    hand,        \* the frame the encoder thread is encoding, or 0
    pkt,         \* the packet the LLM thread has popped, or 0
    cur,         \* the LLM thread's decode_req: a round, or 0
    accepted,    \* the duplex_prefill calls that returned true
    handled,     \* the rounds that are over: decoded, refused or skipped
    skips, breaks

queues  == <<encQ, preQ, pending, inFlight, req>>
cache   == <<kv, seen>>
sched   == <<pc, waiting>>
local   == <<hand, pkt, cur>>
client  == <<accepted, handled, skips>>
vars    == <<life, queues, broke, breaks, cache, sched, local, client>>

Threads == {"sub", "enc", "llm", "dec"}
Frames  == 1..MaxFrames
Running == life = "up"

(***************************************************************************)
(* Condition variables: which wait statements sleep on which, and under     *)
(* which mutex.                                                             *)
(***************************************************************************)
Sleepers == [encoder_cv     |-> {"put", "take"},
             llm_cv         |-> {"send", "phase0", "phase1"},
             decode_done_cv |-> {"post", "await"}]

Guarded == [encoder_mtx |-> {"put", "take"},
            llm_mtx     |-> {"send", "phase0", "phase1", "post", "await"}]

WaitLabels == UNION {Guarded[m] : m \in DOMAIN Guarded}

Free(label) ==
    \A m \in DOMAIN Guarded : label \in Guarded[m] =>
        \A t \in Threads : waiting[t] = "drowsy" => pc[t] \notin Guarded[m]

Notify(cvs) ==
    [t \in Threads |->
        IF waiting[t] = "asleep" /\ \E c \in cvs : pc[t] \in Sleepers[c]
        THEN "awake" ELSE waiting[t]]

\* the predicates of the wait statements
EncRoom     == Len(encQ) < EncCap
PreRoom     == Len(preQ) < PreCap
Answered(r) == req[r] \in {"ok", "failed"}

Ready(label) ==
    \/ ~Running
    \/ label = "put"    /\ EncRoom
    \/ label = "take"   /\ encQ # <<>>
    \/ label = "send"   /\ PreRoom
    \/ label = "phase0" /\ (pending # 0 \/ broke)
    \/ label = "phase1" /\ (preQ # <<>> \/ broke)
    \/ label = "post"   /\ pending = 0
    \/ label = "await"  /\ Answered(handled + 1)

\* thread t has the mutex of its wait statement and its predicate holds
Enter(t, label) ==
    /\ pc[t] = label
    /\ waiting[t] = "awake"
    /\ Free(label)
    /\ Ready(label)

At(t, label) == pc[t] = label /\ waiting[t] = "awake"
Goto(t, label) == pc' = [pc EXCEPT ![t] = label]

Block(t) ==
    /\ pc[t] \in WaitLabels
    /\ waiting[t] = "awake"
    /\ Free(pc[t])
    /\ ~Ready(pc[t])
    /\ waiting' = [waiting EXCEPT ![t] = "drowsy"]
    /\ UNCHANGED <<life, queues, broke, breaks, cache, pc, local, client>>

FallAsleep(t) ==
    /\ waiting[t] = "drowsy"
    /\ waiting' = [waiting EXCEPT ![t] = "asleep"]
    /\ UNCHANGED <<life, queues, broke, breaks, cache, pc, local, client>>

-----------------------------------------------------------------------------
(***************************************************************************)
(* Callers of duplex_prefill and duplex_decode.                             *)
(***************************************************************************)
\* The session's prefill worker runs ahead; the WebSocket handler ends a round first.
CallPrefill ==
    /\ At("sub", "idle")
    /\ Running
    /\ accepted < MaxFrames
    /\ ~Pipelined => handled = accepted /\ pc["dec"] = "idle"
    /\ Goto("sub", "put")
    /\ UNCHANGED <<life, queues, broke, breaks, cache, waiting, local, client>>

PrefillPush ==
    /\ Enter("sub", "put")
    /\ IF Running
       THEN /\ encQ' = Append(encQ, accepted + 1)
            /\ Goto("sub", "count")
       ELSE /\ encQ' = encQ
            /\ Goto("sub", "idle")
    /\ UNCHANGED <<life, preQ, pending, inFlight, req, broke, breaks, cache,
                   waiting, local, client>>

\* the counter is raised after the push, outside the mutex, then encoder_cv is notified
PrefillCount ==
    /\ At("sub", "count")
    /\ inFlight' = inFlight + 1
    /\ accepted' = accepted + 1
    /\ Goto("sub", "idle")
    /\ waiting' = Notify({"encoder_cv"})
    /\ UNCHANGED <<life, encQ, preQ, pending, req, broke, breaks, cache, local,
                   handled, skips>>

EnterDecode ==
    /\ At("dec", "idle")
    /\ IF life = "gone"                         \* ctx_omni->duplex == nullptr
       THEN /\ handled' = handled + 1
            /\ pc' = pc
       ELSE /\ handled' = handled
            /\ Goto("dec", "post")
    /\ UNCHANGED <<life, queues, broke, breaks, cache, waiting, local,
                   accepted, skips>>

\* a caller decodes round r after its prefill of frame r has returned
CallDecode == handled < accepted /\ EnterDecode

\* a full-duplex input with force_listen: prefilled, reported as listen, not decoded
SkipDecode ==
    /\ ~Pipelined
    /\ At("dec", "idle")
    /\ handled < accepted
    /\ skips < MaxSkips
    /\ skips' = skips + 1
    /\ handled' = handled + 1
    /\ UNCHANGED <<life, queues, broke, breaks, cache, sched, local, accepted>>

DecodePost ==
    /\ Enter("dec", "post")
    /\ IF Running
       THEN /\ pending' = handled + 1
            /\ req' = [req EXCEPT ![handled + 1] = "open"]
            /\ handled' = handled
            /\ Goto("dec", "await")
            /\ waiting' = Notify({"llm_cv"})
       ELSE /\ handled' = handled + 1
            /\ Goto("dec", "idle")
            /\ UNCHANGED <<pending, req, waiting>>
    /\ UNCHANGED <<life, encQ, preQ, inFlight, broke, breaks, cache, local,
                   accepted, skips>>

DecodeReturn ==
    /\ Enter("dec", "await")
    /\ handled' = handled + 1
    /\ Goto("dec", "idle")
    /\ UNCHANGED <<life, queues, broke, breaks, cache, waiting, local,
                   accepted, skips>>

-----------------------------------------------------------------------------
(***************************************************************************)
(* The encoder thread.  An encoding that fails still sends its packet.      *)
(***************************************************************************)
EncTake ==
    /\ Enter("enc", "take")
    /\ IF Running
       THEN /\ hand' = Head(encQ)
            /\ encQ' = Tail(encQ)
            /\ Goto("enc", "send")
            /\ waiting' = Notify({"encoder_cv"})
       ELSE /\ Goto("enc", "off")
            /\ UNCHANGED <<hand, encQ, waiting>>
    /\ UNCHANGED <<life, preQ, pending, inFlight, req, broke, breaks, cache,
                   pkt, cur, client>>

EncSend ==
    /\ Enter("enc", "send")
    /\ hand' = 0
    /\ IF Running
       THEN /\ preQ' = Append(preQ, hand)
            /\ Goto("enc", "take")
            /\ waiting' = Notify({"llm_cv"})
       ELSE /\ Goto("enc", "off")
            /\ UNCHANGED <<preQ, waiting>>
    /\ UNCHANGED <<life, encQ, pending, inFlight, req, broke, breaks, cache,
                   pkt, cur, client>>

-----------------------------------------------------------------------------
(***************************************************************************)
(* The LLM thread.                                                          *)
(***************************************************************************)
LlmStop ==
    /\ Enter("llm", "phase0")
    /\ ~Running
    /\ Goto("llm", "off")
    /\ UNCHANGED <<life, queues, broke, breaks, cache, waiting, local, client>>

NoneDropped == 0                                           \* variant
Dropped     == Len(preQ)

KeepPending  == pending' = pending                         \* variant
ClearPending == pending' = 0

\* break_event in phase 0: drop the queued packets and fail the pending request
LlmBreak ==
    /\ Enter("llm", "phase0")
    /\ Running /\ broke
    /\ preQ' = <<>>
    /\ inFlight' = inFlight - Dropped
    /\ ClearPending
    /\ req' = IF pending = 0 THEN req ELSE [req EXCEPT ![pending] = "failed"]
    /\ waiting' = Notify({"llm_cv"} \cup (IF pending = 0 THEN {} ELSE {"decode_done_cv"}))
    /\ UNCHANGED <<life, encQ, broke, breaks, cache, pc, local, client>>

LlmTakeRequest ==
    /\ Enter("llm", "phase0")
    /\ Running /\ ~broke
    /\ cur' = pending
    /\ ClearPending
    /\ Goto("llm", "route")
    /\ waiting' = Notify({"llm_cv"})
    /\ UNCHANGED <<life, encQ, preQ, inFlight, req, broke, breaks, cache, hand,
                   pkt, client>>

\* "is a prefill on its way?": in_flight_prefill > 0
ExpectingQueued == preQ # <<>>                             \* variant
Expecting       == inFlight > 0

LlmRoute ==
    /\ At("llm", "route")
    /\ Goto("llm", IF Expecting THEN "phase1" ELSE "phase2")
    /\ UNCHANGED <<life, queues, broke, breaks, cache, waiting, local, client>>

PacketsDrained == <<>>                                     \* variant
PacketsLeft    == Tail(preQ)

LlmTakePacket ==
    /\ Enter("llm", "phase1")
    /\ IF ~Running
       THEN /\ Goto("llm", "off")               \* cur is never answered
            /\ UNCHANGED <<preQ, pkt, waiting>>
       ELSE /\ waiting' = Notify({"llm_cv"})
            /\ IF broke
               THEN /\ Goto("llm", "phase2")
                    /\ UNCHANGED <<preQ, pkt>>
               ELSE /\ pkt' = Head(preQ)
                    /\ preQ' = PacketsLeft
                    /\ Goto("llm", "prefill")
    /\ UNCHANGED <<life, encQ, pending, inFlight, req, broke, breaks, cache,
                   hand, cur, client>>

StillCounted  == inFlight                                  \* variant
CountedWrite  == inFlight - 1

LlmPrefill ==
    /\ At("llm", "prefill")
    /\ kv' = Append(kv, pkt)
    /\ pkt' = 0
    /\ inFlight' = CountedWrite
    /\ Goto("llm", "phase2")
    /\ UNCHANGED <<life, encQ, preQ, pending, req, broke, breaks, seen, waiting,
                   hand, cur, client>>

LlmCheckBreak ==
    /\ At("llm", "phase2")
    /\ Goto("llm", IF broke THEN "reject" ELSE "decode")
    /\ UNCHANGED <<life, queues, broke, breaks, cache, waiting, local, client>>

\* duplex_do_decode; a break raised since phase 2's check is cleared here
LlmDecode ==
    /\ At("llm", "decode")
    /\ broke' = FALSE
    /\ seen' = [seen EXCEPT ![cur] = Len(kv)]
    /\ Goto("llm", "answer")
    /\ UNCHANGED <<life, queues, breaks, kv, waiting, local, client>>

\* ok and done are stored and decode_done_cv notified without llm_mtx
LlmAnswer ==
    /\ At("llm", "answer") \/ At("llm", "reject")
    /\ req' = [req EXCEPT ![cur] = IF pc["llm"] = "answer" THEN "ok" ELSE "failed"]
    /\ cur' = 0
    /\ Goto("llm", "phase0")
    /\ waiting' = Notify({"decode_done_cv"})
    /\ UNCHANGED <<life, encQ, preQ, pending, inFlight, broke, breaks, cache,
                   hand, pkt, client>>

-----------------------------------------------------------------------------
(***************************************************************************)
(* break_event and the life of the pipeline.                                *)
(***************************************************************************)
RaiseBreak ==
    /\ Running
    /\ breaks < MaxBreaks
    /\ breaks' = breaks + 1
    /\ broke' = TRUE
    /\ UNCHANGED <<life, queues, cache, sched, local, client>>

\* the token2wav thread clears break_event when it sees it
ClearBreak ==
    /\ broke
    /\ broke' = FALSE
    /\ UNCHANGED <<life, queues, breaks, cache, sched, local, client>>

Start ==
    /\ life = "none"
    /\ life' = "up"
    /\ pc' = [pc EXCEPT !["enc"] = "take", !["llm"] = "phase0"]
    /\ UNCHANGED <<queues, broke, breaks, cache, waiting, local, client>>

\* omni_duplex_session_end waits for every frame; the close endpoint only excludes
\* a prefill in progress (octx_mutex), a decode runs outside the mutex
MayStop ==
    /\ pc["sub"] = "idle"
    /\ Pipelined => handled = accepted

SignalStop ==
    /\ Running
    /\ life' = "stopping"
    /\ waiting' = Notify({"encoder_cv", "llm_cv", "decode_done_cv"})
    /\ UNCHANGED <<queues, broke, breaks, cache, pc, local, client>>

StopBegin == MayStop /\ SignalStop

\* both threads joined: clear the queues, fail the pending request, delete the object
StopEnd ==
    /\ life = "stopping"
    /\ pc["enc"] = "off" /\ pc["llm"] = "off"
    /\ life' = "gone"
    /\ encQ' = <<>>
    /\ preQ' = <<>>
    /\ pending' = 0
    /\ req' = IF pending = 0 THEN req ELSE [req EXCEPT ![pending] = "failed"]
    /\ waiting' = IF pending = 0 THEN waiting ELSE Notify({"decode_done_cv"})
    /\ UNCHANGED <<inFlight, broke, breaks, cache, pc, local, client>>

-----------------------------------------------------------------------------
Init ==
    /\ life = "none"
    /\ encQ = <<>> /\ preQ = <<>> /\ pending = 0 /\ inFlight = 0
    /\ req = [r \in Frames |-> "none"]
    /\ broke = FALSE /\ breaks = 0
    /\ kv = <<>> /\ seen = [r \in Frames |-> -1]
    /\ pc = [t \in Threads |-> IF t \in {"sub", "dec"} THEN "idle" ELSE "off"]
    /\ waiting = [t \in Threads |-> "awake"]
    /\ hand = 0 /\ pkt = 0 /\ cur = 0
    /\ accepted = 0 /\ handled = 0 /\ skips = 0

SubStep == PrefillPush \/ PrefillCount
EncStep == EncTake \/ EncSend
LlmStep == \/ LlmStop \/ LlmBreak \/ LlmTakeRequest \/ LlmRoute \/ LlmTakePacket
           \/ LlmPrefill \/ LlmCheckBreak \/ LlmDecode \/ LlmAnswer
DecStep == DecodePost \/ DecodeReturn
Control == Start \/ StopBegin \/ StopEnd \/ RaiseBreak \/ ClearBreak

Next ==
    \/ CallPrefill \/ CallDecode \/ SkipDecode
    \/ SubStep \/ EncStep \/ LlmStep \/ DecStep
    \/ Control
    \/ \E t \in Threads : Block(t) \/ FallAsleep(t)

Spec == Init /\ [][Next]_vars

(***************************************************************************)
(* Fairness: the operating system runs every thread that can run, a notified *)
(* waiter gets its mutex, and the decode worker takes each accepted frame.  *)
(* Nothing is assumed of prefill callers, force_listen, breaks or a stop.   *)
(***************************************************************************)
Fairness ==
    /\ WF_vars(SubStep) /\ WF_vars(EncStep) /\ WF_vars(LlmStep) /\ WF_vars(DecStep)
    /\ WF_vars(CallDecode) /\ WF_vars(StopEnd)
    /\ \A t \in Threads : WF_vars(Block(t)) /\ WF_vars(FallAsleep(t))

FairSpec == Spec /\ Fairness

-----------------------------------------------------------------------------
(***************************************************************************)
(* Properties.                                                              *)
(***************************************************************************)
PcOK ==
    /\ DOMAIN pc = Threads
    /\ pc["sub"] \in {"idle", "put", "count"}
    /\ pc["enc"] \in {"off", "take", "send"}
    /\ pc["llm"] \in {"off", "phase0", "route", "phase1", "prefill", "phase2",
                      "decode", "answer", "reject"}
    /\ pc["dec"] \in {"idle", "post", "await"}

QueuesOK ==
    /\ encQ \in Seq(Frames) /\ preQ \in Seq(Frames) /\ kv \in Seq(Frames)
    /\ Len(encQ) <= EncCap /\ Len(preQ) <= PreCap

RequestsOK ==
    /\ req \in [Frames -> {"none", "open", "ok", "failed"}]
    /\ seen \in [Frames -> Int]
    /\ pending \in Frames \cup {0} /\ cur \in Frames \cup {0}
    /\ hand \in Frames \cup {0} /\ pkt \in Frames \cup {0}

CountersOK ==
    /\ inFlight \in Int
    /\ accepted \in 0..MaxFrames /\ handled \in 0..accepted
    /\ skips \in 0..MaxSkips /\ breaks \in 0..MaxBreaks

\* Every variable keeps the type of the C++ object it stands for.
TypeOK ==
    /\ QueuesOK /\ RequestsOK /\ CountersOK /\ PcOK
    /\ life \in {"none", "up", "stopping", "gone"}
    /\ broke \in BOOLEAN
    /\ waiting \in [Threads -> {"awake", "drowsy", "asleep"}]

One(frame) == IF frame = 0 THEN <<>> ELSE <<frame>>
Uncounted  == IF pc["sub"] = "count" THEN 1 ELSE 0

\* in_flight_prefill, raised outside the encoder mutex after the push and lowered by
\* a break or after the KV write, is exact: it differs from the packets in the
\* pipeline only by the frame that was pushed and is not counted yet.
InFlightExact ==
    Running =>
        inFlight + Uncounted =
            Len(encQ) + Len(preQ) + Len(One(hand)) + Len(One(pkt))

\* The line of frames from the KV cache back to the encoder queue.
Line == kv \o One(pkt) \o preQ \o One(hand) \o encQ

\* Frames keep their submission order from the encoder queue into the KV cache, none
\* is written twice, and without a break none is lost on the way.
FramesInOrder ==
    Running =>
        /\ \A i, j \in 1..Len(Line) : i < j => Line[i] < Line[j]
        /\ \A i \in 1..Len(Line) : Line[i] <= accepted + Uncounted
        /\ breaks = 0 => Len(Line) = accepted + Uncounted

\* A posted request lies in exactly one place until it is answered: pending_decode or
\* the LLM thread.  So no request is lost, taken twice or answered for another round.
RequestOwned ==
    Running =>
        /\ pending # 0 => cur = 0
        /\ \A r \in {pending, cur} \ {0} : req[r] = "open" /\ r = handled + 1
        /\ \A r \in Frames : req[r] = "open" => r \in {pending, cur}
        /\ pc["dec"] = "await" => req[handled + 1] # "none"

\* A request's done and ok are final.
AnsweredOnce == [][\A r \in Frames : Answered(r) => req'[r] = req[r]]_vars

\* No break was raised and no decode skipped so far: what both pairings below rest on.
Undisturbed == breaks = 0 /\ skips = 0

\* Strict 1:1 pairing: until a break is raised or a decode skipped, round r is decoded
\* on a KV cache holding frames 1..r and no more.
DecodeSeesOwnFrame ==
    Undisturbed => \A r \in Frames : seen[r] # -1 =>
        /\ seen[r] = r
        /\ \A i \in 1..r : kv[i] = i

\* Until a break is raised or a decode skipped the pipeline implements FrameTurns: KV
\* writes and decodes alternate strictly.
Turns == INSTANCE FrameTurns WITH kv <- kv, seen <- seen, MaxFrames <- MaxFrames
TurnTaking == Turns!Init /\ [][Undisturbed' => [Turns!Next]_<<kv, seen>>]_vars

\* The LLM thread answers every request, however far the encoder is behind, as long as
\* the pipeline is up.
RequestAnswered ==
    \A r \in Frames : req[r] = "open" ~> Answered(r) \/ ~Running
=============================================================================
