------------------------ MODULE BackendSessionProofs ------------------------
(***************************************************************************)
(* Proofs about BackendSession, for every set of connections and every      *)
(* number of inputs and close requests.                                     *)
(***************************************************************************)
EXTENDS BackendSession, TLAPS

-----------------------------------------------------------------------------
(***************************************************************************)
(* Who owns what.  A session that is not ACTIVE yet belongs to the handler  *)
(* that initialises it; octx_mutex to the one inside its critical section;  *)
(* and the pipeline of an ACTIVE session is stopped only by its own handler *)
(* or by a close request for it, which then hold octx_mutex.                *)
(***************************************************************************)
Opening == {"create", "reset", "prompt", "activate"}
Serving == {"callback", "read", "input", "submit", "poll", "check", "join", "leave",
            "cleanup", "drop"}
Holding == {"reset", "callback", "drop"}

PlacesOK ==
    /\ at \in [Handlers -> Places]
    /\ active \in Handlers \cup {None}
    /\ http.at \in {"idle", "stop", "drop"}
    /\ http.at # "idle" => http.for \in Handlers
    /\ pipe \in {"off", "up", "stopping"}

SessionOK ==
    /\ \A h \in Handlers : at[h] \in Opening => active = h /\ ~ready
    /\ ready => active \in Handlers /\ at[active] \in Serving
    /\ http.at # "idle" => at[http.for] \in Serving \cup {"gone"}

LockOK ==
    /\ \A h \in Handlers : at[h] \in Holding => lock = h
    /\ lock = "http" <=> http.at = "drop"
    /\ lock \in Handlers => at[lock] \in Holding

ContextOK ==
    /\ \A h \in Handlers : at[h] \in {"prompt", "activate"} => outputDir = h
    /\ \A h \in Handlers : at[h] = "activate" => pipe = "up"
    /\ ready => /\ outputDir = active
                /\ \/ pipe = "up"
                   \/ lock = active /\ at[active] = "drop"
                   \/ lock = "http" /\ http.for = active

OwnerInv == PlacesOK /\ SessionOK /\ LockOK /\ ContextOK

LEMMA OwnerInit == Init => OwnerInv
  BY HandlersAssumption
  DEF Init, OwnerInv, PlacesOK, SessionOK, LockOK, ContextOK, Places, Opening, Serving, Holding

\* Steps of one handler.
LEMMA HandlerKeepsOwners ==
  ASSUME OwnerInv, NEW h \in Handlers, Handle(h) \/ Client(h)
  PROVE  OwnerInv'
<1> USE HandlersAssumption
    DEF OwnerInv, PlacesOK, SessionOK, LockOK, ContextOK, Places, Opening, Serving, Holding,
        Go, manager, context, closing
<1>1. CASE Allocate(h)
  BY <1>1 DEF Allocate, MayAllocate
<1>2. CASE CreateBegin(h)
  BY <1>2 DEF CreateBegin, StopPipe
<1>3. CASE CreateEnd(h)
  BY <1>3 DEF CreateEnd
<1>4. CASE PrefillPrompt(h)
  BY <1>4 DEF PrefillPrompt
<1>5. CASE Activate(h)
  BY <1>5 DEF Activate
<1>6. CASE SetCallback(h)
  BY <1>6 DEF SetCallback
<1>7. CASE FailFast(h)
  BY ZenonT(40), <1>7 DEF FailFast, Close
<1>8. CASE Read(h) \/ ReadClosed(h) \/ Prefill(h) \/ Submit(h)
  BY <1>8 DEF Read, ReadClosed, Prefill, Submit
<1>9. CASE Poll(h) \/ Check(h) \/ Join(h)
  BY <1>9 DEF Poll, Check, Join
<1>10. CASE CleanupBegin(h)
  BY <1>10 DEF CleanupBegin, StopContext, StopPipe
<1>11. CASE CleanupEnd(h)
  BY <1>11 DEF CleanupEnd, Close, Released
<1>12. CASE Disconnect(h)
  BY <1>12 DEF Disconnect
<1> QED
  BY <1>1, <1>2, <1>3, <1>4, <1>5, <1>6, <1>7, <1>8, <1>9, <1>10, <1>11, <1>12
  DEF Handle, Client

\* Steps of the decode threads and the LLM thread move no session, lock or pipeline.
LEMMA OthersKeepOwners ==
  ASSUME OwnerInv, (\E h \in Handlers : Decode(h)) \/ Llm \/ UNCHANGED vars
  PROVE  OwnerInv'
<1>1. UNCHANGED <<active, ready, lock, outputDir, pipe, at, http>>
  BY DEF Decode, DecodeEnter, DecodeFails, DecodeFallsBack, DecodeAlone, AloneSpeak,
         AloneFinish, Llm, LlmTake, LlmBegin, LlmSpeak, LlmListen, LlmTrail, LlmForcedListen,
         LlmFinish, LlmAnswer, vars, manager, context, closing
<1> QED
  BY <1>1 DEF OwnerInv, PlacesOK, SessionOK, LockOK, ContextOK

\* Steps of the close endpoint.
LEMMA CloseKeepsOwners ==
  ASSUME OwnerInv, CloseRequest \/ Http
  PROVE  OwnerInv'
<1> USE HandlersAssumption
    DEF OwnerInv, PlacesOK, SessionOK, LockOK, ContextOK, Places, Opening, Serving, Holding,
        manager, context, closing
<1>1. CASE CloseRequest
  BY <1>1 DEF CloseRequest
<1>2. CASE CloseBegin
  BY <1>2 DEF CloseBegin, StopContext, StopPipe
<1>3. CASE CloseEnd
  BY <1>3 DEF CloseEnd, Close, Released
<1> QED
  BY <1>1, <1>2, <1>3 DEF Http

LEMMA OwnerStep == OwnerInv /\ [Next]_vars => OwnerInv'
  BY HandlerKeepsOwners, OthersKeepOwners, CloseKeepsOwners DEF Next

\* No connection ever resets or stops the context that another's ACTIVE session uses.
THEOREM ContextOwned == Spec => []ContextIsActives
<1>1. OwnerInv => ContextIsActives
  BY HandlersAssumption DEF OwnerInv, ContextOK, SessionOK, ContextIsActives
<1> QED
  BY <1>1, OwnerInit, OwnerStep, PTL DEF Spec

-----------------------------------------------------------------------------
(***************************************************************************)
(* Without a close request a session lasts as long as its handler serves it, *)
(* its decode thread lives inside the poll loop of one input, and the LLM   *)
(* thread works on that thread's request until it answers.                  *)
(***************************************************************************)
DecoderSteps == {"none", "called", "posted", "missed", "waiting", "alone", "returned"}

DecodeInv ==
    /\ closes \in Nat
    /\ closes = 0 =>
        /\ http.at = "idle"
        /\ \A h \in Handlers : at[h] \in Serving => active = h /\ ready
        /\ decoder \in [Handlers -> DecoderSteps]
        /\ \A h \in Handlers : decoder[h] # "none" => at[h] \in {"poll", "check", "join", "leave"}
        /\ llm \in [step : {"idle", "begin", "speak", "listened", "trailed", "answer"},
                    for : Handlers \cup {None}]
        /\ llm.for = None => llm = LlmIdle
        /\ llm.for # None => decoder[llm.for] = "posted"

LEMMA DecodeInit == Init => DecodeInv
  BY HandlersAssumption DEF Init, DecodeInv, LlmIdle, Serving, DecoderSteps

\* A stop by another handler finds no decode to wake.
LEMMA StopWakesNone ==
  ASSUME OwnerInv, DecodeInv, NEW h \in Handlers, CreateBegin(h) \/ CleanupBegin(h), closes = 0
  PROVE  decoder' = decoder
<1>1. \A g \in Handlers : decoder[g] = "none"
  <2> SUFFICES ASSUME NEW g \in Handlers, decoder[g] # "none" PROVE FALSE
    OBVIOUS
  <2>1. active = g /\ ready /\ at[g] \in {"poll", "check", "join", "leave"}
    BY DEF DecodeInv, Serving
  <2>2. \/ at[h] = "create" /\ ~ready
        \/ at[h] = "cleanup" /\ active = h
    BY DEF CreateBegin, CleanupBegin, OwnerInv, SessionOK, DecodeInv, Opening, Serving
  <2> QED
    BY <2>1, <2>2
<1>2. Woken = decoder
  BY <1>1 DEF Woken, DecodeInv, DecoderSteps
<1> QED
  BY <1>2 DEF CreateBegin, CleanupBegin, StopContext, StopPipe

LEMMA HandlerKeepsDecode ==
  ASSUME OwnerInv, DecodeInv, NEW h \in Handlers, Handle(h) \/ Client(h)
  PROVE  DecodeInv'
<1> USE HandlersAssumption
    DEF OwnerInv, PlacesOK, SessionOK, DecodeInv, Places, Opening, Serving, Go, manager,
        context, closing, workers
<1>1. CASE Allocate(h) \/ FailFast(h)
  BY <1>1 DEF Allocate, MayAllocate, FailFast, Close
<1>2. CASE CreateBegin(h) \/ CreateEnd(h) \/ PrefillPrompt(h)
  BY <1>2, StopWakesNone DEF CreateBegin, CreateEnd, PrefillPrompt
<1>3. CASE Activate(h) \/ SetCallback(h)
  BY <1>3 DEF Activate, SetCallback
<1>4. CASE Read(h) \/ ReadClosed(h) \/ Prefill(h) \/ Disconnect(h)
  BY <1>4 DEF Read, ReadClosed, Prefill, Disconnect
<1>5. CASE Submit(h)
  BY <1>5 DEF Submit, DecoderSteps
<1>6. CASE Poll(h) \/ Check(h)
  BY <1>6 DEF Poll, Check
<1>7. CASE Join(h)
  BY <1>7 DEF Join, Joined, DecoderSteps
<1>8. CASE CleanupBegin(h) \/ CleanupEnd(h)
  BY <1>8, StopWakesNone DEF CleanupBegin, CleanupEnd, Close
<1> QED
  BY <1>1, <1>2, <1>3, <1>4, <1>5, <1>6, <1>7, <1>8 DEF Handle, Client

\* The pipeline that a decode waits in does not stop under it: OwnerInv says who could.
LEMMA DecoderKeepsDecode ==
  ASSUME OwnerInv, DecodeInv, NEW h \in Handlers, Decode(h)
  PROVE  DecodeInv'
<1> USE DEF DecodeInv, manager, context, closing, workers
<1>1. CASE DecodeFails(h)
  <2>1. pipe # "up" /\ decoder[h] = "posted" /\ closes' = closes
    BY <1>1 DEF DecodeFails
  <2>2. closes # 0
    <3> SUFFICES ASSUME closes = 0 PROVE FALSE
      OBVIOUS
    <3>1. active = h /\ ready /\ at[h] # "drop" /\ http.at = "idle"
      BY <2>1 DEF Serving
    <3>2. lock # "http"
      BY <3>1 DEF OwnerInv, LockOK
    <3> QED
      BY <2>1, <3>1, <3>2 DEF OwnerInv, ContextOK
  <2> QED
    BY <2>1, <2>2
<1>2. CASE DecodeEnter(h) \/ DecodeFallsBack(h)
  BY <1>2 DEF DecodeEnter, DecodeFallsBack, DecoderSteps
<1>3. CASE DecodeAlone(h) \/ AloneSpeak(h) \/ AloneFinish(h)
  BY <1>3 DEF DecodeAlone, AloneSpeak, AloneFinish, DecoderSteps
<1> QED
  BY <1>1, <1>2, <1>3 DEF Decode

LEMMA RestKeepsDecode ==
  ASSUME DecodeInv, Llm \/ CloseRequest \/ Http \/ UNCHANGED vars
  PROVE  DecodeInv'
<1> USE HandlersAssumption DEF DecodeInv, LlmIdle, manager, context, closing, workers
<1>1. ASSUME NEW h \in Handlers, LlmTake(h) PROVE DecodeInv'
  BY <1>1 DEF LlmTake
<1>2. CASE LlmBegin \/ LlmSpeak \/ LlmListen \/ LlmTrail
  BY <1>2 DEF LlmBegin, LlmSpeak, LlmListen, LlmTrail
<1>3. CASE LlmForcedListen \/ LlmFinish
  BY <1>3 DEF LlmForcedListen, LlmFinish
<1>4. CASE LlmAnswer
  BY <1>4 DEF LlmAnswer, Woken, DecoderSteps
<1>5. CASE CloseRequest \/ Http
  BY <1>5 DEF CloseRequest, Http, CloseBegin, CloseEnd
<1>6. CASE UNCHANGED vars
  BY <1>6 DEF vars
<1> QED
  BY <1>1, <1>2, <1>3, <1>4, <1>5, <1>6 DEF Llm

\* One decode at a time, and it belongs to the session that is active.
THEOREM DecodersOwned == Spec => []DecodersAreActives
<1>1. OwnerInv /\ DecodeInv => DecodersAreActives
  <2> SUFFICES ASSUME DecodeInv, closes = 0
               PROVE  /\ \A h \in Handlers : decoder[h] # "none" => active = h
                      /\ llm.for \in {active, None}
    BY DEF DecodersAreActives
  <2>1. \A h \in Handlers : decoder[h] # "none" => active = h
    BY DEF DecodeInv, Serving
  <2>2. llm.for # None => llm.for \in Handlers /\ decoder[llm.for] # "none"
    BY DEF DecodeInv
  <2> QED
    BY <2>1, <2>2
<1>2. OwnerInv /\ DecodeInv /\ [Next]_vars => DecodeInv'
  BY HandlerKeepsDecode, DecoderKeepsDecode, RestKeepsDecode DEF Next
<1> QED
  BY <1>1, <1>2, OwnerInit, OwnerStep, DecodeInit, PTL DEF Spec

-----------------------------------------------------------------------------
\* Without a close request only the handler of the ACTIVE session writes an input, and
\* the reset that hands the context on forgets what the pipeline was fed.
LEMMA InputsStep ==
  ASSUME OwnerInv, DecodeInv, InputsOwn, [Next]_vars
  PROVE  InputsOwn'
<1>1. closes \in Nat /\ (closes' = closes \/ closes' = closes + 1)
  BY DEF Next, Handle, Decode, Client, Llm, Http, CloseRequest, CloseBegin, CloseEnd,
         DecodeInv, closing, vars, Allocate, CreateBegin, CreateEnd, PrefillPrompt, Activate,
         SetCallback, FailFast, Read, ReadClosed, Prefill, Submit, Poll, Check, Join,
         CleanupBegin, CleanupEnd, Disconnect, DecodeEnter, DecodeFails, DecodeFallsBack,
         DecodeAlone, AloneSpeak, AloneFinish, LlmTake, LlmBegin, LlmSpeak, LlmListen,
         LlmTrail, LlmForcedListen, LlmFinish, LlmAnswer
<1>2. ASSUME NEW h \in Handlers, Prefill(h) PROVE InputsOwn'
  <2>1. at[h] = "input" /\ closes' = closes /\ outputDir' = outputDir /\ fed' \subseteq fed \cup {h}
    BY <1>2 DEF Prefill, closing
  <2>2. closes = 0 => outputDir = h
    BY <2>1 DEF DecodeInv, Serving, OwnerInv, ContextOK
  <2> QED
    BY <2>1, <2>2 DEF InputsOwn
<1>3. ASSUME NEW h \in Handlers, CreateEnd(h) PROVE InputsOwn'
  BY <1>3 DEF CreateEnd, InputsOwn
<1>4. CASE UNCHANGED <<outputDir, fed>>
  BY <1>1, <1>4 DEF InputsOwn
<1>5. \/ \E h \in Handlers : Prefill(h) \/ CreateEnd(h)
      \/ UNCHANGED <<outputDir, fed>>
  BY DEF Next, Handle, Decode, Client, Llm, Http, CloseRequest, CloseBegin, CloseEnd,
         context, vars, Allocate, CreateBegin, PrefillPrompt, Activate,
         SetCallback, FailFast, Read, ReadClosed, Submit, Poll, Check, Join,
         CleanupBegin, CleanupEnd, Disconnect, DecodeEnter, DecodeFails, DecodeFallsBack,
         DecodeAlone, AloneSpeak, AloneFinish, LlmTake, LlmBegin, LlmSpeak, LlmListen,
         LlmTrail, LlmForcedListen, LlmFinish, LlmAnswer
<1> QED
  BY <1>2, <1>3, <1>4, <1>5

\* Sessions that follow each other in one context do not mix their inputs.
THEOREM InputsOwned == Spec => []InputsOwn
<1>1. Init => InputsOwn
  BY DEF Init, InputsOwn
<1>2. OwnerInv /\ DecodeInv /\ [Next]_vars => DecodeInv'
  BY HandlerKeepsDecode, DecoderKeepsDecode, RestKeepsDecode DEF Next
<1>3. OwnerInv /\ DecodeInv /\ InputsOwn /\ [Next]_vars => InputsOwn'
  BY InputsStep
<1> QED
  BY <1>1, <1>2, <1>3, OwnerInit, OwnerStep, DecodeInit, PTL DEF Spec

-----------------------------------------------------------------------------
(***************************************************************************)
(* Without a close request the text of a decode is in two places, in order: *)
(* what the handler has sent and, behind it, what waits in text_queue.  The *)
(* done flag is raised only when the fragment that ends the text, which is  *)
(* not said to the client, is in the queue too.                             *)
(***************************************************************************)
Piece     == [kind : {"text", "listen", "end"}, from : Handlers, n : Nat]
Replies   == [spoken : Nat, told : Seq(Piece), listened : BOOLEAN, reported : BOOLEAN]
Polling   == {"poll", "check", "join"}
Told(h)   == Len(reply[h].told)
Owed(h)   == reply[h].spoken - Len(reply[h].told)

\* the LLM thread has not begun the decode of h, or has not finished its text
Silent(h) == \/ decoder[h] = "called"
             \/ decoder[h] = "posted" /\ (llm.for = h => llm.step = "begin")
Speaking(h) == llm.for = h /\ llm.step = "speak"

\* what waits: the fragments owed, then the one that ends the text
Waits(h) ==
    /\ \A i \in 1 .. Owed(h) : textQueue[i] = Fragment("text", h, Told(h) + i)
    /\ IF Silent(h) \/ Speaking(h)
       THEN Len(textQueue) = Owed(h)
       ELSE /\ Len(textQueue) > Owed(h)
            /\ \/ textQueue[Owed(h) + 1].kind = "listen"
               \/ /\ textQueue[Owed(h) + 1].kind = "end"
                  /\ Len(textQueue) = Owed(h) + 1
                  /\ textDone

DecodeText(h) ==
    /\ decoder[h] \in {"called", "posted", "missed", "returned"}
    /\ reply[h].told = [n \in 1 .. Told(h) |-> Fragment("text", h, n)]
    /\ Owed(h) >= 0
    /\ Silent(h) => reply[h].spoken = 0
    /\ Silent(h) \/ Speaking(h) => ~textDone /\ at[h] # "join"
    /\ llm.for = h /\ llm.step \in {"listened", "trailed"} => ~textDone
    /\ IF at[h] = "join" THEN Owed(h) = 0 ELSE Waits(h)

ReplyInv ==
    closes = 0 =>
        /\ reply \in [Handlers -> Replies]
        /\ textQueue \in Seq(Piece)
        /\ textDone \in BOOLEAN
        /\ \A h \in Handlers :
               /\ at[h] # "leave"
               /\ at[h] \in Polling <=> decoder[h] # "none"
               /\ IF decoder[h] = "none" THEN reply[h] = NoReply ELSE DecodeText(h)

LEMMA ReplyInit == Init => ReplyInv
<1> SUFFICES ASSUME Init PROVE ReplyInv
  OBVIOUS
<1>1. NoReply \in Replies
  BY DEF NoReply, Replies, Piece
<1>2. reply = [h \in Handlers |-> NoReply] /\ textQueue = <<>> /\ textDone = FALSE
  BY DEF Init
<1>3. reply \in [Handlers -> Replies] /\ textQueue \in Seq(Piece) /\ textDone \in BOOLEAN
  <2>1. <<>> \in Seq(Piece)
    OBVIOUS
  <2>2. reply \in [Handlers -> Replies]
    BY <1>1, <1>2
  <2> QED
    BY <1>2, <2>1, <2>2
<1> QED
  BY <1>2, <1>3 DEF Init, ReplyInv, Polling

\* Only the handler of the ACTIVE session decodes.
LEMMA OneDecodes ==
  ASSUME DecodeInv, closes = 0, NEW g \in Handlers, NEW h \in Handlers,
         at[g] \in Serving, decoder[h] # "none"
  PROVE  g = h
  BY DEF DecodeInv, Serving

\* The handler's steps outside the poll loop, and those of the client.
LEMMA OutsideKeepsReply ==
  ASSUME OwnerInv, ReplyInv, NEW h \in Handlers,
         \/ at' = at
         \/ /\ at[h] \notin Polling
            /\ \E there \in Places \ (Polling \cup {"leave"}) : at' = [at EXCEPT ![h] = there],
         UNCHANGED <<decoder, reply, llm, closes>>,
         \/ UNCHANGED text
         \/ /\ textQueue' = <<>> /\ textDone' \in BOOLEAN
            /\ closes = 0 => \A g \in Handlers : decoder[g] = "none"
  PROVE  ReplyInv'
<1> SUFFICES ASSUME closes = 0 PROVE ReplyInv'
  BY DEF ReplyInv
<1>1. at' \in [Handlers -> Places]
  BY DEF OwnerInv, PlacesOK
<1>2. /\ reply' \in [Handlers -> Replies]
      /\ textQueue' \in Seq(Piece)
      /\ textDone' \in BOOLEAN
  <2>1. <<>> \in Seq(Piece)
    OBVIOUS
  <2> QED
    BY <2>1 DEF ReplyInv, text
<1>3. ASSUME NEW g \in Handlers
      PROVE  /\ at'[g] # "leave"
             /\ at'[g] \in Polling <=> decoder[g] # "none"
             /\ decoder[g] # "none" => at'[g] = at[g]
  BY DEF ReplyInv, OwnerInv, PlacesOK
<1>4. ASSUME NEW g \in Handlers, decoder[g] # "none" PROVE DecodeText(g)'
  <2>1. at'[g] = at[g] /\ UNCHANGED text /\ DecodeText(g)
    BY <1>3, <1>4 DEF ReplyInv
  <2> QED
    BY <2>1 DEF DecodeText, Waits, Told, Owed, Silent, Speaking, text
<1>5. ASSUME NEW g \in Handlers, decoder[g] = "none" PROVE reply[g] = NoReply
  BY <1>5 DEF ReplyInv
<1> QED
  BY <1>2, <1>3, <1>4, <1>5 DEF ReplyInv

LEMMA OutsideStep ==
  ASSUME OwnerInv, DecodeInv, ReplyInv, NEW h \in Handlers,
         \/ Allocate(h) \/ CreateBegin(h) \/ CreateEnd(h) \/ PrefillPrompt(h) \/ Activate(h)
         \/ SetCallback(h) \/ FailFast(h) \/ Read(h) \/ ReadClosed(h) \/ Prefill(h)
         \/ CleanupBegin(h) \/ CleanupEnd(h) \/ Disconnect(h)
  PROVE  ReplyInv'
<1>0. UNCHANGED <<reply, llm, closes>>
  BY DEF Allocate, CreateBegin, CreateEnd, PrefillPrompt, Activate, SetCallback, FailFast, Read,
         ReadClosed, Prefill, CleanupBegin, CleanupEnd, Disconnect, workers, closing
<1> SUFFICES ASSUME closes = 0 PROVE ReplyInv'
  BY <1>0 DEF ReplyInv
<1>1. UNCHANGED <<decoder, reply, llm, closes>>
  BY <1>0, StopWakesNone
  DEF Allocate, CreateEnd, PrefillPrompt, Activate, SetCallback, FailFast, Read,
         ReadClosed, Prefill, CleanupEnd, Disconnect
<1>2. \/ at' = at
      \/ /\ at[h] \notin Polling
         /\ \E there \in Places \ (Polling \cup {"leave"}) : at' = [at EXCEPT ![h] = there]
  BY DEF Allocate, CreateBegin, CreateEnd, PrefillPrompt, Activate, SetCallback, FailFast, Read,
         ReadClosed, Prefill, CleanupBegin, CleanupEnd, Disconnect, Go, Polling, Places
<1>3. CASE CreateEnd(h) \/ (CleanupBegin(h) /\ active = h)
  <2>1. textQueue' = <<>> /\ textDone' \in BOOLEAN
    BY <1>3 DEF CreateEnd, CleanupBegin, StopContext
  <2>2. closes = 0 => \A g \in Handlers : decoder[g] = "none"
    <3> SUFFICES ASSUME closes = 0, NEW g \in Handlers, decoder[g] # "none" PROVE FALSE
      OBVIOUS
    <3>1. active = g /\ ready /\ at[g] \in {"poll", "check", "join", "leave"}
      BY DEF DecodeInv, Serving
    <3>2. at[h] \in {"reset", "cleanup"} /\ (at[h] = "reset" => ~ready)
      BY <1>3 DEF CreateEnd, CleanupBegin, OwnerInv, SessionOK, Opening
    <3>3. at[h] = "cleanup" => active = h
      BY DEF DecodeInv, Serving
    <3> QED
      BY <3>1, <3>2, <3>3
  <2> QED
    BY <1>1, <1>2, <2>1, <2>2, OutsideKeepsReply
<1>4. CASE ~(CreateEnd(h) \/ (CleanupBegin(h) /\ active = h))
  <2>1. UNCHANGED text
    BY <1>4 DEF Allocate, CreateBegin, PrefillPrompt, Activate, SetCallback, FailFast, Read,
         ReadClosed, Prefill, CleanupBegin, CleanupEnd, Disconnect, text
  <2> QED
    BY <1>1, <1>2, <2>1, OutsideKeepsReply
<1> QED
  BY <1>3, <1>4

-----------------------------------------------------------------------------
(***************************************************************************)
(* The decode of one session: what changes is that session's handler, decode *)
(* thread and reply, and the text stream.                                   *)
(***************************************************************************)
LEMMA DecodeKeepsReply ==
  ASSUME OwnerInv, DecodeInv, ReplyInv, NEW h \in Handlers, closes = 0, active = h,
         reply' \in [Handlers -> Replies], textQueue' \in Seq(Piece), textDone' \in BOOLEAN,
         \A g \in Handlers \ {h} : /\ at'[g] = at[g] /\ decoder'[g] = decoder[g]
                                   /\ reply'[g] = reply[g],
         at'[h] # "leave",
         at'[h] \in Polling <=> decoder'[h] # "none",
         decoder'[h] = "none" => reply'[h] = NoReply,
         decoder'[h] # "none" => DecodeText(h)'
  PROVE  ReplyInv'
<1>1. ASSUME NEW g \in Handlers \ {h}
      PROVE  /\ at'[g] # "leave"
             /\ at'[g] \in Polling <=> decoder'[g] # "none"
             /\ decoder'[g] = "none" /\ reply'[g] = NoReply
  <2>1. decoder[g] = "none"
    BY DEF DecodeInv, Serving
  <2> QED
    BY <2>1 DEF ReplyInv
<1> QED
  BY <1>1 DEF ReplyInv

LEMMA SubmitKeepsReply ==
  ASSUME OwnerInv, DecodeInv, ReplyInv, closes = 0, NEW h \in Handlers, Submit(h)
  PROVE  ReplyInv'
<1>1. /\ at[h] = "submit" /\ at' = [at EXCEPT ![h] = "poll"]
      /\ textQueue' = <<>> /\ textDone' = FALSE
      /\ decoder' = [decoder EXCEPT ![h] = "called"]
      /\ reply' = reply /\ closes' = closes
  BY DEF Submit, Go, closing
<1>2. at \in [Handlers -> Places] /\ active = h
      /\ decoder \in [Handlers -> DecoderSteps]
  BY <1>1 DEF OwnerInv, PlacesOK, DecodeInv, Serving
<1>3. decoder[h] = "none" /\ reply[h] = NoReply /\ reply \in [Handlers -> Replies]
  BY <1>1 DEF ReplyInv, Polling
<1>4. textQueue' \in Seq(Piece) /\ textDone' \in BOOLEAN
  <2>1. <<>> \in Seq(Piece)
    OBVIOUS
  <2> QED
    BY <1>1, <2>1
<1>5. at'[h] = "poll" /\ decoder'[h] = "called" /\ reply'[h] = NoReply
  BY <1>1, <1>2, <1>3
<1>6. Told(h)' = 0 /\ Owed(h)' = 0 /\ reply[h]'.told = <<>> /\ reply[h]'.spoken = 0
  BY <1>5 DEF Told, Owed, NoReply
<1>7. Silent(h)'
  BY <1>5 DEF Silent
<1>8. DecodeText(h)'
  BY <1>1, <1>5, <1>6, <1>7 DEF DecodeText, Waits
<1> QED
  BY <1>1, <1>2, <1>3, <1>4, <1>5, <1>8, DecodeKeepsReply DEF Polling

\* What the handler knows of its own decode in the poll loop.
LEMMA PollFacts ==
  ASSUME OwnerInv, DecodeInv, ReplyInv, closes = 0, NEW h \in Handlers, at[h] \in Polling
  PROVE  /\ at \in [Handlers -> Places] /\ active = h
         /\ decoder \in [Handlers -> DecoderSteps]
         /\ reply \in [Handlers -> Replies] /\ textQueue \in Seq(Piece) /\ textDone \in BOOLEAN
         /\ decoder[h] # "none" /\ DecodeText(h)
         /\ reply[h].spoken \in Nat /\ reply[h].told \in Seq(Piece)
         /\ Told(h) \in Nat /\ Owed(h) \in Nat
         /\ reply[h].spoken = Told(h) + Owed(h)
<1>1. at \in [Handlers -> Places] /\ active = h
      /\ decoder \in [Handlers -> DecoderSteps]
  BY DEF OwnerInv, PlacesOK, DecodeInv, Serving, Polling
<1>2. /\ reply \in [Handlers -> Replies] /\ textQueue \in Seq(Piece) /\ textDone \in BOOLEAN
      /\ decoder[h] # "none" /\ DecodeText(h)
  BY DEF ReplyInv
<1>3. reply[h].spoken \in Nat /\ reply[h].told \in Seq(Piece)
  BY <1>2 DEF Replies
<1>4. Owed(h) >= 0
  BY <1>2 DEF DecodeText
<1> QED
  BY <1>1, <1>2, <1>3, <1>4 DEF Told, Owed

\* A piece that is taken while the text goes on is the next one owed; the one that ends the
\* text comes only when all before it was sent.
LEMMA PollKeepsReply ==
  ASSUME OwnerInv, DecodeInv, ReplyInv, closes = 0, NEW h \in Handlers, Poll(h)
  PROVE  ReplyInv'
<1> DEFINE q == textQueue
           t == Told(h)
           k == Owed(h)
<1>1. /\ at[h] = "poll" /\ closes' = closes /\ textDone' = textDone
      /\ decoder' = decoder /\ llm' = llm
      /\ textQueue' = IF q = <<>> THEN <<>> ELSE Tail(q)
  BY DEF Poll, Go, closing, workers
<1>2. /\ at \in [Handlers -> Places] /\ active = h
      /\ reply \in [Handlers -> Replies] /\ q \in Seq(Piece) /\ textDone \in BOOLEAN
      /\ decoder[h] # "none" /\ DecodeText(h)
      /\ reply[h].spoken \in Nat /\ reply[h].told \in Seq(Piece)
      /\ t \in Nat /\ k \in Nat /\ reply[h].spoken = t + k
  BY <1>1, PollFacts DEF Polling
<1>3. /\ Waits(h)
      /\ reply[h].told = [n \in 1 .. t |-> Fragment("text", h, n)]
      /\ decoder[h] \in {"called", "posted", "missed", "returned"}
      /\ Silent(h) => reply[h].spoken = 0
      /\ Silent(h) \/ Speaking(h) => ~textDone
      /\ llm.for = h /\ llm.step \in {"listened", "trailed"} => ~textDone
  BY <1>1, <1>2 DEF DecodeText
<1>4. textQueue' \in Seq(Piece)
  BY <1>1, <1>2
<1>5. Silent(h)' = Silent(h) /\ Speaking(h)' = Speaking(h)
  BY <1>1 DEF Silent, Speaking
\* nobody takes the end of the text before the text
<1>6. CASE StreamFinished
  <2>1. reply' = reply /\ at' = [at EXCEPT ![h] = "join"]
    BY <1>6 DEF Poll, Go
  <2>2. textDone /\ Len(q) <= 1
    BY <1>6 DEF StreamFinished
  <2>3. ~Silent(h) /\ ~Speaking(h) /\ Len(q) > k
    BY <1>3, <2>2 DEF Waits
  <2>4. k = 0
    BY <1>2, <2>2, <2>3
  <2>5. at'[h] = "join"
    BY <1>2, <2>1
  <2>6. Told(h)' = t /\ Owed(h)' = 0 /\ reply'[h] = reply[h]
    BY <2>1, <2>4 DEF Told, Owed
  <2>7. DecodeText(h)'
    BY <1>1, <1>3, <1>5, <2>3, <2>5, <2>6 DEF DecodeText
  <2> QED
    BY <1>1, <1>2, <1>4, <2>1, <2>5, <2>7, DecodeKeepsReply DEF Polling
<1>7. CASE ~StreamFinished /\ q = <<>>
  <2>1. reply' = reply /\ at' = [at EXCEPT ![h] = "check"] /\ textQueue' = q
    BY <1>1, <1>7 DEF Poll, Go
  <2>2. at'[h] = "check"
    BY <1>2, <2>1
  <2>3. Told(h)' = t /\ Owed(h)' = k
    BY <2>1 DEF Told, Owed
  <2>4. DecodeText(h)'
    BY <1>1, <1>2, <1>3, <1>5, <2>1, <2>2, <2>3 DEF DecodeText, Waits
  <2> QED
    BY <1>1, <1>2, <1>4, <2>1, <2>2, <2>4, DecodeKeepsReply DEF Polling
<1>8. CASE ~StreamFinished /\ q # <<>>
  <2>1. /\ reply' = Send(h, Head(q))
        /\ at' = [at EXCEPT ![h] = IF Head(q).kind = "listen" THEN "join" ELSE "check"]
        /\ textQueue' = Tail(q)
    BY <1>1, <1>8 DEF Poll, Go
  <2>2. /\ Head(q) = q[1] /\ Head(q) \in Piece /\ Len(q) \in Nat /\ Len(q) > 0
        /\ Len(Tail(q)) = Len(q) - 1
        /\ \A i \in 1 .. Len(Tail(q)) : Tail(q)[i] = q[i + 1]
    BY <1>2, <1>8
  <2>3. CASE k > 0
    <3>1. Head(q) = Fragment("text", h, t + 1)
      BY <1>2, <1>3, <2>2, <2>3 DEF Waits
    <3>2. Head(q).kind = "text"
      BY <3>1 DEF Fragment
    <3>3. reply' = [reply EXCEPT ![h].told = Append(@, Head(q))]
      BY <2>1, <3>2 DEF Send
    <3>4. /\ reply'[h] = [reply[h] EXCEPT !.told = Append(@, Head(q))]
          /\ \A g \in Handlers \ {h} : reply'[g] = reply[g]
      BY <1>2, <3>3
    <3>5. /\ reply'[h].told = Append(reply[h].told, Head(q))
          /\ reply'[h].spoken = reply[h].spoken
          /\ reply'[h] \in Replies
      <4>1. reply[h] \in Replies /\ Append(reply[h].told, Head(q)) \in Seq(Piece)
        BY <1>2, <2>2
      <4> QED
        BY <3>4, <4>1 DEF Replies
    <3>6. reply' \in [Handlers -> Replies]
      BY <1>2, <3>3, <3>5
    <3>7. at'[h] = "check"
      BY <1>2, <2>1, <3>2
    <3>8. Told(h)' = t + 1 /\ Owed(h)' = k - 1
      BY <1>2, <3>5 DEF Told, Owed
    <3>9. reply'[h].told = [n \in 1 .. t + 1 |-> Fragment("text", h, n)]
      BY <1>2, <1>3, <3>1, <3>5 DEF Told
    <3>10. \A i \in 1 .. k - 1 : textQueue'[i] = Fragment("text", h, t + 1 + i)
      <4> SUFFICES ASSUME NEW i \in 1 .. k - 1
                   PROVE  textQueue'[i] = Fragment("text", h, t + 1 + i)
        OBVIOUS
      <4>1. i + 1 \in 1 .. k /\ i \in 1 .. Len(Tail(q))
        BY <1>2, <1>3, <2>2 DEF Waits
      <4>2. q[i + 1] = Fragment("text", h, t + (i + 1))
        BY <1>3, <4>1 DEF Waits
      <4>3. t + (i + 1) = t + 1 + i
        BY <1>2
      <4> QED
        BY <2>1, <2>2, <4>1, <4>2, <4>3
    <3>11. Waits(h)'
      <4>1. CASE Silent(h) \/ Speaking(h)
        <5>1. Len(textQueue') = k - 1
          BY <1>3, <2>1, <2>2, <4>1 DEF Waits
        <5> QED
          BY <1>5, <3>8, <3>10, <4>1, <5>1 DEF Waits
      <4>2. CASE ~(Silent(h) \/ Speaking(h))
        <5>1. Len(q) > k /\ k \in 1 .. Len(Tail(q))
          BY <1>2, <1>3, <2>2, <2>3, <4>2 DEF Waits
        <5>2. textQueue'[k] = q[k + 1] /\ Len(textQueue') = Len(q) - 1
          BY <2>1, <2>2, <5>1
        <5>3. /\ Len(textQueue') > k - 1
              /\ (k - 1) + 1 = k
              /\ Len(q) = k + 1 => Len(textQueue') = (k - 1) + 1
          BY <1>2, <2>2, <5>1, <5>2
        <5>4. \/ q[k + 1].kind = "listen"
              \/ q[k + 1].kind = "end" /\ Len(q) = k + 1 /\ textDone
          BY <1>3, <4>2 DEF Waits
        <5> QED
          BY <1>1, <1>5, <3>8, <3>10, <4>2, <5>2, <5>3, <5>4 DEF Waits
      <4> QED
        BY <4>1, <4>2
    <3>12. DecodeText(h)'
      <4>1. k - 1 >= 0 /\ (Silent(h) => FALSE)
        BY <1>2, <1>3, <2>3
      <4> QED
        BY <1>1, <1>3, <1>5, <3>7, <3>8, <3>9, <3>11, <4>1 DEF DecodeText
    <3> QED
      BY <1>1, <1>2, <1>4, <2>1, <3>4, <3>6, <3>7, <3>12, DecodeKeepsReply DEF Polling
  <2>4. CASE k = 0
    <3>1. ~Silent(h) /\ ~Speaking(h)
      BY <1>3, <2>2, <2>4 DEF Waits
    <3>2. Head(q).kind = "listen"
      <4>1. ~(q[1].kind = "end" /\ Len(q) = 1 /\ textDone)
        <5>1. ~(textDone /\ Len(q) <= 1)
          BY <1>8 DEF StreamFinished
        <5>2. Len(q) = 1 => Len(q) <= 1
          BY <2>2
        <5> QED
          BY Zenon, <5>1, <5>2
      <4> QED
        BY <1>3, <2>2, <2>4, <3>1, <4>1 DEF Waits
    <3>3. reply' = [reply EXCEPT ![h].reported = TRUE] /\ at' = [at EXCEPT ![h] = "join"]
      BY <2>1, <3>2 DEF Send
    <3>4. /\ reply'[h] = [reply[h] EXCEPT !.reported = TRUE]
          /\ \A g \in Handlers \ {h} : reply'[g] = reply[g]
      BY <1>2, <3>3
    <3>5. /\ reply'[h].told = reply[h].told /\ reply'[h].spoken = reply[h].spoken
          /\ reply'[h] \in Replies
      <4>1. reply[h] \in Replies
        BY <1>2
      <4> QED
        BY <3>4, <4>1 DEF Replies
    <3>6. reply' \in [Handlers -> Replies]
      BY <1>2, <3>3, <3>5
    <3>7. at'[h] = "join"
      BY <1>2, <3>3
    <3>8. Told(h)' = t /\ Owed(h)' = 0
      BY <2>4, <3>5 DEF Told, Owed
    <3>9. DecodeText(h)'
      BY <1>1, <1>3, <1>5, <3>1, <3>5, <3>7, <3>8 DEF DecodeText
    <3> QED
      BY <1>1, <1>2, <1>4, <3>3, <3>4, <3>6, <3>7, <3>9, DecodeKeepsReply DEF Polling
  <2> QED
    BY <1>2, <2>3, <2>4
<1> QED
  BY <1>6, <1>7, <1>8

LEMMA CheckKeepsReply ==
  ASSUME OwnerInv, DecodeInv, ReplyInv, closes = 0, NEW h \in Handlers, Check(h)
  PROVE  ReplyInv'
<1>1. /\ at[h] = "check" /\ UNCHANGED <<text, decoder, llm, reply, closes>>
      /\ at' = [at EXCEPT ![h] = IF active = h THEN "poll" ELSE "leave"]
  BY DEF Check, Go, closing, workers
<1>2. /\ at \in [Handlers -> Places] /\ active = h
      /\ reply \in [Handlers -> Replies] /\ textQueue \in Seq(Piece) /\ textDone \in BOOLEAN
      /\ decoder[h] # "none" /\ DecodeText(h)
  BY <1>1, PollFacts DEF Polling
<1>3. at'[h] = "poll"
  BY <1>1, <1>2
<1>4. DecodeText(h)'
  BY <1>1, <1>2, <1>3 DEF DecodeText, Waits, Told, Owed, Silent, Speaking, text
<1> QED
  BY <1>1, <1>2, <1>3, <1>4, DecodeKeepsReply DEF Polling, text

LEMMA JoinKeepsReply ==
  ASSUME OwnerInv, DecodeInv, ReplyInv, closes = 0, NEW h \in Handlers, Join(h)
  PROVE  ReplyInv'
<1>1. at[h] = "join"
  BY DEF Join, ReplyInv
<1>2. /\ UNCHANGED <<text, closes>>
      /\ at' = [at EXCEPT ![h] = "read"]
      /\ decoder' = [decoder EXCEPT ![h] = "none"]
      /\ reply' = [reply EXCEPT ![h] = NoReply]
  BY <1>1 DEF Join, Go, closing
<1>3. /\ at \in [Handlers -> Places] /\ active = h
      /\ decoder \in [Handlers -> DecoderSteps]
      /\ reply \in [Handlers -> Replies] /\ textQueue \in Seq(Piece) /\ textDone \in BOOLEAN
  BY <1>1, PollFacts DEF Polling
<1>4. NoReply \in Replies
  BY DEF NoReply, Replies, Piece
<1>5. reply' \in [Handlers -> Replies] /\ reply'[h] = NoReply
  BY <1>2, <1>3, <1>4
<1>6. at'[h] = "read" /\ decoder'[h] = "none"
  BY <1>2, <1>3
<1> QED
  BY <1>2, <1>3, <1>5, <1>6, DecodeKeepsReply DEF Polling, text

-----------------------------------------------------------------------------
\* The decode thread posts its request and comes back with the answer: without a close
\* request the pipeline of the ACTIVE session is up, and the old path is not taken.
LEMMA DecoderKeepsReply ==
  ASSUME OwnerInv, DecodeInv, ReplyInv, closes = 0, NEW h \in Handlers, Decode(h)
  PROVE  ReplyInv'
<1>1. decoder[h] # "none" /\ decoder[h] \in {"called", "posted", "waiting", "alone"}
  BY DEF Decode, DecodeEnter, DecodeFails, DecodeFallsBack, DecodeAlone, AloneSpeak, AloneFinish
<1>2. at[h] \in Polling
  BY <1>1 DEF ReplyInv
<1>3. /\ at \in [Handlers -> Places] /\ active = h
      /\ decoder \in [Handlers -> DecoderSteps]
      /\ reply \in [Handlers -> Replies] /\ textQueue \in Seq(Piece) /\ textDone \in BOOLEAN
      /\ DecodeText(h)
  BY <1>2, PollFacts
<1>4. pipe = "up"
  <2>1. active = h /\ ready /\ at[h] # "drop" /\ http.at = "idle"
    BY <1>2 DEF DecodeInv, Serving, Polling
  <2>2. lock # "http"
    BY <2>1 DEF OwnerInv, LockOK
  <2> QED
    BY <2>1, <2>2 DEF OwnerInv, ContextOK
<1>5. decoder[h] \in {"called", "posted"}
  BY <1>1, <1>3 DEF DecodeText
<1>6. DecodeEnter(h)
  BY <1>4, <1>5 DEF Decode, DecodeFails, DecodeFallsBack, DecodeAlone, AloneSpeak, AloneFinish
<1>7. /\ decoder[h] = "called" /\ decoder' = [decoder EXCEPT ![h] = "posted"]
      /\ UNCHANGED <<text, at, llm, reply, closes>>
  BY <1>4, <1>6 DEF DecodeEnter, workers, closing
<1>8. decoder'[h] = "posted"
  BY <1>3, <1>7
<1>9. llm.for # h
  BY <1>7, HandlersAssumption DEF DecodeInv
<1>10. Silent(h) /\ Silent(h)'
  BY <1>7, <1>8, <1>9 DEF Silent
<1>11. DecodeText(h)'
  BY <1>3, <1>7, <1>8, <1>10 DEF DecodeText, Waits, Told, Owed, text
<1> QED
  BY <1>2, <1>3, <1>7, <1>8, <1>11, DecodeKeepsReply DEF Polling, text

\* What is known of the decode that the LLM thread works on.
LEMMA LlmFacts ==
  ASSUME OwnerInv, DecodeInv, ReplyInv, closes = 0, NEW h \in Handlers, llm.for = h
  PROVE  /\ llm \in [step : {"idle", "begin", "speak", "listened", "trailed", "answer"},
                     for : Handlers \cup {None}]
         /\ decoder[h] = "posted" /\ at[h] \in Polling /\ DecodeText(h)
         /\ active = h /\ at[h] # "leave"
         /\ decoder \in [Handlers -> DecoderSteps]
         /\ reply \in [Handlers -> Replies] /\ textQueue \in Seq(Piece) /\ textDone \in BOOLEAN
         /\ reply[h].spoken \in Nat /\ reply[h].told \in Seq(Piece)
         /\ Told(h) \in Nat /\ Owed(h) \in Nat
         /\ reply[h].spoken = Told(h) + Owed(h)
<1>1. /\ llm \in [step : {"idle", "begin", "speak", "listened", "trailed", "answer"},
                  for : Handlers \cup {None}]
      /\ decoder[h] = "posted"
  BY HandlersAssumption DEF DecodeInv
<1>2. at[h] \in Polling /\ at[h] # "leave"
  BY <1>1 DEF ReplyInv
<1> QED
  BY <1>1, <1>2, PollFacts

LEMMA TakeKeepsReply ==
  ASSUME OwnerInv, DecodeInv, ReplyInv, closes = 0, NEW h \in Handlers, LlmTake(h)
  PROVE  ReplyInv'
<1>1. /\ llm = LlmIdle /\ llm' = [step |-> "begin", for |-> h] /\ decoder[h] = "posted"
      /\ UNCHANGED <<text, at, decoder, reply, closes>>
  BY DEF LlmTake, closing
<1>2. at[h] \in Polling /\ at[h] # "leave"
  BY <1>1 DEF ReplyInv
<1>3. /\ active = h
      /\ reply \in [Handlers -> Replies] /\ textQueue \in Seq(Piece) /\ textDone \in BOOLEAN
      /\ DecodeText(h)
  BY <1>2, PollFacts
<1>4. llm.for # h /\ llm'.for = h /\ llm'.step = "begin"
  BY <1>1, HandlersAssumption DEF LlmIdle
<1>5. Silent(h) /\ Silent(h)'
  BY <1>1, <1>4 DEF Silent
<1>6. DecodeText(h)'
  BY <1>1, <1>3, <1>4, <1>5 DEF DecodeText, Waits, Told, Owed, text
<1> QED
  BY <1>1, <1>2, <1>3, <1>6, DecodeKeepsReply DEF Polling, text

\* The LLM thread's steps on the text of one decode.
LEMMA TextKeepsReply ==
  ASSUME OwnerInv, DecodeInv, ReplyInv, closes = 0, NEW h \in Handlers, llm.for = h,
         LlmBegin \/ LlmSpeak \/ LlmListen \/ LlmTrail \/ LlmForcedListen \/ LlmFinish
  PROVE  ReplyInv'
<1> DEFINE q == textQueue
           t == Told(h)
           k == Owed(h)
<1>1. /\ llm \in [step : {"idle", "begin", "speak", "listened", "trailed", "answer"},
                  for : Handlers \cup {None}]
      /\ decoder[h] = "posted" /\ at[h] \in Polling /\ DecodeText(h)
      /\ active = h /\ at[h] # "leave"
      /\ reply \in [Handlers -> Replies] /\ q \in Seq(Piece) /\ textDone \in BOOLEAN
      /\ reply[h].spoken \in Nat /\ reply[h].told \in Seq(Piece)
      /\ t \in Nat /\ k \in Nat /\ reply[h].spoken = t + k
  BY LlmFacts
<1>2. UNCHANGED <<at, decoder, closes>> /\ llm'.for = h
  BY <1>1 DEF LlmBegin, LlmSpeak, LlmListen, LlmTrail, LlmForcedListen, LlmFinish, closing,
            workers
<1>3. /\ reply[h].told = [n \in 1 .. t |-> Fragment("text", h, n)]
      /\ Silent(h) => reply[h].spoken = 0
      /\ Silent(h) \/ Speaking(h) => ~textDone /\ at[h] # "join"
      /\ llm.step \in {"listened", "trailed"} => ~textDone
      /\ IF at[h] = "join" THEN k = 0 ELSE Waits(h)
  BY <1>1 DEF DecodeText
<1>4. /\ Silent(h) <=> llm.step = "begin"
      /\ Silent(h)' <=> llm'.step = "begin"
      /\ Speaking(h) <=> llm.step = "speak"
      /\ Speaking(h)' <=> llm'.step = "speak"
  BY <1>1, <1>2 DEF Silent, Speaking
<1> HIDE DEF q, t, k
\* what it is enough to show of the reply and of the queue
<1>5. ASSUME reply' \in [Handlers -> Replies], textQueue' \in Seq(Piece), textDone' \in BOOLEAN,
             \A g \in Handlers \ {h} : reply'[g] = reply[g],
             DecodeText(h)'
      PROVE  ReplyInv'
  BY <1>1, <1>2, <1>5, DecodeKeepsReply
<1>6. \A kind \in {"text", "listen", "end"}, n \in Nat : Fragment(kind, h, n) \in Piece
  BY DEF Fragment, Piece
<1>7. CASE LlmBegin
  <2>1. /\ llm.step = "begin" /\ llm'.step = "speak"
        /\ textQueue' = <<>> /\ textDone' = FALSE /\ reply' = reply
    BY <1>1, <1>7 DEF LlmBegin
  <2>2. reply[h].spoken = 0 /\ at[h] # "join" /\ t = 0 /\ k = 0
    BY <1>1, <1>3, <1>4, <2>1
  <2>3. Told(h)' = 0 /\ Owed(h)' = 0 /\ reply'[h] = reply[h]
    BY <2>1, <2>2 DEF Told, Owed, t, k
  <2>4. DecodeText(h)'
    BY <1>1, <1>2, <1>3, <1>4, <2>1, <2>2, <2>3 DEF DecodeText, Waits
  <2>5. textQueue' \in Seq(Piece)
    <3>1. <<>> \in Seq(Piece)
      OBVIOUS
    <3> QED
      BY <2>1, <3>1
  <2> QED
    BY <1>1, <1>5, <2>1, <2>4, <2>5
<1>8. CASE LlmSpeak
  <2>1. /\ llm.step = "speak" /\ llm' = llm /\ textDone' = textDone
        /\ textQueue' = Append(q, Fragment("text", h, reply[h].spoken + 1))
        /\ reply' = [reply EXCEPT ![h].spoken = @ + 1]
    BY <1>8 DEF LlmSpeak, Push, workers, q
  <2>2. at[h] # "join" /\ ~textDone /\ Waits(h) /\ Len(q) = k
    BY <1>3, <1>4, <2>1 DEF Waits, q, k
  <2>3. /\ reply'[h] = [reply[h] EXCEPT !.spoken = @ + 1]
        /\ \A g \in Handlers \ {h} : reply'[g] = reply[g]
    BY <1>1, <2>1
  <2>4. /\ reply'[h].told = reply[h].told
        /\ reply'[h].spoken = reply[h].spoken + 1
        /\ reply'[h] \in Replies
    <3>1. reply[h] \in Replies /\ reply[h].spoken + 1 \in Nat
      BY <1>1
    <3> QED
      BY <2>3, <3>1 DEF Replies
  <2>5. reply' \in [Handlers -> Replies]
    BY <1>1, <2>1, <2>4
  <2>6. Told(h)' = t /\ Owed(h)' = k + 1
    BY <1>1, <2>4 DEF Told, Owed, t, k
  <2>7. textQueue' \in Seq(Piece) /\ Len(textQueue') = k + 1
        /\ textQueue'[k + 1] = Fragment("text", h, t + (k + 1))
        /\ \A i \in 1 .. k : textQueue'[i] = q[i]
    <3>1. Fragment("text", h, reply[h].spoken + 1) \in Piece
          /\ reply[h].spoken + 1 = t + (k + 1)
      BY <1>1, <1>6
    <3> QED
      BY <1>1, <2>1, <2>2, <3>1
  <2>8. \A i \in 1 .. k + 1 : textQueue'[i] = Fragment("text", h, t + i)
    <3> SUFFICES ASSUME NEW i \in 1 .. k + 1 PROVE textQueue'[i] = Fragment("text", h, t + i)
      OBVIOUS
    <3>1. CASE i = k + 1
      BY <2>7, <3>1
    <3>2. CASE i \in 1 .. k
      BY <2>2, <2>7, <3>2 DEF Waits, q, t, k
    <3> QED
      BY <1>1, <3>1, <3>2
  <2>9. Waits(h)'
    BY <1>4, <2>1, <2>6, <2>7, <2>8 DEF Waits
  <2>10. DecodeText(h)'
    <3>1. k + 1 >= 0 /\ ~Silent(h)' /\ llm'.step = "speak"
      BY <1>1, <1>4, <2>1
    <3> QED
      BY <1>1, <1>2, <1>3, <2>1, <2>2, <2>4, <2>6, <2>9, <3>1 DEF DecodeText
  <2> QED
    BY <1>1, <1>5, <2>1, <2>3, <2>5, <2>7, <2>10
\* the fragment that ends the text
<1>9. CASE LlmListen \/ LlmForcedListen \/ (LlmFinish /\ llm.step = "speak")
  <2>1. /\ llm.step = "speak" /\ llm'.step \in {"listened", "answer"}
        /\ \E kind \in {"listen", "end"} :
               /\ textQueue' = Append(q, Fragment(kind, h, 0))
               /\ textDone' \in BOOLEAN
               /\ kind = "end" => textDone'
               /\ llm'.step = "listened" => textDone' = textDone
        /\ reply' = reply \/ reply' = [reply EXCEPT ![h].listened = TRUE]
    BY <1>1, <1>9 DEF LlmListen, LlmForcedListen, LlmFinish, FlagSet, Push, q
  <2>2. at[h] # "join" /\ ~textDone /\ Waits(h) /\ Len(q) = k
    BY <1>3, <1>4, <2>1 DEF Waits, q, k
  <2>3. \A g \in Handlers \ {h} : reply'[g] = reply[g]
    BY <1>1, <2>1
  <2>4. /\ reply'[h].told = reply[h].told
        /\ reply'[h].spoken = reply[h].spoken
        /\ reply'[h] \in Replies
    <3>1. reply[h] \in Replies
      BY <1>1
    <3>2. reply'[h] = reply[h] \/ reply'[h] = [reply[h] EXCEPT !.listened = TRUE]
      BY <1>1, <2>1
    <3> QED
      BY <3>1, <3>2 DEF Replies
  <2>5. reply' \in [Handlers -> Replies]
    BY <1>1, <2>1, <2>4
  <2>6. Told(h)' = t /\ Owed(h)' = k
    BY <1>1, <2>4 DEF Told, Owed, t, k
  <2>7. PICK kind \in {"listen", "end"} : /\ textQueue' = Append(q, Fragment(kind, h, 0))
                                          /\ textDone' \in BOOLEAN
                                          /\ kind = "end" => textDone'
    BY <2>1
  <2>8. /\ textQueue' \in Seq(Piece) /\ Len(textQueue') = k + 1
        /\ textQueue'[k + 1].kind = kind
        /\ \A i \in 1 .. k : textQueue'[i] = Fragment("text", h, t + i)
    <3>1. Fragment(kind, h, 0) \in Piece /\ Fragment(kind, h, 0).kind = kind
      BY <1>6 DEF Fragment
    <3>2. \A i \in 1 .. k : q[i] = Fragment("text", h, t + i)
      BY <2>2 DEF Waits, q, t, k
    <3> QED
      BY <1>1, <2>2, <2>7, <3>1, <3>2
  <2>9. ~Silent(h)' /\ ~Speaking(h)'
    BY <1>4, <2>1
  <2>10. Waits(h)'
    <3>1. k + 1 > k
      BY <1>1
    <3> QED
      BY <2>6, <2>7, <2>8, <2>9, <3>1 DEF Waits
  <2>11. DecodeText(h)'
    <3>1. k >= 0 /\ llm'.step # "trailed" /\ (llm'.step = "listened" => ~textDone')
      BY <1>1, <2>1, <2>2
    <3> QED
      BY <1>1, <1>2, <1>3, <2>2, <2>4, <2>6, <2>9, <2>10, <3>1 DEF DecodeText
  <2> QED
    BY <1>5, <2>3, <2>5, <2>7, <2>8, <2>11
<1>10. CASE LlmTrail \/ (LlmFinish /\ llm.step # "speak")
  <2>1. /\ llm.step \in {"listened", "trailed"} /\ llm'.step \in {"trailed", "answer"}
        /\ textQueue' = q \/ textQueue' = Append(q, Fragment("text", h, 0))
        /\ textDone' \in BOOLEAN /\ (llm'.step = "trailed" => textDone' = textDone)
        /\ reply' = reply
    BY <1>1, <1>10 DEF LlmTrail, LlmFinish, FlagSet, Push, q
  <2>2. ~textDone /\ ~Silent(h) /\ ~Speaking(h) /\ ~Silent(h)' /\ ~Speaking(h)'
    BY <1>3, <1>4, <2>1
  <2>3. Told(h)' = t /\ Owed(h)' = k
    BY <2>1 DEF Told, Owed, t, k
  <2>4. /\ textQueue' \in Seq(Piece) /\ Len(textQueue') >= Len(q)
        /\ \A i \in 1 .. Len(q) : textQueue'[i] = q[i]
    <3>1. Fragment("text", h, 0) \in Piece
      BY <1>6
    <3>2. CASE textQueue' = q
      BY <1>1, <3>2
    <3>3. CASE textQueue' = Append(q, Fragment("text", h, 0))
      BY <1>1, <3>1, <3>3
    <3> QED
      BY <2>1, <3>2, <3>3
  <2>5. ASSUME at[h] # "join" PROVE Waits(h)'
    <3>1. /\ \A i \in 1 .. k : q[i] = Fragment("text", h, t + i)
          /\ Len(q) > k /\ q[k + 1].kind = "listen"
      BY <1>3, <2>2, <2>5 DEF Waits, q, t, k
    <3>2. Len(q) \in Nat /\ Len(textQueue') \in Nat /\ k + 1 \in 1 .. Len(q)
          /\ \A i \in 1 .. k : i \in 1 .. Len(q)
      BY <1>1, <2>4, <3>1
    <3>3. /\ \A i \in 1 .. k : textQueue'[i] = Fragment("text", h, t + i)
          /\ Len(textQueue') > k /\ textQueue'[k + 1].kind = "listen"
      BY <1>1, <2>4, <3>1, <3>2
    <3> QED
      BY <2>2, <2>3, <3>3 DEF Waits
  <2>6. DecodeText(h)'
    <3>1. k >= 0 /\ llm'.step # "listened" /\ (llm'.step = "trailed" => ~textDone')
      BY <1>1, <2>1, <2>2
    <3>2. at[h] = "join" => k = 0
      BY <1>3
    <3> QED
      BY <1>1, <1>2, <1>3, <2>1, <2>2, <2>3, <2>5, <3>1, <3>2 DEF DecodeText
  <2> QED
    BY <1>1, <1>5, <2>1, <2>4, <2>6
<1> QED
  BY <1>7, <1>8, <1>9, <1>10

LEMMA AnswerKeepsReply ==
  ASSUME OwnerInv, DecodeInv, ReplyInv, closes = 0, NEW h \in Handlers, llm.for = h, LlmAnswer
  PROVE  ReplyInv'
<1>1. /\ decoder[h] = "posted" /\ at[h] \in Polling /\ DecodeText(h)
      /\ active = h /\ at[h] # "leave"
      /\ decoder \in [Handlers -> DecoderSteps]
      /\ reply \in [Handlers -> Replies] /\ textQueue \in Seq(Piece) /\ textDone \in BOOLEAN
  BY LlmFacts
<1>2. /\ llm.step = "answer" /\ llm' = LlmIdle
      /\ decoder'[h] \in {"missed", "returned"}
      /\ \A g \in Handlers \ {h} : decoder'[g] = decoder[g]
      /\ UNCHANGED <<text, at, reply, closes>>
  <2>1. \A g \in Handlers \ {h} : decoder[g] = "none"
    BY <1>1 DEF DecodeInv, Serving
  <2> QED
    BY <1>1, <2>1 DEF LlmAnswer, Woken, closing
<1>3. llm'.for # h
  BY <1>1, <1>2, HandlersAssumption DEF LlmIdle
<1>4. ~Silent(h) /\ ~Speaking(h) /\ ~Silent(h)' /\ ~Speaking(h)'
  BY <1>1, <1>2, <1>3 DEF Silent, Speaking
<1>5. DecodeText(h)'
  BY <1>1, <1>2, <1>3, <1>4 DEF DecodeText, Waits, Told, Owed, text
<1> QED
  BY <1>1, <1>2, <1>3, <1>5, DecodeKeepsReply DEF Polling, text

LEMMA ReplyStep == OwnerInv /\ DecodeInv /\ ReplyInv /\ [Next]_vars => ReplyInv'
<1> SUFFICES ASSUME OwnerInv, DecodeInv, ReplyInv, [Next]_vars PROVE ReplyInv'
  OBVIOUS
<1>1. closes \in Nat /\ DecodeInv'
  BY HandlerKeepsDecode, DecoderKeepsDecode, RestKeepsDecode DEF Next, DecodeInv
<1>2. CASE closes # 0 \/ CloseRequest
  <2>1. closes' = closes \/ closes' = closes + 1
    BY DEF Next, Handle, Decode, Client, Llm, Http, CloseRequest, CloseBegin, CloseEnd,
         closing, vars, Allocate, CreateBegin, CreateEnd, PrefillPrompt, Activate,
         SetCallback, FailFast, Read, ReadClosed, Prefill, Submit, Poll, Check, Join,
         CleanupBegin, CleanupEnd, Disconnect, DecodeEnter, DecodeFails, DecodeFallsBack,
         DecodeAlone, AloneSpeak, AloneFinish, LlmTake, LlmBegin, LlmSpeak, LlmListen,
         LlmTrail, LlmForcedListen, LlmFinish, LlmAnswer
  <2>2. CloseRequest => closes' = closes + 1
    BY DEF CloseRequest
  <2>3. closes' # 0
    BY <1>1, <1>2, <2>1, <2>2
  <2> QED
    BY <2>3 DEF ReplyInv
<1>3. CASE closes = 0 /\ ~CloseRequest
  <2>1. ASSUME NEW h \in Handlers, Handle(h) \/ Client(h) PROVE ReplyInv'
    BY <1>3, <2>1, OutsideStep, SubmitKeepsReply, PollKeepsReply, CheckKeepsReply, JoinKeepsReply
    DEF Handle, Client
  <2>2. ASSUME NEW h \in Handlers, Decode(h) PROVE ReplyInv'
    BY <1>3, <2>2, DecoderKeepsReply
  <2>3. ASSUME NEW h \in Handlers, LlmTake(h) PROVE ReplyInv'
    BY <1>3, <2>3, TakeKeepsReply
  <2>4. CASE LlmBegin \/ LlmSpeak \/ LlmListen \/ LlmTrail \/ LlmForcedListen \/ LlmFinish
             \/ LlmAnswer
    <3>1. llm.step # "idle"
      BY <2>4 DEF LlmBegin, LlmSpeak, LlmListen, LlmTrail, LlmForcedListen, LlmFinish, LlmAnswer
    <3>2. llm.for \in Handlers
      BY <1>3, <3>1 DEF DecodeInv, LlmIdle
    <3>3. PICK h \in Handlers : llm.for = h
      BY <3>2
    <3> QED
      BY <1>3, <2>4, <3>3, TextKeepsReply, AnswerKeepsReply
  <2>5. ~Http
    <3>1. http.at = "idle"
      BY <1>3 DEF DecodeInv
    <3> QED
      BY <3>1 DEF Http, CloseBegin, CloseEnd
  <2>6. CASE UNCHANGED vars
    BY <2>6 DEF vars, text, workers, closing, ReplyInv, DecodeText, Waits, Told, Owed, Silent,
                Speaking
  <2> QED
    BY <1>3, <2>1, <2>2, <2>3, <2>4, <2>5, <2>6 DEF Next, Llm
<1> QED
  BY <1>2, <1>3

\* Without a close request the client is sent the whole text of each decode, in order and once.
THEOREM RepliesWhole == Spec => []ReplyIsWhole
<1>1. ReplyInv => ReplyIsWhole
  <2> SUFFICES ASSUME ReplyInv, closes = 0, NEW h \in Handlers, at[h] = "join"
               PROVE  reply[h].told = [n \in 1 .. reply[h].spoken |-> Fragment("text", h, n)]
    BY DEF ReplyIsWhole
  <2>1. DecodeText(h) /\ reply[h] \in Replies
    BY DEF ReplyInv, Polling
  <2>2. Len(reply[h].told) \in Nat /\ reply[h].spoken \in Nat
    BY <2>1 DEF Replies
  <2>3. reply[h].spoken - Len(reply[h].told) = 0
    BY <2>1 DEF DecodeText, Owed
  <2>4. Len(reply[h].told) = reply[h].spoken
    BY <2>2, <2>3
  <2> QED
    BY <2>1, <2>4 DEF DecodeText, Told
<1>2. OwnerInv /\ DecodeInv /\ [Next]_vars => DecodeInv'
  BY HandlerKeepsDecode, DecoderKeepsDecode, RestKeepsDecode DEF Next
<1> QED
  BY <1>1, <1>2, OwnerInit, OwnerStep, DecodeInit, ReplyInit, ReplyStep, PTL DEF Spec

=============================================================================
