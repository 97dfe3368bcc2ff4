------------------------- MODULE DuplexSessionProofs -------------------------
(***************************************************************************)
(* Proofs about DuplexSession, for every capacity, number of frames and     *)
(* number of sessions: the order of the results, the counter in_flight, and *)
(* that the session is a client of the kind the pipeline's proofs assume.   *)
(***************************************************************************)
EXTENDS DuplexSession, DuplexPipelineProofs, SequenceTheorems

-----------------------------------------------------------------------------
(***************************************************************************)
(* How far the frames of a session have come: Reported have a result, InDecode *)
(* count the decode worker's frame too, HandedOver those that wait for it,  *)
(* Fetched the prefill worker's frame, Pushed those in pending_frames.      *)
(***************************************************************************)
Reported   == taken + Len(doneResults)
InDecode   == Reported + Queued("decoder")
HandedOver == InDecode + Len(decodePending)
Fetched    == HandedOver + Queued("prefiller")
Pushed     == Fetched + Len(pendingFrames)

Results == [frame : Nat, ok : BOOLEAN, text : Nat]

KindsOK ==
    /\ pendingFrames \in Seq(Nat) /\ decodePending \in Seq(Nat)
    /\ doneResults \in Seq(Results)
    /\ session \in {"none", "up", "ending"}
    /\ lastId \in Nat /\ taken \in Nat /\ base \in Nat /\ outstanding \in Int /\ text \in Nat
    /\ at \in [Roles -> {"off", "idle", "push", "count", "take", "call", "in", "uncount", "wait"}]
    /\ held \in [Roles -> Nat]

\* What the place of a thread says of what it holds, and of the call it is in.
PlaceOK ==
    /\ at["prefiller"] \in {"off", "take", "call", "in"}
    /\ at["decoder"] \in {"off", "take", "call", "in", "uncount"}
    /\ at["producer"] \in {"idle", "push", "count"}
    /\ held["prefiller"] # 0 <=> at["prefiller"] \in {"call", "in"}
    /\ held["decoder"] # 0 <=> at["decoder"] \in {"call", "in"}
    /\ held["producer"] # 0 <=> at["producer"] = "push"
    /\ pc["sub"] # "idle" => at["prefiller"] = "in"
    /\ pc["dec"] # "idle" => at["decoder"] = "in"

\* A session has a running pipeline; one that ends is empty.
LifeOK ==
    /\ session # "none" => Running
    /\ session # "up" => /\ at["prefiller"] \in {"take", "off"} /\ at["decoder"] \in {"take", "off"}
                         /\ at["producer"] = "idle"
                         /\ pendingFrames = <<>> /\ decodePending = <<>>
    /\ session = "none" => /\ at["prefiller"] = "off" /\ at["decoder"] = "off"
                           /\ doneResults = <<>>
                           /\ lastId = 0 /\ taken = 0 /\ outstanding = 0

\* The frames of a session are numbered without a gap from the oldest result on.
FramesInv ==
    /\ \A i \in 1..Len(doneResults) : doneResults[i].frame = taken + i
    /\ held["decoder"] # 0 => held["decoder"] = Reported + 1
    /\ Consecutive(decodePending, InDecode)
    /\ held["prefiller"] # 0 => held["prefiller"] = HandedOver + 1
    /\ Consecutive(pendingFrames, Fetched)
    /\ held["producer"] # 0 => held["producer"] = Pushed + 1
    /\ lastId = Pushed + Queued("producer")

\* A worker whose call is over holds a frame that the pipeline has counted already.
AcceptedOne == IF at["prefiller"] = "in" /\ pc["sub"] = "idle" THEN 1 ELSE 0
HandledOne  == IF at["decoder"] = "in" /\ pc["dec"] = "idle" THEN 1 ELSE 0

\* The pipeline's own counters against the session's queues.
TallyInv ==
    /\ accepted = base + HandedOver + AcceptedOne
    /\ handled = base + Reported + HandledOne

CountInv ==
    outstanding + Reached("producer", "count") =
        Len(pendingFrames) + Queued("prefiller") + Len(decodePending)
        + Queued("decoder") + Reached("decoder", "uncount")

SessionInv == TypeInv /\ KindsOK /\ PlaceOK /\ LifeOK /\ FramesInv /\ TallyInv /\ CountInv

LEMMA SessionInitInv == SessionInit => SessionInv
<1> SUFFICES ASSUME SessionInit PROVE SessionInv
  OBVIOUS
<1>1. TypeInv
  BY TypeInit DEF SessionInit
<1>2. KindsOK /\ PlaceOK /\ LifeOK
  BY DEF SessionInit, Init, KindsOK, PlaceOK, LifeOK, Roles, Threads
<1>3. FramesInv /\ TallyInv /\ CountInv
  BY OneFacts DEF SessionInit, Init, FramesInv, TallyInv, CountInv, Consecutive, Reported, InDecode, AcceptedOne, HandledOne,
     HandedOver, Fetched, Pushed, Queued, Reached, Roles
<1> QED
  BY <1>1, <1>2, <1>3 DEF SessionInv

\* What the invariant gives every step below.
LEMMA SessionBasics ==
  ASSUME SessionInv
  PROVE  /\ Reported \in Nat /\ InDecode \in Nat /\ HandedOver \in Nat
         /\ Fetched \in Nat /\ Pushed \in Nat
         /\ Len(doneResults) \in Nat /\ Len(decodePending) \in Nat /\ Len(pendingFrames) \in Nat
         /\ taken \in Nat /\ base \in Nat /\ lastId \in Nat
         /\ accepted \in Nat /\ handled \in Nat
         /\ Queued("decoder") = IF held["decoder"] = 0 THEN 0 ELSE 1
         /\ Queued("prefiller") = IF held["prefiller"] = 0 THEN 0 ELSE 1
         /\ Queued("producer") = IF held["producer"] = 0 THEN 0 ELSE 1
         /\ held["decoder"] \in Nat /\ held["prefiller"] \in Nat /\ held["producer"] \in Nat
<1>1. /\ taken \in Nat /\ base \in Nat /\ lastId \in Nat
      /\ Len(doneResults) \in Nat /\ Len(decodePending) \in Nat /\ Len(pendingFrames) \in Nat
      /\ held["decoder"] \in Nat /\ held["prefiller"] \in Nat /\ held["producer"] \in Nat
  BY DEF SessionInv, KindsOK, Roles
<1>2. /\ Queued("decoder") = IF held["decoder"] = 0 THEN 0 ELSE 1
      /\ Queued("prefiller") = IF held["prefiller"] = 0 THEN 0 ELSE 1
      /\ Queued("producer") = IF held["producer"] = 0 THEN 0 ELSE 1
  BY OneFacts DEF Queued
<1>3. accepted \in Nat /\ handled \in Nat
  BY Basics DEF SessionInv
<1> QED
  BY SMTT(40), <1>1, <1>2, <1>3 DEF Reported, InDecode, HandedOver, Fetched, Pushed

-----------------------------------------------------------------------------
(***************************************************************************)
(* The session calls the pipeline as Next allows: a decode comes after its  *)
(* prefill was accepted, a stop when all frames are handled.                *)
(***************************************************************************)
LEMMA ClientStep == SessionInv /\ [SessionNext]_allVars => [Next]_vars
<1> SUFFICES ASSUME SessionInv, [SessionNext]_allVars PROVE [Next]_vars
  OBVIOUS
<1>1. CASE BeginSession
  BY <1>1 DEF BeginSession, Next, Control
<1>2. CASE PrefillerCall
  BY <1>2 DEF PrefillerCall, Next
<1>3. CASE DecoderCall
  <2>1. held["decoder"] # 0 /\ pc["dec"] = "idle" /\ at["decoder"] = "call"
    BY <1>3 DEF DecoderCall, Move, SessionInv, PlaceOK, EnterDecode, At
  <2>2. HandedOver >= Reported + 1
    BY <2>1, SessionBasics DEF HandedOver, InDecode
  <2>3. handled = base + Reported
    BY <2>1, SessionBasics DEF SessionInv, TallyInv, HandledOne
  <2>4. accepted >= base + HandedOver
    <3>1. AcceptedOne \in {0, 1}
      BY DEF AcceptedOne
    <3>2. accepted = base + HandedOver + AcceptedOne
      BY DEF SessionInv, TallyInv
    <3>3. base \in Nat /\ HandedOver \in Nat
      BY SessionBasics
    <3> QED
      BY <3>1, <3>2, <3>3
  <2>5. handled < accepted
    BY SMTT(40), <2>2, <2>3, <2>4, SessionBasics
  <2> QED
    BY <1>3, <2>5 DEF DecoderCall, CallDecode, Next
<1>4. CASE StopPipeline
  <2>1. pc["sub"] = "idle" /\ Queued("decoder") = 0 /\ Len(decodePending) = 0
    BY <1>4, SessionBasics DEF StopPipeline, SessionInv, PlaceOK, LifeOK
  <2>2. handled = accepted
    BY <1>4, <2>1, SessionBasics
    DEF StopPipeline, SessionInv, TallyInv, LifeOK, HandedOver, InDecode, AcceptedOne, HandledOne
  <2> QED
    BY <1>4, <2>1, <2>2 DEF StopPipeline, StopBegin, MayStop, Next, Control
<1>5. CASE PipelineStep
  BY <1>5 DEF PipelineStep, Next, Control
<1>6. CASE PushDrawId \/ PushFrame \/ PushCount \/ WaitNextFrame \/ TakeResult \/ NoResult
           \/ EndSession \/ DeleteSession
  BY <1>6 DEF PushDrawId, PushFrame, PushCount, WaitNextFrame, TakeResult, NoResult,
              EndSession, DeleteSession
<1>7. CASE PrefillerTake \/ PrefillerHandOver \/ DecoderTake \/ DecoderReport \/ DecoderUncount
           \/ WorkerExit
  BY <1>7 DEF PrefillerTake, PrefillerHandOver, DecoderTake, DecoderReport, DecoderUncount,
              WorkerExit
<1>8. CASE UNCHANGED allVars
  BY <1>8 DEF allVars
<1> QED
  BY <1>1, <1>2, <1>3, <1>4, <1>5, <1>6, <1>7, <1>8 DEF SessionNext, Caller, Workers

-----------------------------------------------------------------------------
(***************************************************************************)
(* What a step of the pipeline is to the session: nothing, or one step of the *)
(* call that a worker is in.                                                *)
(***************************************************************************)
Calls == <<pc["sub"], pc["dec"], accepted, handled>>

LEMMA PipelineFrame ==
  ASSUME SessionInv, PipelineStep
  PROVE  /\ session # "none" => life' = life
         /\ \/ Calls' = Calls
            \/ pc["sub"] = "put" /\ Calls' = <<"count", pc["dec"], accepted, handled>>
            \/ pc["sub"] = "count" /\ Calls' = <<"idle", pc["dec"], accepted + 1, handled>>
            \/ pc["dec"] = "post" /\ Calls' = <<pc["sub"], "await", accepted, handled>>
            \/ pc["dec"] = "await" /\ Calls' = <<pc["sub"], "idle", accepted, handled + 1>>
<1>1. /\ PcOK
      /\ pc["sub"] # "idle" \/ pc["dec"] # "idle" => Running
  BY DEF SessionInv, TypeInv, TypeOK, PlaceOK, LifeOK
<1>2. session # "none" => Running
  BY DEF SessionInv, LifeOK
<1>3. CASE PrefillPush
  <2>1. Running /\ pc["sub"] = "put"
    BY <1>1, <1>3 DEF PrefillPush, Enter
  <2> QED
    BY <1>1, <1>3, <2>1 DEF PrefillPush, Goto, Calls, PcOK, Threads, client
<1>4. CASE PrefillCount
  BY <1>1, <1>4 DEF PrefillCount, At, Goto, Calls, PcOK, Threads
<1>9. CASE DecodePost
  <2>1. Running /\ pc["dec"] = "post"
    BY <1>1, <1>9 DEF DecodePost, Enter
  <2> QED
    BY <1>1, <1>9, <2>1 DEF DecodePost, Goto, Calls, PcOK, Threads
<1>10. CASE DecodeReturn
  BY <1>1, <1>10 DEF DecodeReturn, Enter, Goto, Calls, PcOK, Threads
<1>5. CASE EncStep
  BY <1>1, <1>5 DEF EncStep, EncTake, EncSend, Goto, Calls, PcOK, Threads, client
<1>6. CASE LlmStep
  BY <1>1, <1>6
  DEF LlmStep, LlmStop, LlmBreak, LlmTakeRequest, LlmRoute, LlmTakePacket, LlmPrefill,
      LlmCheckBreak, LlmDecode, LlmAnswer, Goto, Calls, PcOK, Threads, client
<1>7. CASE StopEnd
  BY <1>2, <1>7 DEF StopEnd, Running, Calls, client
<1>8. CASE \E t \in Threads : Block(t) \/ FallAsleep(t)
  BY <1>8 DEF Block, FallAsleep, Calls, client
<1>11. CASE RaiseBreak \/ ClearBreak
  BY <1>11 DEF RaiseBreak, ClearBreak, Calls, client, sched
<1> QED
  BY <1>3, <1>4, <1>5, <1>6, <1>7, <1>8, <1>9, <1>10, <1>11 DEF PipelineStep, SubStep, DecStep

LEMMA KindsStep == SessionInv /\ [SessionNext]_allVars => KindsOK'
<1> SUFFICES ASSUME SessionInv, [SessionNext]_allVars PROVE KindsOK'
  OBVIOUS
<1> USE DEF KindsOK, Roles
<1>1. KindsOK /\ accepted \in Nat /\ cur \in Nat /\ req \in [Frames -> {"none", "open", "ok", "failed"}]
  BY SMTT(40), BoundAssumption, SessionBasics DEF SessionInv, TypeInv, TypeOK, RequestsOK, Frames
<1>2. CASE BeginSession
  <2>1. at' \in [Roles -> {"off", "idle", "push", "count", "take", "call", "in", "uncount", "wait"}]
    BY <1>1, <1>2 DEF BeginSession
  <2> QED
    BY <1>1, <1>2, <2>1 DEF BeginSession
<1>10. CASE DeleteSession
  BY <1>1, <1>10 DEF DeleteSession
<1>11. CASE PushFrame
  <2>1. pendingFrames' \in Seq(Nat)
    BY <1>1, <1>11 DEF PushFrame
  <2> QED
    BY <1>1, <1>11, <2>1 DEF PushFrame, Move
<1>7. CASE PushDrawId
  BY <1>1, <1>7 DEF PushDrawId, Move, sessionQueues
<1>15. CASE PushCount \/ EndSession
  BY SMTT(40), <1>1, <1>15 DEF PushCount, EndSession, Move, sessionQueues
<1>8. CASE WaitNextFrame \/ NoResult \/ StopPipeline
  BY SMTT(40), <1>1, <1>8 DEF WaitNextFrame, NoResult, StopPipeline, Move, sessionQueues, sessionState
<1>9. CASE TakeResult
  <2>1. Tail(doneResults) \in Seq(Results)
    BY <1>1, <1>9 DEF TakeResult
  <2> QED
    BY <1>1, <1>9, <2>1 DEF TakeResult, Move
<1>3. CASE DecoderReport
  <2>1. Result(held["decoder"], req[base + held["decoder"]] = "ok", text) \in Results
    BY <1>1 DEF Result, Results
  <2> QED
    BY <1>1, <1>3, <2>1 DEF DecoderReport, Move
<1>4. CASE PrefillerTake
  <2>1. pendingFrames' \in Seq(Nat) /\ Head(pendingFrames) \in Nat
    BY <1>1, <1>4 DEF PrefillerTake, PendingRest
  <2> QED
    BY <1>1, <1>4, <2>1 DEF PrefillerTake, Move
<1>12. CASE PrefillerHandOver
  <2>1. decodePending' \in Seq(Nat)
    BY <1>1, <1>12 DEF PrefillerHandOver
  <2> QED
    BY <1>1, <1>12, <2>1 DEF PrefillerHandOver, Move
<1>13. CASE DecoderTake
  <2>1. decodePending' \in Seq(Nat) /\ Head(decodePending) \in Nat
    BY <1>1, <1>13 DEF DecoderTake
  <2> QED
    BY <1>1, <1>13, <2>1 DEF DecoderTake, Move
<1>14. CASE PrefillerCall \/ DecoderCall \/ DecoderUncount
  BY SMTT(40), <1>1, <1>14 DEF PrefillerCall, DecoderCall, DecoderUncount, Move, sessionQueues
<1>16. CASE WorkerExit
  BY <1>1, <1>16 DEF WorkerExit, Move, sessionQueues
<1>5. CASE PipelineStep
  BY <1>1, <1>5 DEF PipelineStep, sessionState, sessionQueues
<1>6. CASE UNCHANGED allVars
  BY <1>1, <1>6 DEF allVars, sessionState, sessionQueues
<1> QED
  BY <1>2, <1>3, <1>4, <1>5, <1>6, <1>7, <1>8, <1>9, <1>10, <1>11, <1>12, <1>13, <1>14,
     <1>15, <1>16
  DEF SessionNext, Caller, Workers

LEMMA PlaceStep == SessionInv /\ [SessionNext]_allVars => PlaceOK'
<1> SUFFICES ASSUME SessionInv, [SessionNext]_allVars PROVE PlaceOK'
  OBVIOUS
<1> USE DEF PlaceOK, Roles, Move
<1>1. KindsOK /\ PlaceOK /\ FramesInv /\ PcOK
  BY DEF SessionInv, TypeInv, TypeOK
<1>2. CASE BeginSession \/ StopPipeline
  BY <1>1, <1>2
  DEF BeginSession, StopPipeline, Start, SignalStop, sessionState, vars, sched, PcOK, Threads,
      SessionInv, LifeOK, KindsOK
<1>8. CASE PushDrawId \/ PushFrame \/ PushCount
  BY SMTT(40), <1>1, <1>8 DEF KindsOK, PushDrawId, PushFrame, PushCount, vars, sched
<1>9. CASE WaitNextFrame \/ TakeResult \/ NoResult \/ EndSession \/ DeleteSession
  BY SMTT(40), <1>1, <1>9
  DEF KindsOK, WaitNextFrame, TakeResult, NoResult, EndSession, DeleteSession, vars, sched
<1>3. CASE PrefillerTake
  <2>1. Head(pendingFrames) = Fetched + 1 /\ Fetched \in Nat
    BY <1>1, <1>3, SessionBasics, ConsecutivePop DEF PrefillerTake, FramesInv, KindsOK
  <2> QED
    BY <1>1, <1>3, <2>1 DEF KindsOK, PrefillerTake, vars, sched
<1>10. CASE DecoderTake
  <2>1. Head(decodePending) = InDecode + 1 /\ InDecode \in Nat
    BY SMTT(40), <1>1, <1>10, SessionBasics, ConsecutivePop DEF DecoderTake, FramesInv, KindsOK
  <2> QED
    BY <1>1, <1>10, <2>1 DEF KindsOK, DecoderTake, vars, sched
<1>4. CASE PrefillerCall \/ DecoderCall
  BY <1>1, <1>4
  DEF KindsOK, PrefillerCall, DecoderCall, CallPrefill, EnterDecode, At, Goto, PcOK, Threads
<1>5. CASE PrefillerHandOver \/ DecoderReport \/ DecoderUncount \/ WorkerExit
  BY SMTT(40), <1>1, <1>5
  DEF KindsOK, PrefillerHandOver, DecoderReport, DecoderUncount, WorkerExit, PrefillReturned,
      DecodeReturned, vars, sched
<1>6. CASE PipelineStep
  BY <1>1, <1>6, PipelineFrame DEF PipelineStep, sessionState, Calls
<1>7. CASE UNCHANGED allVars
  BY <1>1, <1>7 DEF allVars, sessionState, vars, sched
<1> QED
  BY <1>2, <1>3, <1>4, <1>5, <1>6, <1>7, <1>8, <1>9, <1>10 DEF SessionNext, Caller, Workers

\* Between end and deletion, and without a session, nothing is left of its frames: the
\* counter that end polls is exact, and a sum of lengths is zero only if each is.
LEMMA LifeStep == SessionInv /\ [SessionNext]_allVars => LifeOK'
<1> SUFFICES ASSUME SessionInv, [SessionNext]_allVars PROVE LifeOK'
  OBVIOUS
<1> USE DEF LifeOK, Roles, Move
<1>1. KindsOK /\ PlaceOK /\ LifeOK /\ CountInv
  BY DEF SessionInv
<1>2. CASE BeginSession
  BY <1>1, <1>2 DEF BeginSession, Start, Running, vars
<1>3. CASE PushDrawId \/ PushFrame \/ PushCount
  BY <1>1, <1>3
  DEF KindsOK, PushDrawId, PushFrame, PushCount, sessionQueues, Running, vars
<1>4. CASE WaitNextFrame \/ TakeResult \/ NoResult
  BY <1>1, <1>4
  DEF KindsOK, WaitNextFrame, TakeResult, NoResult, sessionQueues, Running, vars
<1>5. CASE EndSession
  <2>1. /\ Reached("producer", "count") = 0
        /\ Reached("decoder", "uncount") \in {0, 1}
    BY <1>5 DEF EndSession, Reached
  <2>2. /\ Len(pendingFrames) = 0 /\ Queued("prefiller") = 0 /\ Len(decodePending) = 0
        /\ Queued("decoder") = 0 /\ Reached("decoder", "uncount") = 0
    BY SMTT(40), <1>1, <1>5, <2>1, SessionBasics DEF EndSession, Drained, CountInv, KindsOK
  <2>3. pendingFrames = <<>> /\ decodePending = <<>>
    BY <1>1, <2>2 DEF KindsOK
  <2>4. held["prefiller"] = 0 /\ held["decoder"] = 0 /\ at["decoder"] # "uncount"
    BY <2>2, SessionBasics DEF Reached
  <2> QED
    <3>1. at'["prefiller"] = "take" \/ at'["prefiller"] = "off"
      BY <1>1, <1>5, <2>4 DEF EndSession, PlaceOK, KindsOK
    <3>2. at'["decoder"] = "take" \/ at'["decoder"] = "off"
      BY <1>1, <1>5, <2>4 DEF EndSession, PlaceOK, KindsOK
    <3> QED
      BY <1>1, <1>5, <2>3, <3>1, <3>2 DEF EndSession, sessionQueues, Running, vars
<1>6. CASE DeleteSession \/ StopPipeline
  BY <1>1, <1>6 DEF DeleteSession, StopPipeline, SignalStop, sessionState, sessionQueues
<1>7. CASE PrefillerTake \/ PrefillerCall \/ PrefillerHandOver
  BY <1>1, <1>7
  DEF KindsOK, PrefillerTake, PrefillerCall, CallPrefill, PrefillerHandOver, sessionQueues, vars,
      Running
<1>8. CASE DecoderTake \/ DecoderCall \/ DecoderReport \/ DecoderUncount
  BY <1>1, <1>8
  DEF KindsOK, DecoderTake, DecoderCall, EnterDecode, DecoderReport, DecoderUncount,
      sessionQueues, vars, Running
<1>9. CASE WorkerExit
  BY <1>1, <1>9 DEF KindsOK, WorkerExit, sessionQueues, vars, Running
<1>10. CASE PipelineStep
  BY <1>1, <1>10, PipelineFrame DEF PipelineStep, sessionState, sessionQueues, Running
<1>11. CASE UNCHANGED allVars
  BY <1>1, <1>11 DEF allVars, sessionState, sessionQueues, vars, Running
<1> QED
  BY <1>2, <1>3, <1>4, <1>5, <1>6, <1>7, <1>8, <1>9, <1>10, <1>11
  DEF SessionNext, Caller, Workers

\* One(...) of the next state.
LEMMA QueuedNext ==
  /\ Queued("decoder")' = IF held'["decoder"] = 0 THEN 0 ELSE 1
  /\ Queued("prefiller")' = IF held'["prefiller"] = 0 THEN 0 ELSE 1
  /\ Queued("producer")' = IF held'["producer"] = 0 THEN 0 ELSE 1
  BY OneFacts DEF Queued

\* The terms of CountInv as numbers.
LEMMA CountTerms ==
  ASSUME SessionInv, [SessionNext]_allVars
  PROVE  /\ Len(pendingFrames) \in Nat /\ Len(decodePending) \in Nat
         /\ Queued("prefiller") \in {0, 1} /\ Queued("decoder") \in {0, 1}
         /\ Queued("prefiller")' \in {0, 1} /\ Queued("decoder")' \in {0, 1}
         /\ Reached("producer", "count") \in {0, 1} /\ Reached("decoder", "uncount") \in {0, 1}
         /\ outstanding \in Int
         /\ outstanding + Reached("producer", "count") =
               Len(pendingFrames) + Queued("prefiller") + Len(decodePending)
               + Queued("decoder") + Reached("decoder", "uncount")
<1>1. /\ Queued("prefiller") \in {0, 1} /\ Queued("decoder") \in {0, 1}
      /\ Queued("prefiller")' \in {0, 1} /\ Queued("decoder")' \in {0, 1}
  BY OneFacts DEF Queued
<1>2. Reached("producer", "count") \in {0, 1} /\ Reached("decoder", "uncount") \in {0, 1}
  BY DEF Reached
<1> QED
  BY <1>1, <1>2 DEF SessionInv, KindsOK, CountInv

LEMMA CountStep == SessionInv /\ [SessionNext]_allVars => CountInv'
<1> SUFFICES ASSUME SessionInv, [SessionNext]_allVars PROVE CountInv'
  OBVIOUS
<1>1. KindsOK /\ PlaceOK /\ LifeOK
  BY DEF SessionInv
<1>2. CASE BeginSession \/ DeleteSession
  <2>1. /\ pendingFrames' = <<>> /\ decodePending' = <<>> /\ outstanding' = 0
        /\ held'["prefiller"] = 0 /\ held'["decoder"] = 0
        /\ at'["producer"] # "count" /\ at'["decoder"] # "uncount"
    BY <1>1, <1>2 DEF BeginSession, DeleteSession, KindsOK, PlaceOK, LifeOK, Roles
  <2>2. /\ Queued("prefiller")' = 0 /\ Queued("decoder")' = 0
        /\ Reached("producer", "count")' = 0 /\ Reached("decoder", "uncount")' = 0
    BY <2>1, QueuedNext DEF Reached
  <2> QED
    BY <2>1, <2>2 DEF CountInv
<1>3. CASE PushDrawId \/ WaitNextFrame \/ TakeResult \/ NoResult \/ EndSession \/ StopPipeline
           \/ PrefillerCall \/ DecoderCall \/ WorkerExit \/ PipelineStep \/ UNCHANGED allVars
  <2>1. /\ pendingFrames' = pendingFrames /\ decodePending' = decodePending
        /\ outstanding' = outstanding
    BY <1>3
    DEF PushDrawId, WaitNextFrame, TakeResult, NoResult, EndSession, StopPipeline, PrefillerCall,
        DecoderCall, WorkerExit, PipelineStep, allVars, sessionState, sessionQueues
  <2>2. /\ held'["prefiller"] = held["prefiller"] /\ held'["decoder"] = held["decoder"]
        /\ at'["producer"] = "count" <=> at["producer"] = "count"
        /\ at'["decoder"] = "uncount" <=> at["decoder"] = "uncount"
    BY <1>1, <1>3
    DEF PushDrawId, WaitNextFrame, TakeResult, NoResult, EndSession, StopPipeline, PrefillerCall,
        DecoderCall, WorkerExit, PipelineStep, allVars, sessionState, KindsOK, Roles, Move
  <2>3. /\ Queued("prefiller")' = Queued("prefiller") /\ Queued("decoder")' = Queued("decoder")
        /\ Reached("producer", "count")' = Reached("producer", "count")
        /\ Reached("decoder", "uncount")' = Reached("decoder", "uncount")
    BY <2>2 DEF Queued, Reached
  <2> QED
    BY <2>1, <2>3, CountTerms DEF CountInv
<1>4. CASE PushFrame
  <2>1. /\ Len(pendingFrames') = Len(pendingFrames) + 1
        /\ decodePending' = decodePending /\ outstanding' = outstanding
        /\ held'["prefiller"] = held["prefiller"] /\ held'["decoder"] = held["decoder"]
        /\ at["producer"] = "push" /\ at'["producer"] = "count"
        /\ at'["decoder"] = at["decoder"]
    BY <1>1, <1>4 DEF KindsOK, PushFrame, Move, Roles
  <2>2. /\ Queued("prefiller")' = Queued("prefiller") /\ Queued("decoder")' = Queued("decoder")
        /\ Reached("producer", "count") = 0 /\ Reached("producer", "count")' = 1
        /\ Reached("decoder", "uncount")' = Reached("decoder", "uncount")
    BY <2>1 DEF Queued, Reached
  <2> QED
    BY SMTT(40), <2>1, <2>2, CountTerms DEF CountInv
<1>5. CASE PushCount
  <2>1. /\ pendingFrames' = pendingFrames /\ decodePending' = decodePending
        /\ outstanding' = outstanding + 1 /\ held' = held
        /\ at["producer"] = "count" /\ at'["producer"] = "idle"
        /\ at'["decoder"] = at["decoder"]
    BY <1>1, <1>5 DEF KindsOK, PushCount, Move, Roles, sessionQueues
  <2>2. /\ Queued("prefiller")' = Queued("prefiller") /\ Queued("decoder")' = Queued("decoder")
        /\ Reached("producer", "count") = 1 /\ Reached("producer", "count")' = 0
        /\ Reached("decoder", "uncount")' = Reached("decoder", "uncount")
    BY <2>1 DEF Queued, Reached
  <2> QED
    BY <2>1, <2>2, CountTerms DEF CountInv
<1>6. CASE PrefillerTake
  <2>1. /\ Len(pendingFrames') = Len(pendingFrames) - 1 /\ Head(pendingFrames) # 0
    <3>1. Head(pendingFrames) = Fetched + 1 /\ Fetched \in Nat
      BY <1>1, <1>6, SessionBasics, ConsecutivePop
      DEF KindsOK, PrefillerTake, SessionInv, FramesInv
    <3> QED
      BY <1>1, <1>6, <3>1, PopFacts DEF KindsOK, PrefillerTake, PendingRest
  <2>2. /\ decodePending' = decodePending /\ outstanding' = outstanding
        /\ held["prefiller"] = 0 /\ held'["prefiller"] # 0 /\ held'["decoder"] = held["decoder"]
        /\ at'["producer"] = at["producer"] /\ at'["decoder"] = at["decoder"]
    BY <1>1, <1>6, <2>1 DEF KindsOK, PlaceOK, PrefillerTake, Move, Roles
  <2>3. /\ Queued("prefiller") = 0 /\ Queued("prefiller")' = 1
        /\ Queued("decoder")' = Queued("decoder")
        /\ Reached("producer", "count")' = Reached("producer", "count")
        /\ Reached("decoder", "uncount")' = Reached("decoder", "uncount")
    BY <2>2, QueuedNext, SessionBasics DEF Reached
  <2> QED
    BY <2>1, <2>2, <2>3, CountTerms DEF CountInv
<1>7. CASE PrefillerHandOver
  <2>1. /\ Len(decodePending') = Len(decodePending) + 1
        /\ pendingFrames' = pendingFrames /\ outstanding' = outstanding
        /\ held["prefiller"] # 0 /\ held'["prefiller"] = 0 /\ held'["decoder"] = held["decoder"]
        /\ at'["producer"] = at["producer"] /\ at'["decoder"] = at["decoder"]
    BY <1>1, <1>7 DEF KindsOK, PlaceOK, PrefillerHandOver, Move, Roles
  <2>2. /\ Queued("prefiller") = 1 /\ Queued("prefiller")' = 0
        /\ Queued("decoder")' = Queued("decoder")
        /\ Reached("producer", "count")' = Reached("producer", "count")
        /\ Reached("decoder", "uncount")' = Reached("decoder", "uncount")
    BY <2>1, QueuedNext, SessionBasics DEF Reached
  <2> QED
    BY <2>1, <2>2, CountTerms DEF CountInv
<1>8. CASE DecoderTake
  <2>1. /\ Len(decodePending') = Len(decodePending) - 1 /\ Head(decodePending) # 0
    <3>1. Head(decodePending) = InDecode + 1 /\ InDecode \in Nat
      BY <1>1, <1>8, SessionBasics, ConsecutivePop
      DEF KindsOK, DecoderTake, SessionInv, FramesInv
    <3> QED
      BY <1>1, <1>8, <3>1, PopFacts DEF KindsOK, DecoderTake
  <2>2. /\ pendingFrames' = pendingFrames /\ outstanding' = outstanding
        /\ held["decoder"] = 0 /\ held'["decoder"] # 0 /\ held'["prefiller"] = held["prefiller"]
        /\ at'["producer"] = at["producer"]
        /\ at["decoder"] # "uncount" /\ at'["decoder"] # "uncount"
    BY <1>1, <1>8, <2>1 DEF KindsOK, PlaceOK, DecoderTake, Move, Roles
  <2>3. /\ Queued("decoder") = 0 /\ Queued("decoder")' = 1
        /\ Queued("prefiller")' = Queued("prefiller")
        /\ Reached("producer", "count")' = Reached("producer", "count")
        /\ Reached("decoder", "uncount")' = Reached("decoder", "uncount")
    BY <2>2, QueuedNext, SessionBasics DEF Reached
  <2> QED
    BY <2>1, <2>2, <2>3, CountTerms DEF CountInv
<1>9. CASE DecoderReport
  <2>1. /\ pendingFrames' = pendingFrames /\ decodePending' = decodePending
        /\ outstanding' = outstanding
        /\ held["decoder"] # 0 /\ held'["decoder"] = 0 /\ held'["prefiller"] = held["prefiller"]
        /\ at'["producer"] = at["producer"]
        /\ at["decoder"] # "uncount" /\ at'["decoder"] = "uncount"
    BY <1>1, <1>9 DEF KindsOK, PlaceOK, DecoderReport, Move, Roles
  <2>2. /\ Queued("decoder") = 1 /\ Queued("decoder")' = 0
        /\ Queued("prefiller")' = Queued("prefiller")
        /\ Reached("producer", "count")' = Reached("producer", "count")
        /\ Reached("decoder", "uncount") = 0 /\ Reached("decoder", "uncount")' = 1
    BY <2>1, QueuedNext, SessionBasics DEF Reached
  <2> QED
    BY <2>1, <2>2, CountTerms DEF CountInv
<1>10. CASE DecoderUncount
  <2>1. /\ pendingFrames' = pendingFrames /\ decodePending' = decodePending
        /\ outstanding' = outstanding - 1 /\ held' = held
        /\ at'["producer"] = at["producer"]
        /\ at["decoder"] = "uncount" /\ at'["decoder"] # "uncount"
    BY <1>1, <1>10 DEF KindsOK, DecoderUncount, Move, Roles, sessionQueues
  <2>2. /\ Queued("prefiller")' = Queued("prefiller") /\ Queued("decoder")' = Queued("decoder")
        /\ Reached("producer", "count")' = Reached("producer", "count")
        /\ Reached("decoder", "uncount") = 1 /\ Reached("decoder", "uncount")' = 0
    BY <2>1 DEF Queued, Reached
  <2> QED
    BY <2>1, <2>2, CountTerms DEF CountInv
<1> QED
  BY <1>2, <1>3, <1>4, <1>5, <1>6, <1>7, <1>8, <1>9, <1>10 DEF SessionNext, Caller, Workers

LEMMA FramesStep == SessionInv /\ [SessionNext]_allVars => FramesInv'
<1> SUFFICES ASSUME SessionInv, [SessionNext]_allVars PROVE FramesInv'
  OBVIOUS
<1>1. KindsOK /\ PlaceOK /\ LifeOK /\ FramesInv
  BY DEF SessionInv
<1>2. CASE BeginSession \/ DeleteSession
  <2>1. /\ pendingFrames' = <<>> /\ decodePending' = <<>> /\ doneResults' = <<>>
        /\ taken' = 0 /\ lastId' = 0
        /\ held'["prefiller"] = 0 /\ held'["decoder"] = 0 /\ held'["producer"] = 0
    BY <1>1, <1>2 DEF BeginSession, DeleteSession, KindsOK, PlaceOK, LifeOK, Roles
  <2>2. /\ Queued("prefiller")' = 0 /\ Queued("decoder")' = 0 /\ Queued("producer")' = 0
    BY <2>1, QueuedNext
  <2> QED
    BY <2>1, <2>2
    DEF FramesInv, Consecutive, Reported, InDecode, HandedOver, Fetched, Pushed
<1>3. CASE PushCount \/ WaitNextFrame \/ NoResult \/ EndSession \/ StopPipeline
           \/ PrefillerCall \/ DecoderCall \/ DecoderUncount \/ WorkerExit \/ PipelineStep
           \/ UNCHANGED allVars
  <2>1. UNCHANGED <<pendingFrames, decodePending, doneResults, taken, lastId, held>>
    BY <1>3
    DEF PushCount, WaitNextFrame, NoResult, EndSession, StopPipeline, PrefillerCall,
        DecoderCall, DecoderUncount, WorkerExit, PipelineStep, allVars, sessionState,
        sessionQueues
  <2> QED
    BY <1>1, <2>1
    DEF FramesInv, Reported, InDecode, HandedOver, Fetched, Pushed, Queued
<1>4. CASE PushDrawId
  <2>1. /\ UNCHANGED <<pendingFrames, decodePending, doneResults, taken>>
        /\ held["producer"] = 0 /\ held'["producer"] = lastId + 1 /\ lastId' = lastId + 1
        /\ held'["prefiller"] = held["prefiller"] /\ held'["decoder"] = held["decoder"]
    BY <1>1, <1>4 DEF PushDrawId, Move, sessionQueues, KindsOK, PlaceOK, Roles
  <2>2. /\ Queued("prefiller")' = Queued("prefiller") /\ Queued("decoder")' = Queued("decoder")
        /\ Queued("producer") = 0 /\ Queued("producer")' = 1 /\ lastId = Pushed
    <3>1. Queued("prefiller")' = Queued("prefiller") /\ Queued("decoder")' = Queued("decoder")
      BY <2>1 DEF Queued
    <3>2. Queued("producer") = 0 /\ Queued("producer")' = 1
      BY <2>1, QueuedNext, SessionBasics
    <3> QED
      BY <1>1, <3>1, <3>2, SessionBasics DEF FramesInv
  <2>3. /\ Reported' = Reported /\ InDecode' = InDecode /\ HandedOver' = HandedOver
        /\ Fetched' = Fetched /\ Pushed' = Pushed
    BY <2>1, <2>2 DEF Reported, InDecode, HandedOver, Fetched, Pushed
  <2> QED
    BY <1>1, <2>1, <2>2, <2>3 DEF FramesInv
<1>5. CASE PushFrame
  <2>1. /\ UNCHANGED <<decodePending, doneResults, taken, lastId>>
        /\ pendingFrames' = Append(pendingFrames, held["producer"])
        /\ held["producer"] # 0 /\ held'["producer"] = 0
        /\ held'["prefiller"] = held["prefiller"] /\ held'["decoder"] = held["decoder"]
    BY <1>1, <1>5 DEF PushFrame, Move, KindsOK, PlaceOK, Roles
  <2>2. /\ Queued("prefiller")' = Queued("prefiller") /\ Queued("decoder")' = Queued("decoder")
        /\ Queued("producer") = 1 /\ Queued("producer")' = 0
    BY <2>1, QueuedNext, SessionBasics DEF Queued
  <2>3. Len(pendingFrames') = Len(pendingFrames) + 1
    BY <1>1, <2>1, SessionBasics DEF KindsOK
  <2>4. /\ Reported' = Reported /\ InDecode' = InDecode /\ HandedOver' = HandedOver
        /\ Fetched' = Fetched
    BY <2>1, <2>2 DEF Reported, InDecode, HandedOver, Fetched
  <2>5. Pushed' = Pushed + 1
    BY <2>3, <2>4, SessionBasics DEF Pushed
  <2>6. Consecutive(pendingFrames', Fetched)
    BY <1>1, <2>1, SessionBasics, ConsecutivePush DEF FramesInv, Pushed, KindsOK
  <2> QED
    BY <1>1, <2>1, <2>2, <2>4, <2>5, <2>6, SessionBasics DEF FramesInv
<1>6. CASE TakeResult
  <2>1. /\ UNCHANGED <<pendingFrames, decodePending, held, lastId>>
        /\ doneResults # <<>> /\ doneResults' = Tail(doneResults) /\ taken' = taken + 1
    BY <1>6 DEF TakeResult
  <2>2. /\ Len(doneResults') = Len(doneResults) - 1
        /\ \A i \in 1..(Len(doneResults) - 1) : doneResults'[i] = doneResults[i + 1]
    BY <1>1, <2>1, PopFacts DEF KindsOK
  <2>3. Reported' = Reported
    BY SMTT(40), <2>1, <2>2, SessionBasics DEF Reported
  <2>4. /\ InDecode' = InDecode /\ HandedOver' = HandedOver
        /\ Fetched' = Fetched /\ Pushed' = Pushed /\ Queued("producer")' = Queued("producer")
    BY <2>1, <2>3 DEF InDecode, HandedOver, Fetched, Pushed, Queued
  <2>5. \A i \in 1..Len(doneResults') : doneResults'[i].frame = taken' + i
    <3> TAKE i \in 1..Len(doneResults')
    <3>1. i \in 1..(Len(doneResults) - 1) /\ i + 1 \in 1..Len(doneResults)
      BY <2>2, SessionBasics
    <3>2. doneResults[i + 1].frame = taken + (i + 1)
      BY <1>1, <3>1 DEF FramesInv
    <3>3. doneResults'[i].frame = taken + (i + 1)
      BY <2>2, <3>1, <3>2
    <3>4. taken' + i = taken + (i + 1)
      BY <1>1, <2>1, <3>1 DEF KindsOK
    <3> QED
      BY <3>3, <3>4
  <2> QED
    BY <1>1, <2>1, <2>3, <2>4, <2>5 DEF FramesInv
<1>7. CASE PrefillerTake
  <2>1. /\ UNCHANGED <<decodePending, doneResults, taken, lastId>>
        /\ pendingFrames # <<>> /\ pendingFrames' = Tail(pendingFrames)
        /\ held["prefiller"] = 0 /\ held'["prefiller"] = Head(pendingFrames)
        /\ held'["producer"] = held["producer"] /\ held'["decoder"] = held["decoder"]
    BY <1>1, <1>7 DEF PrefillerTake, PendingRest, Move, KindsOK, PlaceOK, Roles
  <2>2. /\ Head(pendingFrames) = Fetched + 1 /\ Consecutive(pendingFrames', Fetched + 1)
    BY <1>1, <2>1, SessionBasics, ConsecutivePop DEF KindsOK, FramesInv
  <2>3. Len(pendingFrames') = Len(pendingFrames) - 1
    BY <1>1, <2>1, PopFacts DEF KindsOK
  <2>4. /\ Queued("producer")' = Queued("producer") /\ Queued("decoder")' = Queued("decoder")
        /\ Queued("prefiller") = 0 /\ Queued("prefiller")' = 1
    BY SMTT(40), <2>1, <2>2, QueuedNext, SessionBasics DEF Queued
  <2>5. Reported' = Reported /\ InDecode' = InDecode /\ HandedOver' = HandedOver
    BY <2>1, <2>4 DEF Reported, InDecode, HandedOver
  <2>6. Fetched = HandedOver /\ Fetched' = Fetched + 1
    BY <2>4, <2>5, SessionBasics DEF Fetched
  <2>7. Pushed' = Pushed
    BY SMTT(40), <2>3, <2>6, SessionBasics DEF Pushed
  <2> QED
    BY <1>1, <2>1, <2>2, <2>4, <2>5, <2>6, <2>7 DEF FramesInv
<1>8. CASE PrefillerHandOver
  <2>1. /\ UNCHANGED <<pendingFrames, doneResults, taken, lastId>>
        /\ decodePending' = Append(decodePending, held["prefiller"])
        /\ held["prefiller"] # 0 /\ held'["prefiller"] = 0
        /\ held'["producer"] = held["producer"] /\ held'["decoder"] = held["decoder"]
    BY <1>1, <1>8 DEF PrefillerHandOver, Move, KindsOK, PlaceOK, Roles
  <2>2. /\ Queued("producer")' = Queued("producer") /\ Queued("decoder")' = Queued("decoder")
        /\ Queued("prefiller") = 1 /\ Queued("prefiller")' = 0
    BY <2>1, QueuedNext, SessionBasics DEF Queued
  <2>3. Len(decodePending') = Len(decodePending) + 1
    BY <1>1, <2>1, SessionBasics DEF KindsOK
  <2>4. Reported' = Reported /\ InDecode' = InDecode
    BY <2>1, <2>2 DEF Reported, InDecode
  <2>5. HandedOver' = HandedOver + 1 /\ Fetched' = Fetched
    <3>1. HandedOver' = HandedOver + 1
      BY <2>3, <2>4, SessionBasics DEF HandedOver
    <3> QED
      BY <2>2, <3>1, SessionBasics DEF Fetched
  <2>6. Pushed' = Pushed
    BY <2>1, <2>5 DEF Pushed
  <2>7. Consecutive(decodePending', InDecode)
    BY <1>1, <2>1, SessionBasics, ConsecutivePush DEF FramesInv, HandedOver, KindsOK
  <2> QED
    BY <1>1, <2>1, <2>2, <2>4, <2>5, <2>6, <2>7 DEF FramesInv
<1>9. CASE DecoderTake
  <2>1. /\ UNCHANGED <<pendingFrames, doneResults, taken, lastId>>
        /\ decodePending # <<>> /\ decodePending' = Tail(decodePending)
        /\ held["decoder"] = 0 /\ held'["decoder"] = Head(decodePending)
        /\ held'["producer"] = held["producer"] /\ held'["prefiller"] = held["prefiller"]
    BY <1>1, <1>9 DEF DecoderTake, Move, KindsOK, PlaceOK, Roles
  <2>2. /\ Head(decodePending) = InDecode + 1 /\ Consecutive(decodePending', InDecode + 1)
    BY <1>1, <2>1, SessionBasics, ConsecutivePop DEF KindsOK, FramesInv
  <2>3. Len(decodePending') = Len(decodePending) - 1
    BY <1>1, <2>1, PopFacts DEF KindsOK
  <2>4. /\ Queued("producer")' = Queued("producer") /\ Queued("prefiller")' = Queued("prefiller")
        /\ Queued("decoder") = 0 /\ Queued("decoder")' = 1
    BY SMTT(40), <2>1, <2>2, QueuedNext, SessionBasics DEF Queued
  <2>5. Reported' = Reported
    BY <2>1 DEF Reported
  <2>6. InDecode = Reported /\ InDecode' = InDecode + 1
    BY <2>4, <2>5, SessionBasics DEF InDecode
  <2>7. HandedOver' = HandedOver
    BY SMTT(40), <2>3, <2>6, SessionBasics DEF HandedOver
  <2>8. Fetched' = Fetched /\ Pushed' = Pushed
    BY <2>1, <2>4, <2>7 DEF Fetched, Pushed
  <2> QED
    BY <1>1, <2>1, <2>2, <2>4, <2>5, <2>6, <2>7, <2>8 DEF FramesInv
<1>10. CASE DecoderReport
  <2> DEFINE result == Result(held["decoder"], req[base + held["decoder"]] = "ok", text)
  <2>1. /\ UNCHANGED <<pendingFrames, decodePending, taken, lastId>>
        /\ doneResults' = Append(doneResults, result)
        /\ held["decoder"] # 0 /\ held'["decoder"] = 0
        /\ held'["producer"] = held["producer"] /\ held'["prefiller"] = held["prefiller"]
    BY <1>1, <1>10 DEF DecoderReport, Move, KindsOK, PlaceOK, Roles
  <2>2. result.frame = held["decoder"] /\ held["decoder"] = Reported + 1
    BY <1>1, <2>1 DEF Result, FramesInv
  <2> HIDE DEF result
  <2>3. /\ Len(doneResults') = Len(doneResults) + 1
        /\ doneResults'[Len(doneResults) + 1] = result
        /\ \A i \in 1..Len(doneResults) : doneResults'[i] = doneResults[i]
    <3>1. doneResults' \in Seq(Results)
      BY KindsStep DEF KindsOK
    <3> QED
      BY <1>1, <2>1, SessionBasics DEF KindsOK
  <2>4. /\ Queued("producer")' = Queued("producer") /\ Queued("prefiller")' = Queued("prefiller")
        /\ Queued("decoder") = 1 /\ Queued("decoder")' = 0
    BY <2>1, QueuedNext, SessionBasics DEF Queued
  <2>5. Reported' = Reported + 1
    <3>1. taken \in Nat /\ Len(doneResults) \in Nat
      BY SessionBasics
    <3>2. taken' = taken /\ Len(doneResults') = Len(doneResults) + 1
      BY <2>1, <2>3
    <3> QED
      BY <3>1, <3>2 DEF Reported
  <2>6. InDecode' = InDecode
    BY <2>4, <2>5, SessionBasics DEF InDecode
  <2>7. HandedOver' = HandedOver /\ Fetched' = Fetched /\ Pushed' = Pushed
    BY <2>1, <2>4, <2>6 DEF HandedOver, Fetched, Pushed
  <2>8. \A i \in 1..Len(doneResults') : doneResults'[i].frame = taken' + i
    <3> TAKE i \in 1..Len(doneResults')
    <3>1. CASE i \in 1..Len(doneResults)
      BY <1>1, <2>1, <2>3, <3>1 DEF FramesInv
    <3>2. CASE i = Len(doneResults) + 1
      BY SMTT(40), <2>1, <2>2, <2>3, <3>2, SessionBasics DEF Reported
    <3> QED
      BY SMTT(40), <2>3, <3>1, <3>2, SessionBasics
  <2> QED
    BY <1>1, <2>1, <2>4, <2>5, <2>6, <2>7, <2>8 DEF FramesInv
<1> QED
  BY <1>2, <1>3, <1>4, <1>5, <1>6, <1>7, <1>8, <1>9, <1>10 DEF SessionNext, Caller, Workers

\* A counter and the part of it that is still under way move together.
LEMMA MovesTogether ==
  ASSUME NEW a \in Int, NEW b \in Int, NEW c \in Int, NEW x \in Int, NEW y \in Int,
         b + x = a + y, a = c + x
  PROVE  b = c + y
  OBVIOUS

LEMMA TallyStep == SessionInv /\ [SessionNext]_allVars => TallyInv'
<1> SUFFICES ASSUME SessionInv, [SessionNext]_allVars PROVE TallyInv'
  OBVIOUS
<1>1. KindsOK /\ PlaceOK /\ LifeOK /\ FramesInv /\ TallyInv /\ PcOK
  BY DEF SessionInv, TypeInv, TypeOK
<1>2. CASE BeginSession \/ DeleteSession
  <2>1. /\ decodePending' = <<>> /\ doneResults' = <<>> /\ taken' = 0 /\ base' = accepted
        /\ held'["decoder"] = 0
        /\ at'["prefiller"] # "in" /\ at'["decoder"] # "in"
        /\ accepted' = accepted /\ handled' = handled
    BY <1>1, <1>2
    DEF BeginSession, DeleteSession, Start, KindsOK, PlaceOK, LifeOK, Roles, vars, client
  <2>2. Reported' = 0 /\ HandedOver' = 0 /\ AcceptedOne' = 0 /\ HandledOne' = 0
    BY <2>1, QueuedNext DEF Reported, InDecode, HandedOver, AcceptedOne, HandledOne
  <2>3. /\ Len(decodePending) = 0 /\ Queued("decoder") = 0
        /\ AcceptedOne = 0 /\ HandledOne = 0
    <3>1. /\ decodePending = <<>> /\ held["decoder"] = 0
          /\ at["prefiller"] # "in" /\ at["decoder"] # "in"
      BY <1>1, <1>2 DEF BeginSession, DeleteSession, PlaceOK, LifeOK
    <3> QED
      BY <3>1, SessionBasics DEF AcceptedOne, HandledOne
  <2>4. HandedOver = Reported
    BY <2>3, SessionBasics DEF HandedOver, InDecode
  <2>5. handled = accepted
    BY <1>1, <2>3, <2>4, SessionBasics DEF TallyInv
  <2> QED
    BY <2>1, <2>2, <2>5, SessionBasics DEF TallyInv
<1>3. CASE PushDrawId \/ PushFrame \/ PushCount \/ WaitNextFrame \/ NoResult \/ EndSession
           \/ StopPipeline \/ PrefillerTake \/ DecoderUncount \/ WorkerExit \/ UNCHANGED allVars
  <2>1. /\ UNCHANGED <<decodePending, doneResults, taken, base, accepted, handled, pc>>
        /\ held'["decoder"] = held["decoder"]
        /\ at'["prefiller"] = "in" <=> at["prefiller"] = "in"
        /\ at'["decoder"] = "in" <=> at["decoder"] = "in"
    BY <1>1, <1>3
    DEF PushDrawId, PushFrame, PushCount, WaitNextFrame, NoResult, EndSession, StopPipeline,
        SignalStop, PrefillerTake, DecoderUncount, WorkerExit, Move, KindsOK, Roles,
        allVars, sessionState, sessionQueues, vars, sched, client
  <2>2. /\ Reported' = Reported /\ HandedOver' = HandedOver
        /\ AcceptedOne' = AcceptedOne /\ HandledOne' = HandledOne
    BY <2>1 DEF Reported, InDecode, HandedOver, AcceptedOne, HandledOne, Queued
  <2> QED
    BY <1>1, <2>1, <2>2 DEF TallyInv
<1>4. CASE TakeResult
  <2>1. /\ UNCHANGED <<decodePending, held, at["prefiller"], at["decoder"],
                       base, accepted, handled, pc>>
        /\ doneResults # <<>> /\ doneResults' = Tail(doneResults) /\ taken' = taken + 1
    BY <1>1, <1>4 DEF TakeResult, Move, KindsOK, Roles, vars, client, sched
  <2>2. Len(doneResults') = Len(doneResults) - 1
    BY <1>1, <2>1, PopFacts DEF KindsOK
  <2>3. Reported' = Reported
    BY SMTT(40), <2>1, <2>2, SessionBasics DEF Reported
  <2>4. HandedOver' = HandedOver /\ AcceptedOne' = AcceptedOne /\ HandledOne' = HandledOne
    BY <2>1, <2>3 DEF InDecode, HandedOver, AcceptedOne, HandledOne, Queued
  <2> QED
    BY <1>1, <2>1, <2>3, <2>4 DEF TallyInv
<1>5. CASE PrefillerCall \/ DecoderCall
  <2>1. /\ UNCHANGED <<decodePending, doneResults, taken, held, base, accepted>>
        /\ handled' = handled
    BY <1>1, <1>5
    DEF PrefillerCall, CallPrefill, DecoderCall, EnterDecode, Move, LifeOK, Running,
        sessionQueues, client
  <2>2. AcceptedOne' = AcceptedOne /\ HandledOne' = HandledOne
    BY <1>1, <1>5
    DEF PrefillerCall, CallPrefill, DecoderCall, EnterDecode, Move, LifeOK, Running, KindsOK,
        Roles, At, Goto, PcOK, Threads, AcceptedOne, HandledOne
  <2>3. Reported' = Reported /\ HandedOver' = HandedOver
    BY <2>1 DEF Reported, InDecode, HandedOver, Queued
  <2> QED
    BY <1>1, <2>1, <2>2, <2>3 DEF TallyInv
<1>6. CASE PrefillerHandOver
  <2>1. /\ UNCHANGED <<doneResults, taken, base, accepted, handled, pc>>
        /\ Len(decodePending') = Len(decodePending) + 1
        /\ held'["decoder"] = held["decoder"] /\ at'["decoder"] = at["decoder"]
        /\ at["prefiller"] = "in" /\ at'["prefiller"] = "take" /\ pc["sub"] = "idle"
    BY <1>1, <1>6
    DEF PrefillerHandOver, PrefillReturned, Move, KindsOK, Roles, vars, client, sched
  <2>2. AcceptedOne = 1 /\ AcceptedOne' = 0 /\ HandledOne' = HandledOne
    BY <2>1 DEF AcceptedOne, HandledOne
  <2>3. Reported' = Reported /\ InDecode' = InDecode
    BY <2>1 DEF Reported, InDecode, Queued
  <2>4. HandedOver' = HandedOver + 1
    BY <2>1, <2>3, SessionBasics DEF HandedOver
  <2> QED
    BY SMTT(40), <1>1, <2>1, <2>2, <2>3, <2>4, SessionBasics DEF TallyInv
<1>7. CASE DecoderTake
  <2>1. /\ UNCHANGED <<doneResults, taken, base, accepted, handled, pc, at["prefiller"]>>
        /\ decodePending # <<>> /\ decodePending' = Tail(decodePending)
        /\ held["decoder"] = 0 /\ held'["decoder"] = Head(decodePending)
        /\ at["decoder"] # "in" /\ at'["decoder"] # "in"
    BY <1>1, <1>7 DEF DecoderTake, PlaceOK, Move, KindsOK, Roles, vars, client, sched
  <2>2. Head(decodePending) # 0
    BY SMTT(40), <1>1, <2>1, SessionBasics, ConsecutivePop DEF KindsOK, FramesInv
  <2>3. /\ Queued("decoder") = 0 /\ Queued("decoder")' = 1
        /\ Len(decodePending') = Len(decodePending) - 1
    BY <1>1, <2>1, <2>2, QueuedNext, SessionBasics, PopFacts DEF KindsOK
  <2>4. Reported' = Reported /\ AcceptedOne' = AcceptedOne /\ HandledOne' = HandledOne
    BY <2>1 DEF Reported, AcceptedOne, HandledOne
  <2>5. HandedOver' = HandedOver
    BY <2>3, <2>4, SessionBasics DEF HandedOver, InDecode
  <2> QED
    BY <1>1, <2>1, <2>4, <2>5 DEF TallyInv
<1>8. CASE DecoderReport
  <2>1. /\ UNCHANGED <<decodePending, taken, base, accepted, handled, pc, at["prefiller"]>>
        /\ held["decoder"] # 0 /\ held'["decoder"] = 0
        /\ at["decoder"] = "in" /\ at'["decoder"] = "uncount" /\ pc["dec"] = "idle"
    BY <1>1, <1>8
    DEF DecoderReport, DecodeReturned, PlaceOK, Move, KindsOK, Roles, vars, client, sched
  <2>2. Len(doneResults') = Len(doneResults) + 1
    <3>1. doneResults' \in Seq(Results)
      BY KindsStep DEF KindsOK
    <3> QED
      BY <1>1, <1>8, <3>1 DEF DecoderReport, KindsOK
  <2>3. /\ Queued("decoder") = 1 /\ Queued("decoder")' = 0
        /\ HandledOne = 1 /\ HandledOne' = 0 /\ AcceptedOne' = AcceptedOne
    BY <2>1, QueuedNext, SessionBasics DEF AcceptedOne, HandledOne
  <2>4. Reported' = Reported + 1
    BY SMTT(40), <2>1, <2>2, SessionBasics DEF Reported
  <2>5. HandedOver' = HandedOver
    BY <2>1, <2>3, <2>4, SessionBasics DEF HandedOver, InDecode
  <2> QED
    BY SMTT(40), <1>1, <2>1, <2>3, <2>4, <2>5, SessionBasics DEF TallyInv
<1>9. CASE PipelineStep
  <2>1. UNCHANGED <<decodePending, doneResults, taken, held, base, at>>
    BY <1>9 DEF PipelineStep, sessionState, sessionQueues
  <2>2. Reported' = Reported /\ HandedOver' = HandedOver
    BY <2>1 DEF Reported, InDecode, HandedOver, Queued
  <2>3. /\ pc["sub"] # "idle" => at["prefiller"] = "in"
        /\ pc["dec"] # "idle" => at["decoder"] = "in"
    BY <1>1 DEF PlaceOK
  <2>4. accepted' + AcceptedOne = accepted + AcceptedOne'
    BY SMTT(40), <1>9, <2>1, <2>3, PipelineFrame, SessionBasics DEF Calls, AcceptedOne
  <2>5. handled' + HandledOne = handled + HandledOne'
    <3>1. \/ pc'["dec"] = pc["dec"] /\ handled' = handled
          \/ pc["dec"] = "post" /\ pc'["dec"] = "await" /\ handled' = handled
          \/ pc["dec"] = "await" /\ pc'["dec"] = "idle" /\ handled' = handled + 1
      BY <1>9, PipelineFrame DEF Calls
    <3>2. CASE pc["dec"] = "await" /\ pc'["dec"] = "idle" /\ handled' = handled + 1
      <4>1. HandledOne = 0 /\ HandledOne' = 1
        BY <2>1, <2>3, <3>2 DEF HandledOne
      <4> QED
        BY <3>2, <4>1, SessionBasics
    <3>3. CASE handled' = handled /\ (pc'["dec"] = "idle" <=> pc["dec"] = "idle")
      BY <2>1, <3>3 DEF HandledOne
    <3> QED
      BY <3>1, <3>2, <3>3
  <2>6. /\ AcceptedOne \in Int /\ AcceptedOne' \in Int
        /\ HandledOne \in Int /\ HandledOne' \in Int
        /\ accepted' \in Int /\ handled' \in Int
    BY SMTT(40), <1>9, PipelineFrame, SessionBasics DEF AcceptedOne, HandledOne, Calls
  <2> QED
    <3>1. accepted' = base + HandedOver + AcceptedOne'
      <4>1. accepted = base + HandedOver + AcceptedOne
        BY <1>1 DEF TallyInv
      <4>2. accepted \in Nat /\ base \in Nat /\ HandedOver \in Nat
        BY SessionBasics
      <4>3. base + HandedOver \in Int /\ accepted \in Int
        BY <4>2
      <4> QED
        BY <2>4, <2>6, <4>1, <4>3, MovesTogether
    <3>2. handled' = base + Reported + HandledOne'
      <4>1. handled = base + Reported + HandledOne
        BY <1>1 DEF TallyInv
      <4>2. handled \in Nat /\ base \in Nat /\ Reported \in Nat
        BY SessionBasics
      <4>3. base + Reported \in Int /\ handled \in Int
        BY <4>2
      <4> QED
        BY <2>5, <2>6, <4>1, <4>3, MovesTogether
    <3> QED
      BY <2>1, <2>2, <3>1, <3>2 DEF TallyInv
<1> QED
  BY <1>2, <1>3, <1>4, <1>5, <1>6, <1>7, <1>8, <1>9 DEF SessionNext, Caller, Workers

-----------------------------------------------------------------------------
(***************************************************************************)
(* The theorems.                                                            *)
(***************************************************************************)
LEMMA SessionStep == SessionInv /\ [SessionNext]_allVars => SessionInv'
<1> SUFFICES ASSUME SessionInv, [SessionNext]_allVars PROVE SessionInv'
  OBVIOUS
<1>1. TypeInv'
  BY ClientStep, TypeStep DEF SessionInv
<1> QED
  BY <1>1, KindsStep, PlaceStep, LifeStep, FramesStep, TallyStep, CountStep DEF SessionInv

\* The session is a client of the kind the pipeline's proofs assume, for every capacity
\* and number of sessions: whatever is proved of Spec holds of a session's pipeline.
THEOREM ClientOfPipeline == SessionSpec => PipelineClient
<1>1. SessionInit => Init
  BY DEF SessionInit
<1> QED
  BY <1>1, SessionInitInv, SessionStep, ClientStep, PTL DEF SessionSpec, PipelineClient, Spec

\* in_flight of a session counts the frames between push_frame and their result, but for
\* the two steps where a thread has moved a frame and not yet the counter.
THEOREM OutstandingCount == SessionSpec => []OutstandingExact
<1>1. SessionInv => OutstandingExact
  BY DEF SessionInv, CountInv, OutstandingExact
<1> QED
  BY <1>1, SessionInitInv, SessionStep, PTL DEF SessionSpec

\* A line that goes on with the next numbers.
LEMMA ConsecutiveJoin ==
  ASSUME NEW a \in Seq(Nat), NEW b \in Seq(Nat), NEW n \in Nat,
         Consecutive(a, n), Consecutive(b, n + Len(a))
  PROVE  /\ a \o b \in Seq(Nat) /\ Len(a \o b) = Len(a) + Len(b)
         /\ Consecutive(a \o b, n)
<1> DEFINE c == a \o b
<1>1. /\ c \in Seq(Nat) /\ Len(c) = Len(a) + Len(b)
      /\ \A i \in 1..Len(c) : c[i] = IF i <= Len(a) THEN a[i] ELSE b[i - Len(a)]
      /\ Len(a) \in Nat /\ Len(b) \in Nat
  BY ConcatProperties
<1> HIDE DEF c
<1>2. \A i \in 1..Len(c) : c[i] = n + i
  <2> TAKE i \in 1..Len(c)
  <2>1. CASE i <= Len(a)
    BY <1>1, <2>1 DEF Consecutive
  <2>2. CASE ~(i <= Len(a))
    <3>1. i - Len(a) \in 1..Len(b)
      BY <1>1, <2>2
    <3>2. b[i - Len(a)] = (n + Len(a)) + (i - Len(a))
      BY <3>1 DEF Consecutive
    <3> QED
      BY <1>1, <2>2, <3>2
  <2> QED
    BY <2>1, <2>2
<1>3. Consecutive(c, n)
  BY <1>2 DEF Consecutive
<1> QED
  BY <1>1, <1>3 DEF c

LEMMA ConsecutiveOne ==
  ASSUME NEW x \in Nat, NEW n \in Nat, x # 0 => x = n + 1
  PROVE  One(x) \in Seq(Nat) /\ Consecutive(One(x), n)
<1>1. CASE x = 0
  BY <1>1 DEF One, Consecutive
<1>2. CASE x # 0
  BY <1>2 DEF One, Consecutive
<1> QED
  BY <1>1, <1>2

\* The results of a session come in push order: the frames between push_frame and
\* wait_next_frame are numbered without a gap, whatever the threads do and wherever
\* breaks fall.
THEOREM ResultsKeepOrder == SessionSpec => []ResultsInOrder
<1>1. SessionInv => ResultsInOrder
  <2> SUFFICES ASSUME SessionInv PROVE ResultsInOrder
    OBVIOUS
  <2> DEFINE l1 == Finished
             l2 == l1 \o One(held["decoder"])
             l3 == l2 \o decodePending
             l4 == l3 \o One(held["prefiller"])
             l5 == l4 \o pendingFrames
             l6 == l5 \o One(held["producer"])
  <2>1. KindsOK /\ FramesInv
    BY DEF SessionInv
  <2>2. /\ l1 \in Seq(Nat) /\ Len(l1) = Len(doneResults) /\ Consecutive(l1, taken)
    <3>1. taken \in Nat /\ Len(doneResults) \in Nat
      BY SessionBasics
    <3>2. \A i \in 1..Len(doneResults) : doneResults[i].frame = taken + i
      BY <2>1 DEF FramesInv
    <3>3. l1 = [i \in 1..Len(doneResults) |-> taken + i]
      BY <3>2 DEF Finished
    <3> HIDE DEF l1
    <3>4. \A i \in 1..Len(doneResults) : l1[i] = taken + i /\ l1[i] \in Nat
      BY <3>1, <3>3
    <3>5. l1 \in [1..Len(doneResults) -> Nat]
      BY <3>3, <3>4
    <3>6. l1 \in Seq(Nat) /\ Len(l1) = Len(doneResults)
      BY <3>1, <3>5, SeqDef, LenProperties
    <3> QED
      BY <3>4, <3>6 DEF Consecutive
  <2> HIDE DEF l1
  <2>3. /\ l2 \in Seq(Nat) /\ Consecutive(l2, taken) /\ taken + Len(l2) = InDecode
    <3>1. /\ One(held["decoder"]) \in Seq(Nat) /\ Consecutive(One(held["decoder"]), Reported)
      BY <2>1, SessionBasics, ConsecutiveOne DEF FramesInv
    <3>2. Reported = taken + Len(l1)
      BY <2>2, SessionBasics DEF Reported
    <3>3. /\ l2 \in Seq(Nat) /\ Consecutive(l2, taken)
          /\ Len(l2) = Len(l1) + Len(One(held["decoder"]))
      BY <2>2, <3>1, <3>2, SessionBasics, ConsecutiveJoin
    <3>4. Len(l1) \in Nat /\ Queued("decoder") = Len(One(held["decoder"]))
      BY <2>2, SessionBasics DEF Queued
    <3> HIDE DEF l2
    <3>5. taken + Len(l2) = InDecode
      <4>1. Len(l2) = Len(l1) + Queued("decoder")
        BY <3>3, <3>4
      <4>2. InDecode = Reported + Queued("decoder") /\ Queued("decoder") \in Nat /\ taken \in Nat
        BY SMTT(40), SessionBasics DEF InDecode
      <4> QED
        BY <3>2, <3>4, <4>1, <4>2
    <3> QED
      BY <3>3, <3>5
  <2> HIDE DEF l2
  <2>4. /\ l3 \in Seq(Nat) /\ Consecutive(l3, taken) /\ taken + Len(l3) = HandedOver
    BY SMTT(40), <2>1, <2>3, SessionBasics, ConsecutiveJoin DEF FramesInv, KindsOK, HandedOver
  <2> HIDE DEF l3
  <2>5. /\ l4 \in Seq(Nat) /\ Consecutive(l4, taken) /\ taken + Len(l4) = Fetched
    <3>1. /\ One(held["prefiller"]) \in Seq(Nat)
          /\ Consecutive(One(held["prefiller"]), HandedOver)
      BY <2>1, SessionBasics, ConsecutiveOne DEF FramesInv
    <3> QED
      BY SMTT(40), <2>4, <3>1, SessionBasics, ConsecutiveJoin DEF Fetched, Queued
  <2> HIDE DEF l4
  <2>6. /\ l5 \in Seq(Nat) /\ Consecutive(l5, taken) /\ taken + Len(l5) = Pushed
    BY SMTT(40), <2>1, <2>5, SessionBasics, ConsecutiveJoin DEF FramesInv, KindsOK, Pushed
  <2> HIDE DEF l5
  <2>7. /\ l6 \in Seq(Nat) /\ Consecutive(l6, taken)
        /\ taken + Len(l6) = Pushed + Queued("producer")
    <3>1. /\ One(held["producer"]) \in Seq(Nat) /\ Consecutive(One(held["producer"]), Pushed)
      BY <2>1, SessionBasics, ConsecutiveOne DEF FramesInv
    <3> QED
      BY SMTT(40), <2>6, <3>1, SessionBasics, ConsecutiveJoin DEF Queued
  <2>8. lastId = Pushed + Queued("producer")
    BY <2>1 DEF FramesInv
  <2>9. FrameLine = l6
    BY DEF FrameLine, l1, l2, l3, l4, l5
  <2> HIDE DEF l6
  <2> QED
    BY <2>7, <2>8, <2>9, SessionBasics DEF ResultsInOrder, Consecutive
<1> QED
  BY <1>1, SessionInitInv, SessionStep, PTL DEF SessionSpec

\* A session decodes every frame: what disturbs its pipeline's pairing is a break alone.
LEMMA NeverSkips ==
  ASSUME SessionInv, [SessionNext]_allVars
  PROVE  skips' = skips
<1>1. CASE BeginSession \/ StopPipeline
  BY <1>1 DEF BeginSession, Start, StopPipeline, SignalStop, client, vars
<1>2. CASE PrefillerCall \/ DecoderCall
  BY <1>2 DEF PrefillerCall, CallPrefill, DecoderCall, EnterDecode, client
<1>3. CASE PipelineStep
  BY <1>3
  DEF PipelineStep, SubStep, EncStep, LlmStep, DecStep, client, PrefillPush, PrefillCount,
      DecodePost, DecodeReturn, EncTake, EncSend, LlmStop, LlmBreak, LlmTakeRequest, LlmRoute,
      LlmTakePacket, LlmPrefill, LlmCheckBreak, LlmDecode, LlmAnswer, StopEnd, RaiseBreak,
      ClearBreak, Block, FallAsleep
<1>4. CASE UNCHANGED vars
  BY <1>4 DEF vars, client
<1>5. CASE PushDrawId \/ PushFrame \/ PushCount \/ WaitNextFrame \/ TakeResult \/ NoResult
           \/ EndSession \/ DeleteSession
  BY <1>4, <1>5 DEF PushDrawId, PushFrame, PushCount, WaitNextFrame, TakeResult, NoResult,
              EndSession, DeleteSession
<1>6. CASE PrefillerTake \/ PrefillerHandOver \/ DecoderTake \/ DecoderReport
           \/ DecoderUncount \/ WorkerExit \/ UNCHANGED allVars
  BY <1>4, <1>6 DEF PrefillerTake, PrefillerHandOver, DecoderTake, DecoderReport,
              DecoderUncount, WorkerExit, allVars
<1> QED
  BY <1>1, <1>2, <1>3, <1>5, <1>6 DEF SessionNext, Caller, Workers

\* omni_duplex_session_end drains, breaks included: when it stops the workers every frame
\* has its result and no request is left; without a break the pipeline's queues are empty.
THEOREM EndIsEmpty == SessionSpec => []EndDrains
<1> DEFINE I == SessionInv /\ OwnInv /\ CleanInv /\ skips = 0
<1>1. I => EndDrains
  <2> SUFFICES ASSUME I, session = "ending" PROVE EndDrains
    BY DEF EndDrains
  <2>1. KindsOK /\ PlaceOK /\ LifeOK /\ FramesInv /\ TallyInv /\ TypeInv
    BY DEF SessionInv
  <2>2. /\ Queued("decoder") = 0 /\ Queued("prefiller") = 0 /\ Queued("producer") = 0
        /\ Len(decodePending) = 0 /\ Len(pendingFrames) = 0
        /\ AcceptedOne = 0 /\ HandledOne = 0
        /\ pc["sub"] = "idle" /\ pc["dec"] = "idle" /\ Alive
    BY <2>1, SessionBasics DEF PlaceOK, LifeOK, AcceptedOne, HandledOne, Alive, Running
  <2>3. /\ Reported = lastId /\ HandedOver = lastId
    BY <2>1, <2>2, SessionBasics DEF FramesInv, InDecode, HandedOver, Fetched, Pushed
  <2>4. accepted = base + lastId /\ handled = accepted
    BY <2>1, <2>2, <2>3, SessionBasics DEF TallyInv
  <2>5. pending = 0
    BY <2>2 DEF OwnInv
  <2>6. breaks = 0 => encQ = <<>> /\ preQ = <<>>
    <3> SUFFICES ASSUME breaks = 0 PROVE encQ = <<>> /\ preQ = <<>>
      OBVIOUS
    <3>1. OrderInv /\ RoundInv
      BY DEF CleanInv, Undisturbed, PairInv
    <3>2. Uncounted = 0
      BY <2>2 DEF Uncounted
    <3>3. Len(kv) = accepted /\ Started + Len(encQ) = accepted
      BY <2>2, <2>4, <3>1, <3>2, SessionBasics DEF RoundInv, OrderInv
    <3>4. Len(encQ) = 0 /\ Len(preQ) = 0
      BY <2>1, <3>3, Basics DEF Started, Encoded, Popped
    <3> QED
      BY <2>1, <3>4, Basics
  <2> QED
    BY <2>3, <2>4, <2>5, <2>6 DEF EndDrains, Reported
<1>2. I /\ [SessionNext]_allVars => I'
  <2> SUFFICES ASSUME I, [SessionNext]_allVars PROVE I'
    OBVIOUS
  <2>1. SessionInv' /\ [Next]_vars /\ TypeInv
    BY SessionStep, ClientStep DEF SessionInv
  <2> QED
    BY <2>1, OwnStep, CleanStep, NeverSkips
<1>3. SessionInit => I
  BY SessionInitInv, OwnInit, CleanInit DEF SessionInit, Init
<1> HIDE DEF I
<1> QED
  BY <1>1, <1>2, <1>3, PTL DEF SessionSpec

-----------------------------------------------------------------------------
(***************************************************************************)
(* A result of a session carries its own frame's answer, proved for every   *)
(* capacity, number of frames and number of sessions: the text that the     *)
(* decode worker takes out of text_queue is that of the decode it waited for,  *)
(* which no later call has cleared or replaced.                             *)
(***************************************************************************)
\* Round r is answered, and its text is the one in text_queue.
Delivered(r) == r \in Frames /\ req[r] = "ok" /\ text = r /\ seen[r] = r

ResultsOwn ==
    \A i \in 1..Len(doneResults) :
        LET round == base + doneResults[i].frame IN
        /\ doneResults[i].ok /\ doneResults[i].text = round
        /\ round \in Frames /\ seen[round] = round

\* From the LLM thread's decode to the decode worker's report.
TextInv ==
    /\ pc["llm"] = "answer" => text = cur /\ seen[cur] = cur
    /\ pc["dec"] = "await" /\ pending = 0 /\ cur = 0 => Delivered(handled + 1)
    /\ at["decoder"] = "in" /\ pc["dec"] = "idle" => Delivered(handled)

OwnTextInv == SessionInv /\ TurnInv /\ ResultsOwn /\ TextInv

\* A break ends the pairing and with it what is claimed of results.
BreakInv ==
    /\ SessionInv /\ TurnsInv /\ skips = 0
    /\ breaks = 0 => ResultsOwn /\ TextInv

LEMMA BreakInit == SessionInit => BreakInv
<1>1. SessionInit => SessionInv /\ TurnsInv /\ skips = 0
  BY SessionInitInv, CleanInit, SeenInit DEF SessionInit, TurnsInv, Init
<1>2. SessionInit => ResultsOwn /\ TextInv
  BY DEF SessionInit, Init, ResultsOwn, TextInv, Roles, Threads
<1> QED
  BY <1>1, <1>2 DEF BreakInv

\* A round is decoded on its own frame once and for all.
LEMMA SeenKept ==
  ASSUME TurnInv, [Next]_vars, NEW r \in Frames, seen[r] = r
  PROVE  seen'[r] = r
<1>1. CASE LlmDecode
  <2>1. seen' = [seen EXCEPT ![cur] = Len(kv)] /\ cur = Len(kv)
    BY <1>1 DEF LlmDecode, At, TurnInv, AllInv, PairInv, LlmInv
  <2>2. seen \in [Frames -> Int]
    BY DEF TurnInv, AllInv, TypeInv, TypeOK, RequestsOK
  <2> QED
    BY <2>1, <2>2
<1>2. CASE seen' = seen
  BY <1>2
<1>3. LlmDecode \/ seen' = seen
  BY CacheActions DEF LlmPrefill
<1> QED
  BY <1>1, <1>2, <1>3

\* What the invariants say of the places of the LLM thread and the decode call.
LEMMA Handover ==
  ASSUME SessionInv, TurnInv
  PROVE  /\ pc["dec"] # "idle" => at["decoder"] = "in"
         /\ at["decoder"] = "in" => Running
         /\ Running /\ pc["dec"] # "await" => cur = 0 /\ pending = 0
         /\ Running /\ pc["dec"] = "await" =>
              \/ pending = handled + 1 /\ cur = 0 /\ ~Answered(handled + 1)
              \/ cur = handled + 1 /\ pending = 0 /\ ~Answered(handled + 1)
              \/ pending = 0 /\ cur = 0
         /\ pc["llm"] \in {"decode", "answer"} => cur \in Frames /\ cur = Len(kv)
         /\ pc["llm"] = "decode" => seen[cur] = -1
         /\ pc["llm"] # "reject" /\ ~broke
         /\ handled \in Nat /\ Len(kv) \in Nat
         /\ seen \in [Frames -> Int] /\ req \in [Frames -> {"none", "open", "ok", "failed"}]
         /\ DOMAIN pc = Threads
         /\ at \in [Roles -> {"off", "idle", "push", "count", "take", "call", "in", "uncount", "wait"}]
         /\ Frames \subseteq Nat /\ 0 \notin Frames /\ cur \in Frames \cup {0}
<1>1. /\ pc["dec"] # "idle" => at["decoder"] = "in"
      /\ at["decoder"] = "in" => Running
  BY DEF SessionInv, PlaceOK, LifeOK
<1>2. /\ Running /\ pc["dec"] # "await" => cur = 0 /\ pending = 0
      /\ Running /\ pc["dec"] = "await" =>
           \/ pending = handled + 1 /\ cur = 0 /\ ~Answered(handled + 1)
           \/ cur = handled + 1 /\ pending = 0 /\ ~Answered(handled + 1)
           \/ pending = 0 /\ cur = 0
  <2>1. handled \in Nat
    BY Basics DEF TurnInv, AllInv
  <2> QED
    BY <2>1 DEF TurnInv, AllInv, PairInv, RoundInv, Alive, Running
<1>3. /\ pc["llm"] \in {"decode", "answer"} => cur # 0 /\ cur = Len(kv)
      /\ pc["llm"] = "decode" => seen[cur] = -1
      /\ pc["llm"] # "reject" /\ ~broke
  BY DEF TurnInv, AllInv, PairInv, LlmInv, SeenInv, Undecoded, TypeInv, LocalOK
<1>4. /\ seen \in [Frames -> Int] /\ req \in [Frames -> {"none", "open", "ok", "failed"}]
      /\ handled \in Nat /\ Len(kv) \in Nat /\ DOMAIN pc = Threads
      /\ Frames \subseteq Nat /\ 0 \notin Frames /\ cur \in Frames \cup {0}
  BY Basics DEF TurnInv, AllInv, TypeInv, TypeOK, RequestsOK, PcOK
<1>5. at \in [Roles -> {"off", "idle", "push", "count", "take", "call", "in", "uncount", "wait"}]
  BY DEF SessionInv, KindsOK
<1> QED
  BY <1>1, <1>2, <1>3, <1>4, <1>5

-----------------------------------------------------------------------------
\* The step of the LLM thread or of the call that an answer goes through.
LEMMA TextPipeline ==
  ASSUME OwnTextInv, PipelineStep, ~RaiseBreak
  PROVE  TextInv'
<1>a. SessionInv /\ TurnInv /\ TextInv
  BY DEF OwnTextInv
<1>b. text' = (IF seen' = seen THEN text ELSE cur) /\ at' = at
  BY DEF PipelineStep, sessionState
<1>1. CASE LlmDecode
  <2>1. /\ pc["llm"] = "decode" /\ cur' = cur /\ cur \in Frames
        /\ seen' = [seen EXCEPT ![cur] = Len(kv)] /\ cur = Len(kv) /\ seen[cur] = -1
        /\ pc'["dec"] = pc["dec"]
    BY <1>1, <1>a, Handover DEF LlmDecode, At, Goto, local, Threads
  <2>2. seen'[cur] = cur /\ seen' # seen
    BY <1>a, <2>1, Handover
  <2>3. text' = cur
    BY <1>b, <2>2
  <2>4. at["decoder"] = "in" => pc["dec"] # "idle"
    BY <1>a, <2>1, Handover
  <2> QED
    BY <1>a, <1>b, <2>1, <2>2, <2>3, <2>4, Handover DEF TextInv
<1>2. CASE LlmAnswer
  <2>1. /\ pc["llm"] = "answer" /\ cur' = 0 /\ req' = [req EXCEPT ![cur] = "ok"]
        /\ UNCHANGED <<seen, handled>> /\ pc'["dec"] = pc["dec"] /\ pc'["llm"] = "phase0"
    BY <1>2, <1>a, Handover DEF LlmAnswer, At, Goto, cache, client, Threads
  <2>2. cur \in Frames /\ text' = cur /\ seen'[cur] = cur
    BY <1>a, <1>b, <2>1, Handover DEF TextInv
  <2>3. pc["dec"] = "await" => cur = handled + 1
    BY <1>a, <2>2, Handover
  <2>4. at["decoder"] = "in" => pc["dec"] = "await"
    BY <1>a, <2>2, Handover
  <2>5. req'[cur] = "ok"
    BY <1>a, <2>1, <2>2, Handover
  <2> QED
    BY <1>b, <2>1, <2>2, <2>3, <2>4, <2>5 DEF TextInv, Delivered
<1>3. CASE DecodeReturn
  <2>1. /\ pc["dec"] = "await" /\ pc'["dec"] = "idle" /\ handled' = handled + 1
        /\ UNCHANGED <<req, seen, cur, pending>> /\ pc'["llm"] = pc["llm"]
        /\ ~Running \/ Answered(handled + 1)
    BY <1>3, <1>a, Handover
    DEF DecodeReturn, Enter, Ready, Goto, queues, local, cache, Threads
  <2>2. pending = 0 /\ cur = 0
    BY <1>a, <2>1, Handover
  <2> QED
    BY <1>a, <1>b, <2>1, <2>2 DEF TextInv, Delivered
<1>4. CASE DecodePost
  <2>1. /\ pc["dec"] = "post" /\ Running /\ pc'["dec"] = "await" /\ pending' = handled + 1
        /\ UNCHANGED <<seen, cur>> /\ pc'["llm"] = pc["llm"]
    BY <1>4, <1>a, Handover DEF DecodePost, Enter, Goto, local, cache, Threads
  <2>2. pending' # 0
    BY <1>a, <2>1, Handover
  <2> QED
    BY <1>a, <1>b, <2>1, <2>2 DEF TextInv
<1>5. CASE LlmTakeRequest \/ LlmBreak
  <2>1. /\ LlmTakeRequest /\ Running /\ pending # 0 /\ cur' = pending /\ seen' = seen
        /\ pc'["llm"] = "route" /\ pc'["dec"] = pc["dec"]
    BY <1>5, <1>a, Handover
    DEF LlmTakeRequest, LlmBreak, Enter, Ready, Goto, cache, Threads
  <2>2. at["decoder"] = "in" => pc["dec"] = "await"
    BY <1>a, <2>1, Handover
  <2> QED
    BY <1>b, <2>1, <2>2 DEF TextInv
<1>6. CASE StopEnd
  <2>1. ~Running /\ UNCHANGED <<pc, seen, cur>>
    BY <1>6 DEF StopEnd, Running, cache, local
  <2>2. at["decoder"] # "in" /\ pc["dec"] = "idle"
    BY <1>a, <2>1, Handover
  <2> QED
    BY <1>a, <1>b, <2>1, <2>2 DEF TextInv
<1>7. CASE /\ UNCHANGED <<seen, req, handled, pending, cur>> /\ pc'["dec"] = pc["dec"]
           /\ pc'["llm"] = "answer" => pc["llm"] = "answer"
  BY <1>a, <1>b, <1>7 DEF TextInv, Delivered
<1>8. CASE SubStep \/ EncStep
  <2>1. UNCHANGED <<seen, req, handled, pending, cur>> /\ pc'["dec"] = pc["dec"]
        /\ pc'["llm"] = pc["llm"]
    BY <1>8, <1>a, Handover
    DEF SubStep, EncStep, PrefillPush, PrefillCount, EncTake, EncSend, Goto, cache, local,
        client, queues, Threads
  <2> QED
    BY <1>7, <2>1
<1>9. CASE LlmStop \/ LlmRoute \/ LlmTakePacket \/ LlmPrefill \/ LlmCheckBreak
  <2>1. UNCHANGED <<seen, req, handled, pending, cur>> /\ pc'["dec"] = pc["dec"]
        /\ pc'["llm"] # "answer"
    BY <1>9, <1>a, Handover
    DEF LlmStop, LlmRoute, LlmTakePacket, LlmPrefill, LlmCheckBreak, Goto, cache, local,
        client, queues, Threads, Enter, At
  <2> QED
    BY <1>7, <2>1
<1>10. CASE \E t \in Threads : Block(t) \/ FallAsleep(t)
  BY <1>7, <1>10 DEF Block, FallAsleep, queues, cache, local, client
<1>11. CASE ClearBreak
  BY <1>a, <1>11, Handover DEF ClearBreak
<1> QED
  BY <1>1, <1>2, <1>3, <1>4, <1>5, <1>6, <1>8, <1>9, <1>10, <1>11
  DEF PipelineStep, LlmStep, DecStep

LEMMA TextStep ==
  ASSUME OwnTextInv, [SessionNext]_allVars, ~RaiseBreak
  PROVE  TextInv'
<1>a. SessionInv /\ TurnInv /\ TextInv
  BY DEF OwnTextInv
<1>1. CASE PipelineStep
  BY <1>1, TextPipeline
<1>2. CASE DecoderReport
  <2>1. /\ UNCHANGED <<pc, seen, cur>> /\ at'["decoder"] # "in"
        /\ at["decoder"] = "in" /\ pc["dec"] = "idle"
    BY <1>a, <1>2, Handover
    DEF DecoderReport, DecodeReturned, Move, vars, cache, local, sched, Roles
  <2>2. pc["llm"] # "answer"
    BY <1>a, <2>1, Handover
  <2> QED
    BY <2>1, <2>2 DEF TextInv
<1>3. CASE DecoderCall
  <2>1. /\ at["decoder"] = "call" /\ pc'["dec"] = "post" /\ pc'["llm"] = pc["llm"]
        /\ UNCHANGED <<seen, cur, text>>
    BY <1>a, <1>3, Handover
    DEF DecoderCall, EnterDecode, Move, At, Goto, Threads, cache, local,
        SessionInv, LifeOK, Running
  <2> QED
    BY <1>a, <2>1 DEF TextInv
<1>4. CASE /\ UNCHANGED <<seen, req, handled, pending, cur, text>> /\ pc'["dec"] = pc["dec"]
           /\ pc'["llm"] = "answer" => pc["llm"] = "answer"
           /\ at'["decoder"] = "in" => at["decoder"] = "in"
  BY <1>a, <1>4 DEF TextInv, Delivered
<1>5. CASE BeginSession \/ PrefillerCall \/ StopPipeline
  BY <1>4, <1>5, <1>a, Handover
  DEF BeginSession, Start, PrefillerCall, CallPrefill, StopPipeline, SignalStop, Move, Goto,
      queues, cache, local, client, vars, Threads, Roles, sessionState, sched
<1>6. CASE PushDrawId \/ PushFrame \/ PushCount \/ WaitNextFrame \/ TakeResult \/ NoResult
           \/ EndSession \/ DeleteSession
  BY <1>4, <1>6, <1>a, Handover
  DEF PushDrawId, PushFrame, PushCount, WaitNextFrame, TakeResult, NoResult, EndSession,
      DeleteSession, Move, vars, queues, cache, local, client, sched, Roles
<1>7. CASE PrefillerTake \/ PrefillerHandOver \/ DecoderTake \/ DecoderUncount \/ WorkerExit
           \/ UNCHANGED allVars
  BY <1>4, <1>7, <1>a, Handover
  DEF PrefillerTake, PrefillerHandOver, DecoderTake, DecoderUncount, WorkerExit, Move, vars,
      allVars, sessionState, queues, cache, local, client, sched, Roles
<1> QED
  BY <1>1, <1>2, <1>3, <1>5, <1>6, <1>7 DEF SessionNext, Caller, Workers

LEMMA ResultsStep ==
  ASSUME OwnTextInv, [SessionNext]_allVars
  PROVE  ResultsOwn'
<1>a. SessionInv /\ TurnInv /\ TextInv /\ ResultsOwn /\ [Next]_vars
  BY ClientStep DEF OwnTextInv
<1>b. doneResults \in Seq(Results) /\ Len(doneResults) \in Nat
  BY <1>a, SessionBasics DEF SessionInv, KindsOK
<1>c. \A r \in Frames : seen[r] = r => seen'[r] = r
  BY <1>a, SeenKept
<1>1. CASE BeginSession \/ DeleteSession
  BY <1>1 DEF BeginSession, DeleteSession, ResultsOwn
<1>2. CASE UNCHANGED <<doneResults, base>>
  BY <1>a, <1>c, <1>2 DEF ResultsOwn
<1>3. CASE TakeResult
  <2>1. /\ doneResults # <<>> /\ doneResults' = Tail(doneResults) /\ base' = base
    BY <1>3 DEF TakeResult
  <2>2. /\ Len(doneResults') = Len(doneResults) - 1
        /\ \A i \in 1..(Len(doneResults) - 1) : doneResults'[i] = doneResults[i + 1]
    BY <1>b, <2>1, PopFacts
  <2>3. \A i \in 1..Len(doneResults') :
          i + 1 \in 1..Len(doneResults) /\ doneResults'[i] = doneResults[i + 1]
    BY <1>b, <2>2
  <2>4. base' = base
    BY <2>1
  <2> QED
    BY <1>a, <1>c, <2>3, <2>4 DEF ResultsOwn
<1>4. CASE DecoderReport
  <2> DEFINE frame == held["decoder"]
             result == Result(frame, req[base + frame] = "ok", text)
  <2>1. /\ doneResults' = Append(doneResults, result) /\ base' = base
        /\ frame # 0 /\ at["decoder"] = "in" /\ pc["dec"] = "idle"
    BY <1>a, <1>4
    DEF DecoderReport, DecodeReturned, Move, SessionInv, PlaceOK
  <2>2. Delivered(handled)
    BY <1>a, <2>1 DEF TextInv
  <2>3. base + frame = handled
    <3>1. frame = Reported + 1
      BY <1>a, <2>1 DEF SessionInv, FramesInv
    <3>2. handled = base + Reported + 1
      BY <1>a, <2>1 DEF SessionInv, TallyInv, HandledOne
    <3>3. base \in Nat /\ Reported \in Nat
      BY <1>a, SessionBasics
    <3> QED
      BY <3>1, <3>2, <3>3
  <2>4. /\ result.ok /\ result.frame = frame /\ result.text = base + frame
        /\ base + frame \in Frames /\ seen[base + frame] = base + frame
    BY <2>2, <2>3 DEF Result, Delivered
  <2> HIDE DEF result
  <2>5. /\ Len(doneResults') = Len(doneResults) + 1
        /\ doneResults'[Len(doneResults) + 1] = result
        /\ \A i \in 1..Len(doneResults) : doneResults'[i] = doneResults[i]
    <3>1. doneResults' \in Seq(Results)
      BY <1>a, KindsStep DEF KindsOK
    <3> QED
      BY <1>b, <2>1, <3>1
  <2>6. base' = base
    BY <2>1
  <2> HIDE DEF frame
  <2>7. \A i \in 1..Len(doneResults') :
          /\ doneResults'[i].ok /\ doneResults'[i].text = base + doneResults'[i].frame
          /\ base + doneResults'[i].frame \in Frames
          /\ seen[base + doneResults'[i].frame] = base + doneResults'[i].frame
    <3> TAKE i \in 1..Len(doneResults')
    <3>1. CASE i \in 1..Len(doneResults)
      <4>1. doneResults'[i] = doneResults[i]
        BY <2>5, <3>1
      <4> QED
        BY <1>a, <3>1, <4>1 DEF ResultsOwn
    <3>2. CASE i = Len(doneResults) + 1
      <4>1. doneResults'[i] = result
        BY <2>5, <3>2
      <4> QED
        BY <2>4, <4>1
    <3> QED
      BY <1>b, <2>5, <3>1, <3>2
  <2> QED
    BY <1>c, <2>6, <2>7 DEF ResultsOwn
<1>5. CASE PushDrawId \/ PushFrame \/ PushCount \/ WaitNextFrame \/ NoResult \/ EndSession
           \/ StopPipeline \/ PrefillerTake \/ PrefillerCall \/ PrefillerHandOver
           \/ DecoderTake \/ DecoderCall \/ DecoderUncount \/ WorkerExit \/ PipelineStep
           \/ UNCHANGED allVars
  <2>1. UNCHANGED <<doneResults, base>>
    BY <1>5
    DEF PushDrawId, PushFrame, PushCount, WaitNextFrame, NoResult, EndSession, StopPipeline,
        PrefillerTake, PrefillerCall, PrefillerHandOver, DecoderTake, DecoderCall,
        DecoderUncount, WorkerExit, PipelineStep, allVars, sessionState, sessionQueues
  <2> QED
    BY <1>2, <2>1
<1> QED
  BY <1>1, <1>3, <1>4, <1>5 DEF SessionNext, Caller, Workers

\* Until a break is raised a result of the session is of its own frame: it succeeded, its
\* text is the one of its round, and that round was decoded on a KV cache that ended with
\* the frame, for every capacity, also after frame ids have restarted in a later session.
THEOREM ResultsOfOwnFrame == SessionSpec => []ResultIsOwn
<1>1. BreakInv => ResultIsOwn
  BY DEF BreakInv, ResultsOwn, ResultIsOwn
<1>2. BreakInv /\ [SessionNext]_allVars => BreakInv'
  <2> SUFFICES ASSUME BreakInv, [SessionNext]_allVars PROVE BreakInv'
    OBVIOUS
  <2>1. SessionInv' /\ [Next]_vars /\ skips' = 0 /\ TypeInv
    BY SessionStep, ClientStep, NeverSkips DEF BreakInv, SessionInv
  <2>2. TurnsInv'
    BY <2>1, TurnsStep DEF BreakInv
  <2>3. ASSUME breaks' = 0 PROVE ResultsOwn' /\ TextInv'
    <3>1. Undisturbed' /\ Undisturbed /\ ~RaiseBreak
      BY <2>1, <2>3, UndisturbedBefore DEF Undisturbed
    <3>2. OwnTextInv
      BY <3>1 DEF BreakInv, TurnsInv, CleanInv, AllInv, TurnInv, OwnTextInv, Undisturbed
    <3> QED
      BY <3>1, <3>2, TextStep, ResultsStep
  <2> QED
    BY <2>1, <2>2, <2>3 DEF BreakInv
<1> QED
  BY <1>1, <1>2, BreakInit, PTL DEF SessionSpec
=============================================================================
