------------------------ MODULE DuplexPipelineProofs ------------------------
(***************************************************************************)
(* Proofs about DuplexPipeline, for every capacity, mode and bound.         *)
(***************************************************************************)
EXTENDS DuplexPipeline, SequenceTheorems, TLAPS

-----------------------------------------------------------------------------
(***************************************************************************)
(* Queues.                                                                  *)
(***************************************************************************)
\* std::queue::push at the back: one longer, the old elements where they were.
LEMMA AppendFacts ==
  ASSUME NEW S, NEW q \in Seq(S), NEW x \in S
  PROVE  /\ Append(q, x) \in Seq(S)
         /\ Len(Append(q, x)) = Len(q) + 1
         /\ Append(q, x)[Len(q) + 1] = x
         /\ \A i \in 1..Len(q) : Append(q, x)[i] = q[i]
  OBVIOUS

\* std::queue::front and pop: one shorter, every element one place nearer.
LEMMA PopFacts ==
  ASSUME NEW S, NEW q \in Seq(S), q # <<>>
  PROVE  /\ Head(q) \in S
         /\ Head(q) = q[1]
         /\ Len(q) >= 1
         /\ Tail(q) \in Seq(S)
         /\ Len(Tail(q)) = Len(q) - 1
         /\ \A i \in 1..(Len(q) - 1) : Tail(q)[i] = q[i + 1]
  OBVIOUS

-----------------------------------------------------------------------------
(***************************************************************************)
(* Type correctness.  What each thread's place says of the variables it     *)
(* owns: TypeOK is not inductive without it, since a frame goes into a queue *)
(* only because the thread that appends it holds one.                       *)
(***************************************************************************)
LocalOK ==
    /\ life = "none" => /\ pc["enc"] = "off" /\ pc["llm"] = "off"
                        /\ pc["sub"] = "idle" /\ accepted = 0
    /\ pc["sub"] \in {"put", "count"} => accepted < MaxFrames
    /\ pc["dec"] \in {"post", "await"} => handled < accepted
    /\ pc["enc"] = "send" <=> hand # 0
    /\ pc["llm"] = "prefill" <=> pkt # 0
    /\ pc["llm"] \in {"route", "phase1", "prefill", "phase2", "decode",
                      "answer", "reject"} => cur # 0

TypeInv == TypeOK /\ LocalOK

LEMMA TypeInit == Init => TypeInv
<1> SUFFICES ASSUME Init PROVE TypeInv
  OBVIOUS
<1> USE CapAssumption, BoundAssumption DEF Init
<1>1. QueuesOK    BY DEF QueuesOK
<1>2. RequestsOK  BY DEF RequestsOK
<1>3. CountersOK  BY DEF CountersOK
<1>4. PcOK        BY DEF PcOK, Threads
<1>5. LocalOK     BY DEF LocalOK, Threads
<1>6. waiting \in [Threads -> {"awake", "drowsy", "asleep"}]
  OBVIOUS
<1> QED
  BY <1>1, <1>2, <1>3, <1>4, <1>5, <1>6 DEF TypeInv, TypeOK

LEMMA TypeStep == TypeInv /\ [Next]_vars => TypeInv'
<1> SUFFICES ASSUME TypeInv, [Next]_vars PROVE TypeInv'
  OBVIOUS
<1> USE CapAssumption, BoundAssumption, ModeAssumption
    DEF TypeInv, TypeOK, Running, Enter, At, Goto, Notify,
        vars, queues, cache, sched, local, client
<1>a. accepted < MaxFrames => accepted + 1 \in Frames
  BY DEF CountersOK, Frames
<1>b. handled < accepted => handled + 1 \in Frames
  BY DEF CountersOK, Frames
<1>c. 0 \notin Frames
  BY DEF Frames
<1> USE DEF PcOK, Threads
<1>1. CASE CallPrefill
  BY <1>1 DEF CallPrefill, QueuesOK, RequestsOK, CountersOK, LocalOK
<1>2. CASE PrefillPush
  <2>1. QueuesOK'
    <3>1. CASE Running
      <4>1. accepted + 1 \in Frames
        BY <1>2, <1>a DEF PrefillPush, LocalOK
      <4>2. Len(encQ) < EncCap
        BY <1>2, <3>1 DEF PrefillPush, Ready, EncRoom
      <4>3. encQ' = Append(encQ, accepted + 1) /\ preQ' = preQ /\ kv' = kv
        BY <1>2, <3>1 DEF PrefillPush
      <4> QED
        BY <4>1, <4>2, <4>3, AppendFacts DEF QueuesOK
    <3>2. CASE ~Running
      BY <1>2, <3>2 DEF PrefillPush, QueuesOK
    <3> QED
      BY <3>1, <3>2
  <2>2. RequestsOK' /\ CountersOK' /\ LocalOK'
    BY <1>2 DEF PrefillPush, RequestsOK, CountersOK, LocalOK
  <2> QED
    BY <1>2, <2>1, <2>2 DEF PrefillPush
<1>3. CASE PrefillCount
  BY <1>3 DEF PrefillCount, QueuesOK, RequestsOK, CountersOK, LocalOK
<1>4. CASE CallDecode
  BY <1>4 DEF CallDecode, EnterDecode, QueuesOK, RequestsOK, CountersOK, LocalOK
<1>5. CASE SkipDecode
  BY <1>5 DEF SkipDecode, QueuesOK, RequestsOK, CountersOK, LocalOK
<1>6. CASE DecodePost
  <2>1. handled + 1 \in Frames
    BY <1>6, <1>b DEF DecodePost, LocalOK
  <2>2. RequestsOK'
    BY <1>6, <2>1 DEF DecodePost, RequestsOK
  <2> QED
    BY <1>6, <2>2 DEF DecodePost, QueuesOK, CountersOK, LocalOK
<1>7. CASE DecodeReturn
  BY <1>7 DEF DecodeReturn, QueuesOK, RequestsOK, CountersOK, LocalOK
<1>8. CASE EncTake
  <2>1. CASE Running
    <3>1. encQ # <<>>
      BY <1>8, <2>1 DEF EncTake, Ready
    <3>2. /\ encQ' = Tail(encQ) /\ hand' = Head(encQ)
          /\ UNCHANGED <<preQ, kv, req, seen, pending, cur, pkt>>
      BY <1>8, <2>1 DEF EncTake
    <3>3. QueuesOK' /\ hand' \in Frames
      BY <3>1, <3>2, PopFacts DEF QueuesOK
    <3> QED
      BY <1>8, <2>1, <3>2, <3>3, <1>c DEF EncTake, RequestsOK, CountersOK, LocalOK
  <2>2. CASE ~Running
    BY <1>8, <2>2 DEF EncTake, QueuesOK, RequestsOK, CountersOK, LocalOK
  <2> QED
    BY <2>1, <2>2
<1>9. CASE EncSend
  <2>1. QueuesOK'
    <3>1. CASE Running
      <4>1. hand \in Frames
        BY <1>9 DEF EncSend, LocalOK, RequestsOK
      <4>2. Len(preQ) < PreCap
        BY <1>9, <3>1 DEF EncSend, Ready, PreRoom
      <4>3. preQ' = Append(preQ, hand) /\ encQ' = encQ /\ kv' = kv
        BY <1>9, <3>1 DEF EncSend
      <4> QED
        BY <4>1, <4>2, <4>3, AppendFacts DEF QueuesOK
    <3>2. CASE ~Running
      BY <1>9, <3>2 DEF EncSend, QueuesOK
    <3> QED
      BY <3>1, <3>2
  <2>2. RequestsOK' /\ CountersOK' /\ LocalOK'
    BY <1>9 DEF EncSend, RequestsOK, CountersOK, LocalOK
  <2> QED
    BY <1>9, <2>1, <2>2 DEF EncSend
<1>10. CASE LlmStop
  BY <1>10 DEF LlmStop, QueuesOK, RequestsOK, CountersOK, LocalOK
<1>11. CASE LlmBreak
  BY <1>11 DEF LlmBreak, Dropped, ClearPending, QueuesOK, RequestsOK, CountersOK, LocalOK
<1>12. CASE LlmTakeRequest
  BY <1>12 DEF LlmTakeRequest, ClearPending, Ready, QueuesOK, RequestsOK, CountersOK,
               LocalOK
<1>13. CASE LlmRoute
  BY <1>13 DEF LlmRoute, QueuesOK, RequestsOK, CountersOK, LocalOK
<1>14. CASE LlmTakePacket
  <2>1. CASE Running /\ ~broke
    <3>1. preQ # <<>>
      BY <1>14, <2>1 DEF LlmTakePacket, Ready
    <3>2. /\ preQ' = Tail(preQ) /\ pkt' = Head(preQ)
          /\ UNCHANGED <<encQ, kv, req, seen, pending, cur, hand>>
      BY <1>14, <2>1 DEF LlmTakePacket, PacketsLeft
    <3>3. QueuesOK' /\ pkt' \in Frames
      BY <3>1, <3>2, PopFacts DEF QueuesOK
    <3> QED
      BY <1>14, <2>1, <3>2, <3>3, <1>c
      DEF LlmTakePacket, RequestsOK, CountersOK, LocalOK
  <2>2. CASE ~Running \/ broke
    BY <1>14, <2>2 DEF LlmTakePacket, QueuesOK, RequestsOK, CountersOK, LocalOK
  <2> QED
    BY <2>1, <2>2
<1>15. CASE LlmPrefill
  <2>1. pkt \in Frames
    BY <1>15 DEF LlmPrefill, LocalOK, RequestsOK
  <2>2. QueuesOK'
    BY <1>15, <2>1, AppendFacts DEF LlmPrefill, QueuesOK
  <2> QED
    BY <1>15, <2>2 DEF LlmPrefill, CountedWrite, RequestsOK, CountersOK, LocalOK
<1>16. CASE LlmCheckBreak
  BY <1>16 DEF LlmCheckBreak, QueuesOK, RequestsOK, CountersOK, LocalOK
<1>17. CASE LlmDecode
  <2>1. Len(kv) \in Int
    BY DEF QueuesOK
  <2> QED
    BY <1>17, <2>1 DEF LlmDecode, QueuesOK, RequestsOK, CountersOK, LocalOK
<1>18. CASE LlmAnswer
  BY <1>18 DEF LlmAnswer, QueuesOK, RequestsOK, CountersOK, LocalOK
<1>19. CASE Control
  <2>1. CASE Start
    BY <2>1 DEF Start, QueuesOK, RequestsOK, CountersOK, LocalOK
  <2>2. CASE StopBegin
    BY <2>2 DEF StopBegin, SignalStop, QueuesOK, RequestsOK, CountersOK, LocalOK
  <2>3. CASE StopEnd
    <3>1. QueuesOK' /\ CountersOK' /\ LocalOK'
      BY <2>3 DEF StopEnd, QueuesOK, CountersOK, LocalOK
    <3>2. RequestsOK'
      BY <2>3 DEF StopEnd, RequestsOK
    <3> QED
      BY <2>3, <3>1, <3>2 DEF StopEnd
  <2>4. CASE RaiseBreak
    BY <2>4 DEF RaiseBreak, QueuesOK, RequestsOK, CountersOK, LocalOK
  <2>5. CASE ClearBreak
    <3>1. UNCHANGED <<life, queues, breaks, cache, sched, local, client>> /\ broke' = FALSE
      BY <2>5 DEF ClearBreak
    <3>2. QueuesOK' /\ RequestsOK'
      BY <3>1 DEF QueuesOK, RequestsOK
    <3> QED
      BY ZenonT(40), <3>1, <3>2 DEF CountersOK, LocalOK
  <2> QED
    BY <1>19, <2>1, <2>2, <2>3, <2>4, <2>5 DEF Control
<1>20. CASE \E t \in Threads : Block(t) \/ FallAsleep(t)
  <2> PICK t \in Threads : Block(t) \/ FallAsleep(t)
    BY <1>20
  <2>1. waiting' \in [Threads -> {"awake", "drowsy", "asleep"}]
    BY DEF Block, FallAsleep
  <2>2. UNCHANGED <<life, queues, broke, breaks, cache, pc, local, client>>
    BY DEF Block, FallAsleep
  <2>3. QueuesOK' /\ RequestsOK'
    BY <2>2 DEF QueuesOK, RequestsOK
  <2>4. CountersOK' /\ LocalOK' /\ PcOK' /\ life' = life /\ broke' = broke
    BY <2>2 DEF CountersOK, LocalOK
  <2> QED
    BY <2>1, <2>3, <2>4
<1>21. CASE UNCHANGED vars
  BY <1>21 DEF QueuesOK, RequestsOK, CountersOK, LocalOK
<1> QED
  BY <1>1, <1>2, <1>3, <1>4, <1>5, <1>6, <1>7, <1>8, <1>9, <1>10, <1>11, <1>12,
     <1>13, <1>14, <1>15, <1>16, <1>17, <1>18, <1>19, <1>20, <1>21
  DEF Next, SubStep, EncStep, LlmStep, DecStep

\* Every variable keeps its type and every queue its capacity.
THEOREM TypeCorrect == Spec => []TypeOK
<1>1. TypeInv => TypeOK
  BY DEF TypeInv
<1> QED
  BY <1>1, TypeInit, TypeStep, PTL DEF Spec

-----------------------------------------------------------------------------
(***************************************************************************)
(* The in-flight counter.  It is exact from the construction of the         *)
(* pipeline until a stop begins; then the encoder may drop its packet.      *)
(***************************************************************************)
Alive == life \in {"none", "up"}

FlightInv ==
    Alive =>
        inFlight + Uncounted =
            Len(encQ) + Len(preQ) + Len(One(hand)) + Len(One(pkt))

LEMMA OneFacts ==
  ASSUME NEW x
  PROVE  Len(One(x)) = IF x = 0 THEN 0 ELSE 1
  BY DEF One

LEMMA FlightInit == Init => FlightInv
  BY OneFacts DEF Init, FlightInv, Uncounted, Threads

LEMMA FlightStep == TypeInv /\ FlightInv /\ [Next]_vars => FlightInv'
<1> SUFFICES ASSUME TypeInv, FlightInv, [Next]_vars, Alive' PROVE FlightInv'
  BY DEF FlightInv
<1>a. Alive
  BY DEF Next, Alive, Running, SubStep, EncStep, LlmStep, DecStep, Control, vars, queues,
         CallPrefill, PrefillPush, PrefillCount, CallDecode, EnterDecode, SkipDecode,
         DecodePost,
         DecodeReturn, EncTake, EncSend, LlmStop, LlmBreak, LlmTakeRequest, LlmRoute,
         LlmTakePacket, LlmPrefill, LlmCheckBreak, LlmDecode, LlmAnswer, Start,
         StopBegin, SignalStop, StopEnd, RaiseBreak, ClearBreak, Block, FallAsleep
<1>b. inFlight + Uncounted = Len(encQ) + Len(preQ) + Len(One(hand)) + Len(One(pkt))
  BY <1>a DEF FlightInv
<1>c. /\ encQ \in Seq(Frames) /\ preQ \in Seq(Frames)
      /\ Len(encQ) \in Nat /\ Len(preQ) \in Nat /\ inFlight \in Int
      /\ PcOK /\ LocalOK
  BY DEF TypeInv, TypeOK, QueuesOK, CountersOK
<1>d. \/ Running
      \/ /\ pc["sub"] = "idle" /\ pc["enc"] = "off" /\ pc["llm"] = "off"
         /\ life = "none"
  BY <1>a, <1>c DEF Alive, Running, LocalOK
<1>e. 0 \notin Frames
  BY DEF Frames
<1>f. Len(One(hand)) \in Nat /\ Len(One(pkt)) \in Nat
  BY OneFacts
<1> USE <1>b, <1>c, <1>f, OneFacts DEF FlightInv, Uncounted, PcOK, Threads, Enter, At, Goto
<1>1. CASE PrefillPush
  <2>1. Running
    BY <1>1, <1>d DEF PrefillPush
  <2>2. encQ' = Append(encQ, accepted + 1) /\ UNCHANGED <<preQ, hand, pkt, inFlight>>
        /\ pc["sub"] = "put" /\ pc' = [pc EXCEPT !["sub"] = "count"]
    BY <1>1, <2>1 DEF PrefillPush, local
  <2>3. Len(encQ') = Len(encQ) + 1
    <3>1. accepted + 1 \in Frames
      BY <2>2, BoundAssumption DEF LocalOK, TypeInv, TypeOK, CountersOK, Frames
    <3> QED
      BY <2>2, <3>1, AppendFacts
  <2> QED
    BY <2>2, <2>3
<1>2. CASE PrefillCount
  BY <1>2 DEF PrefillCount, local
<1>3. CASE EncTake
  <2>1. Running
    BY <1>3, <1>d DEF EncTake
  <2>2. /\ encQ # <<>> /\ encQ' = Tail(encQ) /\ hand' = Head(encQ)
        /\ UNCHANGED <<preQ, pkt, inFlight>>
        /\ pc["enc"] = "take" /\ pc'["sub"] = pc["sub"]
    BY <1>3, <2>1 DEF EncTake, Ready
  <2>3. Len(encQ') = Len(encQ) - 1 /\ hand' \in Frames
    BY <2>2, PopFacts
  <2>4. Len(One(hand')) = 1 /\ Len(One(hand)) = 0
    BY <2>2, <2>3, <1>e DEF LocalOK
  <2>5. UNCHANGED <<Len(preQ), Len(One(pkt)), inFlight, Uncounted>>
    BY <2>2
  <2> QED
    BY <2>3, <2>4, <2>5
<1>4. CASE EncSend
  <2>1. Running
    BY <1>4, <1>d DEF EncSend
  <2>2. /\ preQ' = Append(preQ, hand) /\ hand' = 0
        /\ UNCHANGED <<encQ, pkt, inFlight>>
        /\ pc["enc"] = "send" /\ pc'["sub"] = pc["sub"]
    BY <1>4, <2>1 DEF EncSend
  <2>3. hand \in Frames
    BY <2>2 DEF LocalOK, TypeInv, TypeOK, RequestsOK
  <2>4. Len(preQ') = Len(preQ) + 1
    BY <2>2, <2>3, AppendFacts
  <2>5. Len(One(hand')) = 0 /\ Len(One(hand)) = 1
    BY <2>2, <2>3, <1>e
  <2>6. UNCHANGED <<Len(encQ), Len(One(pkt)), inFlight, Uncounted>>
    BY <2>2
  <2> QED
    BY <2>4, <2>5, <2>6
<1>5. CASE LlmBreak
  BY <1>5 DEF LlmBreak, Dropped, local
<1>6. CASE LlmTakePacket
  <2>1. Running
    BY <1>6, <1>d DEF LlmTakePacket
  <2>2. UNCHANGED <<encQ, hand, inFlight>> /\ pc'["sub"] = pc["sub"]
        /\ pc["llm"] = "phase1"
    BY <1>6, <2>1 DEF LlmTakePacket
  <2>3. CASE broke
    BY <1>6, <2>1, <2>2, <2>3 DEF LlmTakePacket
  <2>4. CASE ~broke
    <3>1. preQ # <<>> /\ preQ' = Tail(preQ) /\ pkt' = Head(preQ)
      BY <1>6, <2>1, <2>4 DEF LlmTakePacket, Ready, PacketsLeft
    <3>2. Len(preQ') = Len(preQ) - 1 /\ pkt' \in Frames
      BY <3>1, PopFacts
    <3>3. Len(One(pkt')) = 1 /\ Len(One(pkt)) = 0
      BY <2>2, <3>2, <1>e DEF LocalOK
    <3> QED
      BY <2>2, <3>2, <3>3
  <2> QED
    BY <2>3, <2>4
<1>7. CASE LlmPrefill
  <2>1. /\ pc["llm"] = "prefill" /\ pkt' = 0 /\ inFlight' = inFlight - 1
        /\ UNCHANGED <<encQ, preQ, hand>> /\ pc'["sub"] = pc["sub"]
    BY <1>7 DEF LlmPrefill, CountedWrite
  <2>2. Len(One(pkt')) = 0 /\ Len(One(pkt)) = 1
    BY <2>1 DEF LocalOK
  <2> QED
    BY <2>1, <2>2
<1>8. CASE CallPrefill \/ CallDecode \/ SkipDecode \/ DecodePost \/ DecodeReturn
  BY <1>8 DEF CallPrefill, CallDecode, EnterDecode, SkipDecode, DecodePost, DecodeReturn,
     queues,
              local, sched
<1>10. CASE LlmStop \/ LlmTakeRequest \/ LlmRoute \/ LlmCheckBreak \/ LlmDecode \/ LlmAnswer
  BY <1>10 DEF LlmStop, LlmTakeRequest, LlmRoute, LlmCheckBreak, LlmDecode, LlmAnswer,
               queues, local
<1>11. CASE Start \/ StopBegin \/ RaiseBreak \/ ClearBreak
  BY <1>11 DEF Start, StopBegin, SignalStop, RaiseBreak, ClearBreak, queues, local, sched
<1>12. CASE (\E t \in Threads : Block(t) \/ FallAsleep(t)) \/ UNCHANGED vars
  BY <1>12 DEF Block, FallAsleep, vars, queues, local, sched
<1>9. CASE StopEnd
  BY <1>9, <1>a DEF StopEnd, Alive
<1> QED
  BY <1>1, <1>2, <1>3, <1>4, <1>5, <1>6, <1>7, <1>8, <1>9, <1>10, <1>11, <1>12
  DEF Next, SubStep, EncStep, LlmStep, DecStep, Control

\* in_flight_prefill is exact while the pipeline runs, with breaks and force_listen too.
THEOREM CounterExact == Spec => []InFlightExact
<1>1. FlightInv => InFlightExact
  BY DEF FlightInv, InFlightExact, Alive, Running
<1> QED
  BY <1>1, TypeInit, TypeStep, FlightInit, FlightStep, PTL DEF Spec

-----------------------------------------------------------------------------
(***************************************************************************)
(* Proofs about DuplexPipeline with breaks and skipped decodes: who owns a  *)
(* decode request, and the order of the frames.                             *)
(***************************************************************************)
(***************************************************************************)
(* The owner of a request.  RequestOwned is not inductive: that a new request *)
(* finds no other one needs the caller's place, which waits for its own.    *)
(***************************************************************************)
OwnInv ==
    Alive =>
        /\ pending # 0 => cur = 0
        /\ \A r \in {pending, cur} \ {0} :
              req[r] = "open" /\ r = handled + 1 /\ pc["dec"] = "await"
        /\ \A r \in Frames : req[r] = "open" => r \in {pending, cur}
        /\ pc["dec"] = "await" => req[handled + 1] # "none"

LEMMA OwnInit == Init => OwnInv
  BY DEF Init, OwnInv, Frames, Threads

\* No step but a stop takes the pipeline out of service, and none brings it back.
LEMMA AliveSince == TypeInv /\ [Next]_vars /\ Alive' => Alive
  BY DEF TypeInv, TypeOK, Next, Alive, Running, SubStep, EncStep, LlmStep, DecStep, Control,
         vars, queues, CallPrefill, PrefillPush, PrefillCount, CallDecode, EnterDecode,
         SkipDecode, DecodePost, DecodeReturn, EncTake, EncSend, LlmStop, LlmBreak,
         LlmTakeRequest, LlmRoute, LlmTakePacket, LlmPrefill, LlmCheckBreak, LlmDecode,
         LlmAnswer, Start, StopBegin, SignalStop, StopEnd, RaiseBreak, ClearBreak, Block,
         FallAsleep

LEMMA OwnStep == TypeInv /\ OwnInv /\ [Next]_vars => OwnInv'
<1> SUFFICES ASSUME TypeInv, OwnInv, [Next]_vars, Alive' PROVE OwnInv'
  BY DEF OwnInv
<1>a. Alive
  BY AliveSince
<1>b. /\ pending # 0 => cur = 0
      /\ \A r \in {pending, cur} \ {0} :
            req[r] = "open" /\ r = handled + 1 /\ pc["dec"] = "await"
      /\ \A r \in Frames : req[r] = "open" => r \in {pending, cur}
      /\ pc["dec"] = "await" => req[handled + 1] # "none"
  BY <1>a DEF OwnInv
<1>c. /\ req \in [Frames -> {"none", "open", "ok", "failed"}]
      /\ pending \in Frames \cup {0} /\ cur \in Frames \cup {0} /\ 0 \notin Frames
      /\ handled \in Nat /\ DOMAIN pc = Threads
      /\ pc["dec"] \in {"post", "await"} => handled + 1 \in Frames
      /\ pc["llm"] \in {"answer", "reject"} => cur # 0
  BY BoundAssumption
  DEF TypeInv, TypeOK, RequestsOK, CountersOK, PcOK, LocalOK, Frames
<1>d. Running \/ pc["dec"] # "post"
  BY <1>a DEF TypeInv, LocalOK, TypeOK, CountersOK, PcOK, Alive, Running
<1> USE <1>c DEF Threads, Enter, At, Goto
<1> SUFFICES /\ pending' # 0 => cur' = 0
             /\ \A r \in {pending', cur'} \ {0} :
                   req'[r] = "open" /\ r = handled' + 1 /\ pc'["dec"] = "await"
             /\ \A r \in Frames : req'[r] = "open" => r \in {pending', cur'}
             /\ pc'["dec"] = "await" => req'[handled' + 1] # "none"
  BY DEF OwnInv
<1>1. CASE CallDecode \/ SkipDecode
  BY <1>1, <1>b DEF CallDecode, EnterDecode, SkipDecode, queues, local, sched
<1>2. CASE DecodePost
  <2>1. /\ pc["dec"] = "post" /\ Running /\ pending = 0 /\ cur = 0
        /\ pending' = handled + 1 /\ handled' = handled /\ cur' = cur
        /\ req' = [req EXCEPT ![handled + 1] = "open"]
        /\ pc' = [pc EXCEPT !["dec"] = "await"]
    BY <1>2, <1>b, <1>d DEF DecodePost, Ready, local
  <2> QED
    BY <2>1, <1>b
<1>3. CASE DecodeReturn
  <2>1. /\ pc["dec"] = "await" /\ (Running => Answered(handled + 1))
        /\ pc' = [pc EXCEPT !["dec"] = "idle"] /\ UNCHANGED <<pending, cur, req>>
    BY <1>3 DEF DecodeReturn, Ready, queues, local
  <2>2. Running
    BY <2>1, <1>a DEF TypeInv, LocalOK, TypeOK, CountersOK, PcOK, Alive, Running
  <2>3. pending = 0 /\ cur = 0
    BY <2>1, <2>2, <1>b DEF Answered
  <2> QED
    BY <2>1, <2>3, <1>b
<1>4. CASE LlmBreak
  BY <1>4, <1>b DEF LlmBreak, ClearPending, local, client
<1>5. CASE LlmTakeRequest
  BY <1>5, <1>b DEF LlmTakeRequest, ClearPending, Ready, client
<1>6. CASE LlmAnswer
  BY <1>6, <1>b DEF LlmAnswer, client
<1>7. CASE CallPrefill \/ PrefillPush \/ PrefillCount \/ EncTake \/ EncSend
  BY <1>7, <1>b DEF CallPrefill, PrefillPush, PrefillCount, EncTake, EncSend, queues, local,
     client
<1>8. CASE LlmStop \/ LlmRoute \/ LlmTakePacket \/ LlmPrefill \/ LlmCheckBreak \/ LlmDecode
  BY <1>8, <1>b DEF LlmStop, LlmRoute, LlmTakePacket, LlmPrefill, LlmCheckBreak, LlmDecode,
     queues, local, client
<1>9. CASE Start \/ StopBegin \/ RaiseBreak \/ ClearBreak
  BY <1>9, <1>b DEF Start, StopBegin, SignalStop, RaiseBreak, ClearBreak, queues, local,
     client, sched
<1>10. CASE StopEnd
  BY <1>10, <1>a DEF StopEnd, Alive
<1>11. CASE (\E t \in Threads : Block(t) \/ FallAsleep(t)) \/ UNCHANGED vars
  BY <1>11, <1>b DEF Block, FallAsleep, vars, queues, local, client, sched
<1> QED
  BY <1>1, <1>2, <1>3, <1>4, <1>5, <1>6, <1>7, <1>8, <1>9, <1>10, <1>11
  DEF Next, SubStep, EncStep, LlmStep, DecStep, Control

\* A posted request is in one place until it is answered, whatever is skipped or broken off.
THEOREM RequestsKept == Spec => []RequestOwned
<1>1. OwnInv => RequestOwned
  BY DEF OwnInv, RequestOwned, Alive, Running
<1> QED
  BY <1>1, TypeInit, TypeStep, OwnInit, OwnStep, PTL DEF Spec

-----------------------------------------------------------------------------
(***************************************************************************)
(* Answers are final.  This holds through a stop as well, where the pipeline *)
(* still answers the request it has, and the caller may be gone already.    *)
(***************************************************************************)
Awaited == handled + (IF pc["dec"] = "await" THEN 1 ELSE 0)

OpenInv ==
    /\ pending # 0 => cur = 0
    /\ \A r \in {pending, cur} \ {0} : req[r] = "open" /\ r <= Awaited
    /\ \A r \in Frames : r > Awaited => req[r] = "none"

LEMMA OpenInit == Init => OpenInv
  BY BoundAssumption DEF Init, OpenInv, Awaited, Frames, Threads

\* One step: OpenInv is kept, and no answer changes.
LEMMA OpenStep ==
  ASSUME TypeInv, OwnInv, OpenInv, [Next]_vars
  PROVE  OpenInv' /\ \A r \in Frames : Answered(r) => req'[r] = req[r]
<1>a. /\ req \in [Frames -> {"none", "open", "ok", "failed"}]
      /\ pending \in Frames \cup {0} /\ cur \in Frames \cup {0} /\ 0 \notin Frames
      /\ Frames \subseteq Nat
      /\ handled \in Nat /\ DOMAIN pc = Threads
      /\ pc["dec"] \in {"post", "await"} => handled + 1 \in Frames
      /\ pc["llm"] \in {"answer", "reject"} => cur # 0
  BY BoundAssumption
  DEF TypeInv, TypeOK, RequestsOK, CountersOK, PcOK, LocalOK, Frames
<1>b. /\ pending # 0 => cur = 0
      /\ \A r \in {pending, cur} \ {0} : req[r] = "open" /\ r <= Awaited
      /\ \A r \in Frames : r > Awaited => req[r] = "none"
  BY DEF OpenInv
<1> USE <1>a DEF Threads, Enter, At, Goto, Answered, Awaited
<1> SUFFICES /\ pending' # 0 => cur' = 0
             /\ \A r \in {pending', cur'} \ {0} : req'[r] = "open" /\ r <= Awaited'
             /\ \A r \in Frames : r > Awaited' => req'[r] = "none"
             /\ \A r \in Frames : Answered(r) => req'[r] = req[r]
  BY DEF OpenInv
<1>1. CASE CallDecode \/ SkipDecode
  BY <1>1, <1>b DEF CallDecode, EnterDecode, SkipDecode, queues, local, sched
<1>2. CASE DecodePost
  <2>1. CASE Running
    <3>1. cur = 0
      BY <1>2, <2>1 DEF DecodePost, OwnInv, Alive, Running
    <3>2. /\ pc["dec"] = "post" /\ handled' = handled /\ cur' = cur
          /\ pending' = handled + 1 /\ req' = [req EXCEPT ![handled + 1] = "open"]
          /\ pc' = [pc EXCEPT !["dec"] = "await"]
      BY <1>2, <2>1 DEF DecodePost, local
    <3> QED
      BY <3>1, <3>2, <1>b
  <2>2. CASE ~Running
    BY <1>2, <2>2, <1>b DEF DecodePost, local
  <2> QED
    BY <2>1, <2>2
<1>3. CASE DecodeReturn
  BY <1>3, <1>b DEF DecodeReturn, queues, local
<1>4. CASE LlmBreak
  BY <1>4, <1>b DEF LlmBreak, ClearPending, local, client
<1>5. CASE LlmTakeRequest
  BY <1>5, <1>b DEF LlmTakeRequest, ClearPending, Ready, client
<1>6. CASE LlmAnswer
  BY <1>6, <1>b DEF LlmAnswer, client
<1>7. CASE CallPrefill \/ PrefillPush \/ PrefillCount \/ EncTake \/ EncSend
  BY <1>7, <1>b DEF CallPrefill, PrefillPush, PrefillCount, EncTake, EncSend, queues, local,
     client
<1>8. CASE LlmStop \/ LlmRoute \/ LlmTakePacket \/ LlmPrefill \/ LlmCheckBreak \/ LlmDecode
  BY <1>8, <1>b DEF LlmStop, LlmRoute, LlmTakePacket, LlmPrefill, LlmCheckBreak, LlmDecode,
     queues, local, client
<1>9. CASE Start \/ StopBegin \/ RaiseBreak \/ ClearBreak
  BY <1>9, <1>b DEF Start, StopBegin, SignalStop, RaiseBreak, ClearBreak, queues, local,
     client, sched
<1>10. CASE StopEnd
  BY <1>10, <1>b DEF StopEnd, local, client
<1>11. CASE (\E t \in Threads : Block(t) \/ FallAsleep(t)) \/ UNCHANGED vars
  BY <1>11, <1>b DEF Block, FallAsleep, vars, queues, local, client, sched
<1> QED
  BY <1>1, <1>2, <1>3, <1>4, <1>5, <1>6, <1>7, <1>8, <1>9, <1>10, <1>11
  DEF Next, SubStep, EncStep, LlmStep, DecStep, Control

\* A request's done and ok are final, through breaks and a stop in the middle of a decode.
THEOREM AnswersFinal == Spec => AnsweredOnce
<1>1. TypeInv /\ OwnInv /\ OpenInv /\ [Next]_vars =>
         OpenInv' /\ [\A r \in Frames : Answered(r) => req'[r] = req[r]]_vars
  BY OpenStep
<1> QED
  BY <1>1, TypeInit, TypeStep, OwnInit, OwnStep, OpenInit, PTL DEF Spec, AnsweredOnce

-----------------------------------------------------------------------------
(***************************************************************************)
(* The order of the frames.  Line is one sequence through the KV cache, the *)
(* two threads' hands and both queues; a thread that takes or sends a frame *)
(* leaves it as it is, a push makes it longer, a break cuts a piece out of it.  *)
(***************************************************************************)
\* The line rises and ends at most with frame n.
Rising(line, n) ==
    /\ \A i, j \in 1..Len(line) : i < j => line[i] < line[j]
    /\ \A i \in 1..Len(line) : line[i] <= n

LineInv ==
    Alive =>
        /\ broke => breaks # 0
        /\ Rising(Line, accepted + Uncounted)
        /\ breaks = 0 => Len(Line) = accepted + Uncounted

\* A frame that is newer than all may join the line.
LEMMA RisingPush ==
  ASSUME NEW line \in Seq(Nat), NEW n \in Nat, Rising(line, n)
  PROVE  Rising(Append(line, n + 1), n + 1) /\ Len(Append(line, n + 1)) = Len(line) + 1
<1> DEFINE longer == Append(line, n + 1)
<1>1. /\ Len(longer) = Len(line) + 1 /\ longer[Len(line) + 1] = n + 1
      /\ \A i \in 1..Len(line) : longer[i] = line[i] /\ line[i] \in Nat
  BY AppendFacts, ElementOfSeq
<1>2. Len(line) \in Nat
  OBVIOUS
<1> HIDE DEF longer
<1>3. \A i \in 1..Len(longer) : longer[i] <= n + 1
  BY SMTT(40), <1>1, <1>2 DEF Rising
<1>4. ASSUME NEW i \in 1..Len(longer), NEW j \in 1..Len(longer), i < j
      PROVE  longer[i] < longer[j]
  <2>1. i \in 1..Len(line)
    BY <1>1, <1>2, <1>4
  <2>2. CASE j = Len(line) + 1
    BY <1>1, <2>1, <2>2 DEF Rising
  <2>3. CASE j \in 1..Len(line)
    BY <1>1, <1>4, <2>1, <2>3 DEF Rising
  <2> QED
    BY <1>1, <1>2, <2>2, <2>3
<1>5. Rising(longer, n + 1)
  BY <1>3, <1>4 DEF Rising
<1> QED
  BY <1>1, <1>5 DEF longer

\* Cutting a piece out of the line keeps it rising.
LEMMA RisingCut ==
  ASSUME NEW front \in Seq(Nat), NEW piece \in Seq(Nat), NEW back \in Seq(Nat), NEW n \in Nat,
         Rising((front \o piece) \o back, n)
  PROVE  Rising(front \o back, n)
<1> DEFINE whole == (front \o piece) \o back
           short == front \o back
           From(i) == IF i <= Len(front) THEN i ELSE i + Len(piece)
<1>1. /\ Len(front) \in Nat /\ Len(piece) \in Nat /\ Len(back) \in Nat
      /\ front \o piece \in Seq(Nat) /\ Len(front \o piece) = Len(front) + Len(piece)
      /\ Len(short) = Len(front) + Len(back)
  BY LenProperties, ConcatProperties
<1>2. Len(whole) = Len(front) + Len(piece) + Len(back)
  BY <1>1, ConcatProperties
<1>3. ASSUME NEW i \in 1..Len(short)
      PROVE  From(i) \in 1..Len(whole) /\ short[i] = whole[From(i)]
  <2>1. short[i] = IF i <= Len(front) THEN front[i] ELSE back[i - Len(front)]
    BY <1>1, ConcatProperties
  <2>2. From(i) \in 1..Len(front \o piece) + Len(back)
    BY <1>1
  <2>3. whole[From(i)] = IF From(i) <= Len(front \o piece) THEN (front \o piece)[From(i)]
                         ELSE back[From(i) - Len(front \o piece)]
    BY <1>1, <2>2, ConcatProperties
  <2>4. CASE i <= Len(front)
    <3>1. (front \o piece)[i] = front[i]
      BY <1>1, <2>4, ConcatProperties
    <3> QED
      BY <1>1, <1>2, <2>1, <2>2, <2>3, <2>4, <3>1
  <2>5. CASE ~(i <= Len(front))
    BY <1>1, <1>2, <2>1, <2>2, <2>3, <2>5
  <2> QED
    BY <2>4, <2>5
<1> HIDE DEF whole, short
<1>4. \A i, j \in 1..Len(short) : i < j => From(i) < From(j)
  BY <1>1
<1> HIDE DEF From
<1>5. Rising(whole, n)
  BY DEF whole
<1>6. Rising(short, n)
  BY <1>3, <1>4, <1>5 DEF Rising
<1> QED
  BY <1>6 DEF short

\* A queue with its front in a hand is the queue.
LEMMA TakeFront ==
  ASSUME NEW q \in Seq(Nat), q # <<>>, NEW line \in Seq(Nat)
  PROVE  (line \o <<Head(q)>>) \o Tail(q) = line \o q
<1>1. Head(q) \in Nat /\ Tail(q) \in Seq(Nat) /\ <<Head(q)>> \in Seq(Nat)
  BY PopFacts
<1>2. <<Head(q)>> \o Tail(q) = q
  OBVIOUS
<1> QED
  BY SMTT(40), <1>1, <1>2, ConcatAssociative

LEMMA LineAssoc ==
  ASSUME NEW s \in Seq(Nat), NEW t \in Seq(Nat), NEW u \in Seq(Nat)
  PROVE  (s \o t) \o u = s \o (t \o u)
  BY SMTT(40), ConcatAssociative

LEMMA AppendConcat ==
  ASSUME NEW q \in Seq(Nat), NEW x \in Nat
  PROVE  Append(q, x) = q \o <<x>> /\ <<x>> \in Seq(Nat)
  OBVIOUS

\* Pushing at the back of a queue is pushing at the back of the line that ends with it.
LEMMA PushBack ==
  ASSUME NEW line \in Seq(Nat), NEW q \in Seq(Nat), NEW x \in Nat
  PROVE  line \o Append(q, x) = (line \o q) \o <<x>>
         /\ Append(line \o q, x) = line \o Append(q, x)
<1>1. line \o q \in Seq(Nat)
  BY ConcatProperties
<1>2. Append(q, x) = q \o <<x>> /\ <<x>> \in Seq(Nat)
  BY AppendConcat
<1>3. Append(line \o q, x) = (line \o q) \o <<x>>
  BY <1>1, AppendConcat
<1>4. (line \o q) \o <<x>> = line \o (q \o <<x>>)
  BY <1>2, LineAssoc
<1> QED
  BY <1>2, <1>3, <1>4

LEMMA LineInit == Init => LineInv
<1> SUFFICES ASSUME Init PROVE LineInv
  OBVIOUS
<1>1. Line = <<>> /\ accepted + Uncounted = 0
  BY DEF Init, Line, One, Uncounted, Threads
<1> QED
  BY <1>1 DEF LineInv, Rising, Init

\* The pieces of the line, and the line between the hands.
LEMMA LinePieces ==
  ASSUME TypeInv
  PROVE  /\ kv \in Seq(Nat) /\ preQ \in Seq(Nat) /\ encQ \in Seq(Nat)
         /\ One(pkt) \in Seq(Nat) /\ One(hand) \in Seq(Nat)
         /\ kv \o One(pkt) \in Seq(Nat)
         /\ (kv \o One(pkt)) \o preQ \in Seq(Nat)
         /\ ((kv \o One(pkt)) \o preQ) \o One(hand) \in Seq(Nat)
         /\ Line \in Seq(Nat)
<1>1. Frames \subseteq Nat
  BY BoundAssumption DEF Frames
<1>2. kv \in Seq(Nat) /\ preQ \in Seq(Nat) /\ encQ \in Seq(Nat)
  BY <1>1, SeqMonotonic DEF TypeInv, TypeOK, QueuesOK
<1>3. One(pkt) \in Seq(Nat) /\ One(hand) \in Seq(Nat)
  BY <1>1 DEF TypeInv, TypeOK, RequestsOK, One
<1>4. kv \o One(pkt) \in Seq(Nat)
  BY <1>2, <1>3, ConcatProperties
<1>5. (kv \o One(pkt)) \o preQ \in Seq(Nat)
  BY <1>2, <1>4, ConcatProperties
<1>6. ((kv \o One(pkt)) \o preQ) \o One(hand) \in Seq(Nat)
  BY <1>3, <1>5, ConcatProperties
<1> QED
  BY <1>2, <1>3, <1>4, <1>5, <1>6, ConcatProperties DEF Line

\* What one step does to the line while the pipeline lives: nothing, a push or a cut.
LEMMA LineMoves ==
  ASSUME TypeInv, TypeInv', [Next]_vars, Alive'
  PROVE  \/ Line' = Line /\ accepted' + Uncounted' = accepted + Uncounted
         \/ /\ Line' = Append(Line, accepted + Uncounted + 1)
            /\ accepted' + Uncounted' = accepted + Uncounted + 1
         \/ LlmBreak
<1> DEFINE A == kv \o One(pkt)
           B == A \o preQ
           C == B \o One(hand)
<1>a. Alive
  BY AliveSince
<1>b. /\ Running \/ (pc["enc"] = "off" /\ pc["llm"] = "off" /\ pc["sub"] = "idle")
      /\ pc["enc"] = "send" <=> hand # 0
      /\ pc["llm"] = "prefill" <=> pkt # 0
      /\ accepted \in Nat /\ DOMAIN pc = Threads
      /\ 0 \notin Frames /\ Frames \subseteq Nat
      /\ pc["sub"] \in {"idle", "put", "count"}
      /\ hand \in Frames \cup {0} /\ pkt \in Frames \cup {0}
  BY <1>a, BoundAssumption
  DEF TypeInv, LocalOK, TypeOK, CountersOK, PcOK, RequestsOK, Alive, Running, Frames
<1>c. /\ kv \in Seq(Nat) /\ preQ \in Seq(Nat) /\ encQ \in Seq(Nat)
      /\ A \in Seq(Nat) /\ B \in Seq(Nat) /\ C \in Seq(Nat)
  BY LinePieces
<1>d. Line = C \o encQ
  BY DEF Line
<1>e. One(0) = <<>> /\ \A x \in Frames : One(x) = <<x>>
  BY <1>b DEF One
<1> HIDE DEF A, B, C
<1> USE <1>b DEF Threads, Enter, At, Goto
<1>1. CASE PrefillPush
  <2>1. Running
    BY <1>1 DEF PrefillPush
  <2>2. /\ encQ' = Append(encQ, accepted + 1) /\ accepted' = accepted
        /\ pc["sub"] = "put" /\ pc' = [pc EXCEPT !["sub"] = "count"]
        /\ UNCHANGED <<kv, preQ, hand, pkt>>
    BY <1>1, <2>1 DEF PrefillPush, cache, local, client
  <2>5. Uncounted = 0 /\ Uncounted' = 1 /\ UNCHANGED C
    BY <2>2 DEF Uncounted, A, B, C
  <2>6. accepted + 1 \in Nat
    OBVIOUS
  <2>3. C \o Append(encQ, accepted + 1) = Append(C \o encQ, accepted + 1)
    BY SMTT(40), <2>6, <1>c, PushBack, Zenon
  <2>4. Line' = C \o encQ'
    BY <2>2, <2>5 DEF Line, A, B, C
  <2> QED
    BY <1>d, <2>2, <2>3, <2>4, <2>5
<1>2. CASE PrefillCount
  BY <1>2 DEF PrefillCount, Uncounted, cache, local, Line
<1>3. CASE EncTake
  <2>1. Running
    BY <1>3 DEF EncTake
  <2>2. /\ encQ # <<>> /\ encQ' = Tail(encQ) /\ hand' = Head(encQ) /\ hand = 0
        /\ UNCHANGED <<B, accepted, Uncounted>>
    BY <1>3, <2>1 DEF EncTake, Ready, Uncounted, cache, client, A, B
  <2>3. hand' \in Frames
    BY <2>2, PopFacts DEF TypeInv, TypeOK, QueuesOK
  <2>4. Line' = (B \o <<Head(encQ)>>) \o Tail(encQ)
    BY <2>2, <2>3, <1>e DEF Line, A, B
  <2>5. Line = (B \o <<>>) \o encQ
    BY <2>2, <1>d, <1>e DEF C
  <2> QED
    BY <2>2, <2>4, <2>5, <1>c, TakeFront, ConcatEmptySeq
<1>4. CASE EncSend
  <2>1. Running
    BY <1>4 DEF EncSend
  <2>2. /\ preQ' = Append(preQ, hand) /\ hand' = 0 /\ hand \in Frames
        /\ UNCHANGED <<A, encQ, accepted, Uncounted>>
    BY <1>4, <2>1 DEF EncSend, Uncounted, cache, client, A
  <2>3. Line' = ((A \o Append(preQ, hand)) \o <<>>) \o encQ
    BY <2>2, <1>e DEF Line, A
  <2>4. Line = ((A \o preQ) \o <<hand>>) \o encQ
    BY <2>2, <1>d, <1>e DEF B, C
  <2>7. hand \in Nat
    BY <2>2
  <2>5. A \o Append(preQ, hand) = (A \o preQ) \o <<hand>>
    BY SMTT(40), <2>7, <1>c, PushBack, Zenon
  <2>6. A \o Append(preQ, hand) \in Seq(Nat)
    BY <2>5, <2>2, <1>c, <1>e DEF B, C
  <2> QED
    BY <2>2, <2>3, <2>4, <2>5, <2>6, ConcatEmptySeq
<1>5. CASE LlmTakePacket
  <2>1. Running
    BY <1>5 DEF LlmTakePacket
  <2>2. CASE broke
    BY <1>5, <2>1, <2>2 DEF LlmTakePacket, Uncounted, cache, client, Line
  <2>3. CASE ~broke
    <3>1. /\ preQ # <<>> /\ preQ' = Tail(preQ) /\ pkt' = Head(preQ) /\ pkt = 0
          /\ UNCHANGED <<kv, hand, encQ, accepted, Uncounted>>
      BY <1>5, <2>1, <2>3 DEF LlmTakePacket, Ready, PacketsLeft, Uncounted, cache, client
    <3>2. pkt' \in Frames
      BY <3>1, PopFacts DEF TypeInv, TypeOK, QueuesOK
    <3>3. Line' = (((kv \o <<Head(preQ)>>) \o Tail(preQ)) \o One(hand)) \o encQ
      BY <3>1, <3>2, <1>e DEF Line
    <3>4. Line = (((kv \o <<>>) \o preQ) \o One(hand)) \o encQ
      BY <3>1, <1>e DEF Line
    <3>5. (kv \o <<Head(preQ)>>) \o Tail(preQ) = (kv \o <<>>) \o preQ
      BY <3>1, <1>c, TakeFront, ConcatEmptySeq
    <3> QED
      BY <3>1, <3>3, <3>4, <3>5
  <2> QED
    BY <2>2, <2>3
<1>6. CASE LlmPrefill
  <2>1. /\ kv' = Append(kv, pkt) /\ pkt' = 0 /\ pkt \in Frames
        /\ UNCHANGED <<preQ, hand, encQ, accepted, Uncounted>>
    BY <1>6 DEF LlmPrefill, Uncounted, client
  <2>2. kv' = kv \o <<pkt>>
    BY <2>1, <1>c, AppendConcat
  <2>3. kv' \in Seq(Nat)
    BY <2>2, <2>1, <1>c, <1>e DEF A
  <2>4. kv' \o <<>> = kv \o <<pkt>>
    BY <2>2, <2>3, ConcatEmptySeq
  <2> QED
    BY <2>1, <2>4, <1>e DEF Line
<1>7. CASE CallPrefill \/ CallDecode \/ SkipDecode \/ DecodePost \/ DecodeReturn
  BY <1>7 DEF CallPrefill, CallDecode, EnterDecode, SkipDecode, DecodePost, DecodeReturn,
     queues, local, sched, cache, client, Line, Uncounted
<1>8. CASE LlmStop \/ LlmTakeRequest \/ LlmRoute \/ LlmCheckBreak \/ LlmDecode \/ LlmAnswer
  BY <1>8 DEF LlmStop, LlmTakeRequest, LlmRoute, LlmCheckBreak, LlmDecode, LlmAnswer,
     queues, local, cache, client, Line, Uncounted
<1>9. CASE Start \/ StopBegin \/ RaiseBreak \/ ClearBreak
  BY <1>9 DEF Start, StopBegin, SignalStop, RaiseBreak, ClearBreak, queues, local, sched,
     cache, client, Line, Uncounted
<1>10. CASE StopEnd
  BY <1>10, <1>a DEF StopEnd, Alive
<1>11. CASE (\E t \in Threads : Block(t) \/ FallAsleep(t)) \/ UNCHANGED vars
  BY <1>11 DEF Block, FallAsleep, vars, queues, local, sched, cache, client, Line, Uncounted
<1> QED
  BY <1>1, <1>2, <1>3, <1>4, <1>5, <1>6, <1>7, <1>8, <1>9, <1>10, <1>11
  DEF Next, SubStep, EncStep, LlmStep, DecStep, Control

LEMMA LineStep == TypeInv /\ TypeInv' /\ LineInv /\ [Next]_vars => LineInv'
<1> SUFFICES ASSUME TypeInv, TypeInv', LineInv, [Next]_vars, Alive' PROVE LineInv'
  BY DEF LineInv
<1> DEFINE n == accepted + Uncounted
<1>a. Alive
  BY AliveSince
<1>b. /\ broke => breaks # 0
      /\ Rising(Line, n)
      /\ breaks = 0 => Len(Line) = n
  BY <1>a DEF LineInv
<1>c. n \in Nat /\ breaks \in Nat /\ Line \in Seq(Nat) /\ Len(Line) \in Nat
  BY LinePieces, BoundAssumption DEF TypeInv, TypeOK, CountersOK, Uncounted
<1>1. (broke' => breaks' # 0) /\ (breaks' = 0 => breaks = 0)
  BY <1>b, <1>c DEF Next, SubStep, EncStep, LlmStep, DecStep, Control,
         vars, queues, CallPrefill, PrefillPush, PrefillCount, CallDecode, EnterDecode,
         SkipDecode, DecodePost, DecodeReturn, EncTake, EncSend, LlmStop, LlmBreak,
         LlmTakeRequest, LlmRoute, LlmTakePacket, LlmPrefill, LlmCheckBreak, LlmDecode,
         LlmAnswer, Start, StopBegin, SignalStop, StopEnd, RaiseBreak, ClearBreak, Block,
         FallAsleep
<1>2. CASE Line' = Line /\ accepted' + Uncounted' = n
  BY <1>1, <1>2, <1>b DEF LineInv
<1>3. CASE Line' = Append(Line, n + 1) /\ accepted' + Uncounted' = n + 1
  <2>1. Rising(Append(Line, n + 1), n + 1) /\ Len(Append(Line, n + 1)) = Len(Line) + 1
    BY <1>b, <1>c, RisingPush
  <2> QED
    BY <1>1, <1>3, <1>b, <2>1 DEF LineInv
<1>4. CASE LlmBreak
  <2> DEFINE front == kv \o One(pkt)
             back  == One(hand) \o encQ
  <2>1. /\ front \in Seq(Nat) /\ preQ \in Seq(Nat) /\ back \in Seq(Nat)
        /\ One(hand) \in Seq(Nat) /\ encQ \in Seq(Nat) /\ front \o preQ \in Seq(Nat)
    BY LinePieces, ConcatProperties
  <2>2. /\ broke /\ preQ' = <<>> /\ accepted' + Uncounted' = n /\ breaks' = breaks
        /\ UNCHANGED <<kv, pkt, hand, encQ>>
    BY <1>4 DEF LlmBreak, cache, local, client, Uncounted
  <2>3. Line = (front \o preQ) \o back
    BY <2>1, LineAssoc DEF Line
  <2>4. Line' = front \o back
    <3>1. Line' = ((front \o <<>>) \o One(hand)) \o encQ
      BY <2>2 DEF Line
    <3>2. front \o <<>> = front
      BY <2>1, ConcatEmptySeq
    <3>4. front \in Seq(Nat) /\ One(hand) \in Seq(Nat) /\ encQ \in Seq(Nat)
      BY <2>1
    <3> HIDE DEF front
    <3>3. (front \o One(hand)) \o encQ = front \o (One(hand) \o encQ)
      BY <3>4, LineAssoc
    <3> QED
      BY <3>1, <3>2, <3>3, Zenon
  <2>5. Rising(front \o back, n)
    <3> HIDE DEF front, back
    <3> QED
      BY <2>1, <2>3, <1>b, <1>c, RisingCut
  <2> QED
    BY <1>1, <1>b, <2>2, <2>4, <2>5 DEF LineInv
<1> QED
  BY <1>2, <1>3, <1>4, LineMoves

\* Frames reach the KV cache in submission order, none twice, and without breaks none is
\* lost, for every capacity of the queues and however often a break empties one of them.
THEOREM FramesKeepOrder == Spec => []FramesInOrder
<1>1. LineInv => FramesInOrder
  BY DEF LineInv, Rising, FramesInOrder, Alive, Running
<1> QED
  BY <1>1, TypeInit, TypeStep, LineInit, LineStep, PTL DEF Spec

-----------------------------------------------------------------------------
(***************************************************************************)
(* The strict 1:1 pairing of prefills and decodes, proved for every         *)
(* capacity and number of frames, until a decode is skipped (force_listen)  *)
(* or break_event is raised: the two cases that end it.                     *)
(***************************************************************************)

(***************************************************************************)
(* The frames in the pipeline are consecutive: Popped were taken by the LLM *)
(* thread, then come the prefill queue, the encoder's frame and the encoder *)
(* queue, up to the last frame pushed.                                      *)
(***************************************************************************)
Popped  == Len(kv) + Len(One(pkt))
Encoded == Popped + Len(preQ)
Started == Encoded + Len(One(hand))

Consecutive(q, n) == \A i \in 1..Len(q) : q[i] = n + i

OrderInv ==
    Alive =>
        /\ Consecutive(preQ, Popped)
        /\ hand # 0 => hand = Encoded + 1
        /\ Consecutive(encQ, Started)
        /\ Started + Len(encQ) = accepted + Uncounted

\* The KV cache holds the frames 1, 2, ... and each decode saw its own frame last.
CacheInv ==
    /\ Consecutive(kv, 0)
    /\ \A r \in Frames : seen[r] # -1 => seen[r] = r /\ r <= Len(kv)

\* Where the LLM thread is in its loop, against the length of the KV cache.
LlmInv ==
    /\ ~broke /\ skips = 0
    /\ pc["llm"] = "route" => inFlight > 0
    /\ pc["llm"] \in {"route", "phase1", "prefill"} => cur = Len(kv) + 1
    /\ pc["llm"] \in {"phase2", "decode", "answer"} => cur = Len(kv)
    /\ pc["llm"] = "phase0" => cur = 0
    /\ pc["llm"] # "reject"
    /\ pkt # 0 => pkt = Len(kv) + 1

\* The decode in progress is posted, taken or answered; between decodes the KV cache
\* holds exactly the frames of the rounds handled.
RoundInv ==
    Alive =>
        /\ pending # 0 => cur = 0
        /\ pc["dec"] # "await" => pending = 0 /\ cur = 0 /\ Len(kv) = handled
        /\ pc["dec"] = "await" =>
            \/ pending = handled + 1 /\ Len(kv) = handled /\ ~Answered(handled + 1)
            \/ cur = handled + 1 /\ pending = 0 /\ ~Answered(handled + 1)
            \/ pending = 0 /\ cur = 0 /\ Len(kv) = handled + 1

PairInv == OrderInv /\ CacheInv /\ LlmInv /\ RoundInv

AllInv == TypeInv /\ FlightInv /\ PairInv

\* The invariant of the whole pipeline: the pairing holds as long as it is undisturbed.
CleanInv == TypeInv /\ FlightInv /\ (Undisturbed => PairInv)

LEMMA ConsecutivePush ==
  ASSUME NEW S, NEW q \in Seq(S), NEW n \in Nat, NEW x \in S,
         Consecutive(q, n), x = n + Len(q) + 1
  PROVE  Consecutive(Append(q, x), n)
<1> DEFINE r == Append(q, x)
<1>1. /\ Len(r) = Len(q) + 1 /\ r[Len(q) + 1] = x /\ Len(q) \in Nat
      /\ \A i \in 1..Len(q) : r[i] = q[i]
  BY AppendFacts
<1> HIDE DEF r
<1>2. \A i \in 1..Len(r) : r[i] = n + i
  <2> TAKE i \in 1..Len(r)
  <2>1. CASE i = Len(q) + 1   BY <1>1, <2>1
  <2>2. CASE i \in 1..Len(q)  BY <1>1, <2>2 DEF Consecutive
  <2> QED
    BY <1>1, <2>1, <2>2
<1>3. Consecutive(r, n)
  BY <1>2 DEF Consecutive
<1> QED
  BY <1>3 DEF r

LEMMA ConsecutivePop ==
  ASSUME NEW S, NEW q \in Seq(S), NEW n \in Nat, Consecutive(q, n), q # <<>>
  PROVE  Head(q) = n + 1 /\ Consecutive(Tail(q), n + 1)
<1> DEFINE t == Tail(q)
<1>1. /\ Head(q) = q[1] /\ Len(q) \in Nat /\ Len(q) >= 1
      /\ Len(t) = Len(q) - 1
      /\ \A i \in 1..(Len(q) - 1) : t[i] = q[i + 1]
  BY PopFacts
<1> HIDE DEF t
<1>2. \A i \in 1..Len(t) : t[i] = n + 1 + i
  BY <1>1 DEF Consecutive
<1>3. Consecutive(t, n + 1)
  BY <1>2 DEF Consecutive
<1>4. Head(q) = n + 1
  BY <1>1 DEF Consecutive
<1> QED
  BY <1>3, <1>4 DEF t

LEMMA PairInit == Init => PairInv
<1> SUFFICES ASSUME Init PROVE PairInv
  OBVIOUS
<1> USE OneFacts DEF Init
<1>1. OrderInv   BY DEF OrderInv, Consecutive, Started, Encoded, Popped, Uncounted, Threads
<1>2. CacheInv   BY DEF CacheInv, Consecutive
<1>3. LlmInv     BY DEF LlmInv, Threads
<1>4. RoundInv   BY DEF RoundInv, Threads
<1> QED
  BY <1>1, <1>2, <1>3, <1>4 DEF PairInv

\* The pipeline is never alive again after a stop.
LEMMA AliveBefore == [Next]_vars /\ Alive' => Alive
  BY DEF Next, Alive, Running, SubStep, EncStep, LlmStep, DecStep, Control, vars, queues,
         CallPrefill, PrefillPush, PrefillCount, CallDecode, EnterDecode, SkipDecode,
         DecodePost,
         DecodeReturn, EncTake, EncSend, LlmStop, LlmBreak, LlmTakeRequest, LlmRoute,
         LlmTakePacket, LlmPrefill, LlmCheckBreak, LlmDecode, LlmAnswer, Start,
         StopBegin, SignalStop, StopEnd, RaiseBreak, ClearBreak, Block, FallAsleep

\* Breaks and skipped decodes are counted and never forgotten.
LEMMA UndisturbedBefore ==
  ASSUME TypeInv, [Next]_vars
  PROVE  /\ Undisturbed' => Undisturbed
         /\ Undisturbed' => ~SkipDecode /\ ~RaiseBreak
<1>1. breaks \in Nat /\ skips \in Nat
  BY BoundAssumption DEF TypeInv, TypeOK, CountersOK
<1>2. CASE SkipDecode
  BY <1>1, <1>2 DEF SkipDecode, Undisturbed
<1>3. CASE RaiseBreak
  BY <1>1, <1>3 DEF RaiseBreak, Undisturbed
<1>4. CASE ~SkipDecode /\ ~RaiseBreak
  <2>1. breaks' = breaks /\ skips' = skips
    BY <1>4 DEF Next, SubStep, EncStep, LlmStep, DecStep, Control, vars, client,
         CallPrefill, PrefillPush, PrefillCount, CallDecode, EnterDecode, DecodePost,
         DecodeReturn, EncTake, EncSend, LlmStop, LlmBreak, LlmTakeRequest, LlmRoute,
         LlmTakePacket, LlmPrefill, LlmCheckBreak, LlmDecode, LlmAnswer, Start, StopBegin,
         SignalStop, StopEnd, ClearBreak, Block, FallAsleep
  <2> QED
    BY <1>4, <2>1 DEF Undisturbed
<1> QED
  BY <1>2, <1>3, <1>4

\* What the type invariant gives every step below.
LEMMA Basics ==
  ASSUME TypeInv
  PROVE  /\ encQ \in Seq(Frames) /\ preQ \in Seq(Frames) /\ kv \in Seq(Frames)
         /\ Len(encQ) \in Nat /\ Len(preQ) \in Nat /\ Len(kv) \in Nat
         /\ Len(One(hand)) \in Nat /\ Len(One(pkt)) \in Nat
         /\ accepted \in Nat /\ handled \in Nat /\ inFlight \in Int
         /\ hand \in Frames \cup {0} /\ pkt \in Frames \cup {0}
         /\ pending \in Frames \cup {0} /\ cur \in Frames \cup {0}
         /\ Frames \subseteq Nat /\ 0 \notin Frames
         /\ pc["enc"] = "send" <=> hand # 0
         /\ pc["llm"] = "prefill" <=> pkt # 0
         /\ (Alive => Running \/ (pc["enc"] = "off" /\ pc["llm"] = "off"
                                  /\ pc["sub"] = "idle" /\ accepted = 0 /\ handled = 0
                                  /\ pc["dec"] = "idle"))
         /\ PcOK /\ LocalOK
<1>1. /\ encQ \in Seq(Frames) /\ preQ \in Seq(Frames) /\ kv \in Seq(Frames)
      /\ Len(encQ) \in Nat /\ Len(preQ) \in Nat /\ Len(kv) \in Nat
  BY DEF TypeInv, TypeOK, QueuesOK
<1>2. Len(One(hand)) \in Nat /\ Len(One(pkt)) \in Nat
  BY OneFacts
<1>3. accepted \in Nat /\ handled \in Nat /\ inFlight \in Int /\ handled <= accepted
  BY BoundAssumption DEF TypeInv, TypeOK, CountersOK
<1>4. /\ hand \in Frames \cup {0} /\ pkt \in Frames \cup {0}
      /\ pending \in Frames \cup {0} /\ cur \in Frames \cup {0}
  BY DEF TypeInv, TypeOK, RequestsOK
<1>5. Frames \subseteq Nat /\ 0 \notin Frames
  BY BoundAssumption DEF Frames
<1>6. PcOK /\ LocalOK
  BY DEF TypeInv, TypeOK
<1>7. Alive => Running \/ life = "none"
  BY DEF Alive, Running
<1> QED
  BY <1>1, <1>2, <1>3, <1>4, <1>5, <1>6, <1>7 DEF LocalOK, PcOK

-----------------------------------------------------------------------------
(***************************************************************************)
(* Each part of the invariant is preserved.                                 *)
(***************************************************************************)
LEMMA CacheStep ==
  ASSUME AllInv, [Next]_vars
  PROVE  CacheInv'
<1> USE Basics DEF AllInv, PairInv
<1>1. CASE LlmPrefill
  <2>1. /\ pkt = Len(kv) + 1 /\ kv' = Append(kv, pkt) /\ seen' = seen
    BY <1>1 DEF LlmPrefill, LlmInv, At
  <2>2. Len(kv') = Len(kv) + 1
    BY <2>1, AppendFacts
  <2>3. Consecutive(kv', 0)
    <3>1. pkt \in Frames /\ pkt = 0 + Len(kv) + 1 /\ Consecutive(kv, 0)
      BY <2>1 DEF CacheInv
    <3> QED
      BY <2>1, <3>1, ConsecutivePush
  <2> QED
    BY SMTT(40), <2>1, <2>2, <2>3 DEF CacheInv
<1>2. CASE LlmDecode
  <2>1. cur = Len(kv) /\ kv' = kv /\ seen' = [seen EXCEPT ![cur] = Len(kv)]
    BY <1>2 DEF LlmDecode, LlmInv, At
  <2>2. seen \in [Frames -> Int]
    BY DEF TypeInv, TypeOK, RequestsOK
  <2> QED
    BY <2>1, <2>2 DEF CacheInv
<1>3. CASE UNCHANGED <<kv, seen>>
  BY <1>3 DEF CacheInv
<1>4. LlmPrefill \/ LlmDecode \/ UNCHANGED <<kv, seen>>
  BY DEF Next, SubStep, EncStep, LlmStep, DecStep, Control, vars, cache,
         CallPrefill, PrefillPush, PrefillCount, CallDecode, EnterDecode, SkipDecode,
         DecodePost,
         DecodeReturn, EncTake, EncSend, LlmStop, LlmBreak, LlmTakeRequest, LlmRoute,
         LlmTakePacket, LlmCheckBreak, LlmAnswer, Start, StopBegin, SignalStop, StopEnd,
         RaiseBreak, ClearBreak, Block, FallAsleep
<1> QED
  BY <1>1, <1>2, <1>3, <1>4

LEMMA OrderStep ==
  ASSUME AllInv, [Next]_vars
  PROVE  OrderInv'
<1> SUFFICES ASSUME Alive' PROVE OrderInv'
  BY DEF OrderInv
<1>a. Alive
  BY AliveBefore
<1>b. /\ Consecutive(preQ, Popped)
      /\ hand # 0 => hand = Encoded + 1
      /\ Consecutive(encQ, Started)
      /\ Started + Len(encQ) = accepted + Uncounted
  BY <1>a DEF AllInv, PairInv, OrderInv
<1>c. Running \/ (pc["enc"] = "off" /\ pc["llm"] = "off" /\ pc["sub"] = "idle")
  BY <1>a, Basics DEF AllInv
<1>d. /\ Popped \in Nat /\ Encoded \in Nat /\ Started \in Nat /\ Uncounted \in Nat
      /\ Popped = Len(kv) + Len(One(pkt))
      /\ Encoded = Popped + Len(preQ)
      /\ Started = Encoded + Len(One(hand))
  BY Basics DEF AllInv, Popped, Encoded, Started, Uncounted
<1>e. /\ Popped' = Len(kv') + Len(One(pkt'))
      /\ Encoded' = Popped' + Len(preQ')
      /\ Started' = Encoded' + Len(One(hand'))
  BY DEF Popped, Encoded, Started
<1>t. /\ encQ \in Seq(Frames) /\ preQ \in Seq(Frames) /\ kv \in Seq(Frames)
      /\ Len(encQ) \in Nat /\ Len(preQ) \in Nat /\ Len(kv) \in Nat
      /\ Len(One(hand)) \in Nat /\ Len(One(pkt)) \in Nat /\ accepted \in Nat
      /\ hand \in Frames \cup {0} /\ pkt \in Frames \cup {0}
  BY Basics DEF AllInv
<1>p. /\ pc["enc"] = "send" <=> hand # 0
      /\ pc["llm"] = "prefill" <=> pkt # 0
      /\ DOMAIN pc = Threads
  BY Basics DEF AllInv, PcOK
<1>h. hand # 0 => Len(One(hand)) = 1
  BY OneFacts
<1> USE <1>b, <1>d, <1>t, <1>p DEF Enter, At, Goto
<1>1. CASE PrefillPush
  <2>1. Running /\ pc["sub"] = "put" /\ pc' = [pc EXCEPT !["sub"] = "count"]
    BY <1>1, <1>c DEF PrefillPush
  <2>2. /\ encQ' = Append(encQ, accepted + 1)
        /\ UNCHANGED <<preQ, hand, pkt, kv, accepted>>
    BY <1>1, <2>1 DEF PrefillPush, cache, local, client
  <2>3. Uncounted = 0 /\ Uncounted' = 1
    BY <2>1 DEF Uncounted, Threads
  <2>4. UNCHANGED <<Popped, Encoded, Started>>
    BY <2>2, <1>e
  <2>5. accepted = Started + Len(encQ)
    BY <2>3
  <2>6. Consecutive(encQ', Started) /\ Len(encQ') = Len(encQ) + 1
    <3>1. accepted + 1 \in Frames
      BY <2>1, BoundAssumption DEF AllInv, LocalOK, Frames, TypeInv, TypeOK, CountersOK
    <3>2. accepted + 1 = Started + Len(encQ) + 1
      BY <2>5
    <3>3. Consecutive(Append(encQ, accepted + 1), Started)
      BY <3>1, <3>2, ConsecutivePush
    <3>4. Len(Append(encQ, accepted + 1)) = Len(encQ) + 1
      BY <3>1, AppendFacts
    <3> QED
      BY <2>2, <3>3, <3>4
  <2> QED
    BY <2>2, <2>3, <2>4, <2>5, <2>6 DEF OrderInv
<1>2. CASE PrefillCount
  <2>1. /\ pc["sub"] = "count" /\ pc' = [pc EXCEPT !["sub"] = "idle"]
        /\ accepted' = accepted + 1
        /\ UNCHANGED <<encQ, preQ, hand, pkt, kv>>
    BY <1>2 DEF PrefillCount, cache, local
  <2>2. Uncounted = 1 /\ Uncounted' = 0
    BY <2>1 DEF Uncounted, Threads
  <2>3. UNCHANGED <<Popped, Encoded, Started>>
    BY <2>1, <1>e
  <2> QED
    BY <2>1, <2>2, <2>3 DEF OrderInv
<1>3. CASE EncTake
  <2>1. Running /\ pc["enc"] = "take" /\ pc'["sub"] = pc["sub"]
    BY <1>3, <1>c DEF EncTake, Threads
  <2>2. /\ encQ # <<>> /\ encQ' = Tail(encQ) /\ hand' = Head(encQ)
        /\ UNCHANGED <<preQ, pkt, kv, accepted>>
    BY <1>3, <2>1 DEF EncTake, Ready, cache, client
  <2>3. hand = 0 /\ hand' = Started + 1 /\ Consecutive(encQ', Started + 1)
    BY <2>1, <2>2, ConsecutivePop
  <2>4. Len(encQ') = Len(encQ) - 1
    BY <2>2, PopFacts
  <2>5. Popped' = Popped /\ Encoded' = Encoded /\ Started = Encoded
    BY SMTT(40), <2>2, <2>3, <1>e, OneFacts
  <2>6. Started' = Started + 1
    <3>1. hand' # 0
      BY <2>3
    <3>2. Len(One(hand')) = 1
      BY <3>1, OneFacts
    <3> QED
      BY <2>5, <3>2, <1>e
  <2>7. Uncounted' = Uncounted
    BY <2>1 DEF Uncounted
  <2>8. Consecutive(preQ, Popped)' /\ Consecutive(encQ, Started)'
    BY <2>2, <2>3, <2>5, <2>6
  <2>9. hand' = Encoded' + 1
    BY <2>3, <2>5
  <2>10. Started' + Len(encQ') = accepted' + Uncounted'
    <3>1. accepted' = accepted
      BY <2>2
    <3>2. Started' + Len(encQ') = Started + Len(encQ)
      BY <2>4, <2>6
    <3> QED
      BY <2>7, <3>1, <3>2
  <2> QED
    BY <2>8, <2>9, <2>10 DEF OrderInv
<1>4. CASE EncSend
  <2>1. Running /\ pc["enc"] = "send" /\ pc'["sub"] = pc["sub"]
    BY <1>4, <1>c DEF EncSend, Threads
  <2>2. /\ preQ' = Append(preQ, hand) /\ hand' = 0
        /\ UNCHANGED <<encQ, pkt, kv, accepted>>
    BY <1>4, <2>1 DEF EncSend, cache, client
  <2>3. hand # 0 /\ hand = Popped + Len(preQ) + 1
    BY <2>1
  <2>4. Len(preQ') = Len(preQ) + 1 /\ Consecutive(preQ', Popped)
    <3>1. hand \in Frames
      BY <2>3
    <3> QED
      BY SMTT(40), <2>2, <2>3, <3>1, AppendFacts, ConsecutivePush
  <2>5. Popped' = Popped
    BY <2>2, <1>e
  <2>6. Started' = Started
    <3>1. Len(One(hand')) = 0 /\ Len(One(hand)) = 1
      BY <2>2, <2>3, OneFacts
    <3> QED
      BY SMTT(40), <2>4, <2>5, <3>1, <1>e
  <2>7. Uncounted' = Uncounted
    BY <2>1 DEF Uncounted
  <2> QED
    BY <2>2, <2>4, <2>5, <2>6, <2>7 DEF OrderInv
<1>5. CASE LlmTakePacket
  <2>1. Running /\ pc["llm"] = "phase1" /\ pc'["sub"] = pc["sub"] /\ ~broke
    BY <1>5, <1>c DEF LlmTakePacket, Threads, AllInv, PairInv, LlmInv
  <2>2. /\ preQ # <<>> /\ preQ' = Tail(preQ) /\ pkt' = Head(preQ)
        /\ UNCHANGED <<encQ, hand, kv, accepted>>
    BY <1>5, <2>1 DEF LlmTakePacket, Ready, PacketsLeft, cache, client
  <2>3. pkt = 0 /\ pkt' = Popped + 1 /\ Consecutive(preQ', Popped + 1)
    <3>1. Head(preQ) = Popped + 1 /\ Consecutive(Tail(preQ), Popped + 1)
      BY <2>2, ConsecutivePop
    <3>2. pkt = 0
      BY <2>1
    <3> QED
      BY <2>2, <3>1, <3>2
  <2>4. Len(preQ') = Len(preQ) - 1
    BY <2>2, PopFacts
  <2>5. Popped' = Popped + 1
    <3>1. pkt' # 0
      BY <2>3
    <3>2. Len(One(pkt)) = 0 /\ Len(One(pkt')) = 1
      BY <2>3, <3>1, OneFacts
    <3>3. Len(kv') = Len(kv)
      BY <2>2
    <3> QED
      BY <3>2, <3>3, <1>e
  <2>6. Encoded' = Encoded /\ Started' = Started
    <3>1. Encoded' = Encoded
      <4>1. Encoded' = Popped + 1 + (Len(preQ) - 1)
        BY <2>4, <2>5, <1>e
      <4> QED
        BY <4>1
    <3>2. Len(One(hand')) = Len(One(hand))
      BY <2>2
    <3> QED
      BY <3>1, <3>2, <1>e
  <2>7. Uncounted' = Uncounted
    BY <2>1 DEF Uncounted
  <2> QED
    BY <2>2, <2>3, <2>5, <2>6, <2>7 DEF OrderInv
<1>6. CASE LlmPrefill
  <2>1. /\ pc["llm"] = "prefill" /\ pc'["sub"] = pc["sub"]
        /\ kv' = Append(kv, pkt) /\ pkt' = 0
        /\ UNCHANGED <<encQ, preQ, hand, accepted>>
    BY <1>6 DEF LlmPrefill, Threads, client
  <2>2. pkt \in Frames /\ pkt # 0
    BY <2>1
  <2>3. Len(kv') = Len(kv) + 1
    BY <2>1, <2>2, AppendFacts
  <2>4. Popped' = Popped
    <3>1. Len(One(pkt)) = 1 /\ Len(One(pkt')) = 0
      BY <2>1, <2>2, OneFacts
    <3> QED
      BY <2>3, <3>1, <1>e
  <2>5. Encoded' = Encoded /\ Started' = Started
    BY <2>1, <2>4, <1>e
  <2>6. Uncounted' = Uncounted
    BY <2>1 DEF Uncounted
  <2> QED
    BY <2>1, <2>4, <2>5, <2>6 DEF OrderInv
<1>7. CASE LlmBreak
  BY <1>7 DEF LlmBreak, AllInv, PairInv, LlmInv
<1>8. CASE StopEnd
  BY <1>8, <1>a DEF StopEnd, Alive
<1>9. CASE UNCHANGED <<kv, encQ, preQ, hand, pkt, accepted, Uncounted>>
  BY <1>9 DEF OrderInv, Popped, Encoded, Started
<1>10. CASE CallPrefill \/ CallDecode \/ SkipDecode \/ DecodePost \/ DecodeReturn
  BY <1>9, <1>10 DEF CallPrefill, CallDecode, EnterDecode, SkipDecode, DecodePost,
     DecodeReturn, cache,
         queues, local, client, sched, Uncounted, Threads
<1>11. CASE LlmStop \/ LlmTakeRequest \/ LlmRoute \/ LlmCheckBreak \/ LlmDecode \/ LlmAnswer
  BY <1>9, <1>11 DEF LlmStop, LlmTakeRequest, LlmRoute, LlmCheckBreak, LlmDecode, LlmAnswer,
         cache, queues, local, client, Uncounted, Threads
<1>12. CASE Start \/ StopBegin \/ RaiseBreak \/ ClearBreak
  BY <1>9, <1>12 DEF Start, StopBegin, SignalStop, RaiseBreak, ClearBreak,
         cache, queues, local, client, sched, Uncounted, Threads
<1>13. CASE (\E t \in Threads : Block(t) \/ FallAsleep(t)) \/ UNCHANGED vars
  BY <1>9, <1>13 DEF Block, FallAsleep, vars, cache, queues, local, client, sched, Uncounted
<1> QED
  BY <1>1, <1>2, <1>3, <1>4, <1>5, <1>6, <1>7, <1>8, <1>10, <1>11, <1>12, <1>13
  DEF Next, SubStep, EncStep, LlmStep, DecStep, Control

LEMMA LlmStepInv ==
  ASSUME AllInv, [Next]_vars, Undisturbed'
  PROVE  LlmInv'
<1>a. ~broke /\ skips = 0 /\ breaks = 0 /\ ~SkipDecode /\ ~RaiseBreak
  BY UndisturbedBefore DEF AllInv, PairInv, LlmInv, Undisturbed
<1>b. /\ pc["llm"] = "route" => inFlight > 0
      /\ pc["llm"] \in {"route", "phase1", "prefill"} => cur = Len(kv) + 1
      /\ pc["llm"] \in {"phase2", "decode", "answer"} => cur = Len(kv)
      /\ pc["llm"] = "phase0" => cur = 0
      /\ pc["llm"] # "reject"
      /\ pkt # 0 => pkt = Len(kv) + 1
  BY DEF AllInv, PairInv, LlmInv
<1>t. /\ Len(kv) \in Nat /\ inFlight \in Int /\ kv \in Seq(Frames) /\ preQ \in Seq(Frames)
      /\ pkt \in Frames \cup {0}
      /\ pc["llm"] = "prefill" <=> pkt # 0
      /\ PcOK /\ LocalOK
      /\ Alive => Running \/ pc["llm"] = "off"
  BY Basics DEF AllInv
<1> USE <1>a, <1>b, <1>t DEF Enter, At, Goto, PcOK, Threads
<1>1. CASE LlmTakeRequest
  <2>1. /\ Running /\ pending # 0 /\ pc["llm"] = "phase0" /\ pkt = 0
        /\ UNCHANGED <<inFlight, kv, pkt, broke, skips>> /\ cur' = pending
        /\ pc' = [pc EXCEPT !["llm"] = "route"]
    BY <1>1 DEF LlmTakeRequest, Ready, cache, client
  <2>2. Alive
    BY <2>1 DEF Alive, Running
  <2>3. pending = handled + 1 /\ Len(kv) = handled /\ handled < accepted
    BY <2>1, <2>2 DEF AllInv, PairInv, RoundInv, LocalOK
  <2>4. inFlight > 0
    <3>1. inFlight + Uncounted = Len(encQ) + Len(preQ) + Len(One(hand)) + Len(One(pkt))
      BY <2>2 DEF AllInv, FlightInv
    <3>2. Len(kv) + Len(One(pkt)) + Len(preQ) + Len(One(hand)) + Len(encQ)
            = accepted + Uncounted
      BY <2>2 DEF AllInv, PairInv, OrderInv, Started, Encoded, Popped
    <3>3. /\ Uncounted \in Nat /\ accepted \in Nat /\ handled \in Nat
          /\ Len(encQ) \in Nat /\ Len(preQ) \in Nat
          /\ Len(One(hand)) \in Nat /\ Len(One(pkt)) \in Nat
      BY Basics DEF AllInv, Uncounted
    <3>4. Len(kv) < accepted
      BY <2>3
    <3> HIDE <2>3
    <3> QED
      BY <3>1, <3>2, <3>3, <3>4
  <2> QED
    BY <2>1, <2>3, <2>4 DEF LlmInv
<1>2. CASE LlmRoute
  BY <1>2 DEF LlmRoute, Expecting, queues, cache, local, client, LlmInv
<1>3. CASE LlmTakePacket
  <2>1. CASE ~Running
    BY <1>3, <2>1 DEF LlmTakePacket, cache, client, LlmInv
  <2>2. CASE Running
    <3>1. /\ preQ # <<>> /\ pkt' = Head(preQ) /\ pc["llm"] = "phase1"
          /\ UNCHANGED <<inFlight, kv, broke, skips, cur>>
          /\ pc' = [pc EXCEPT !["llm"] = "prefill"]
      BY <1>3, <2>2 DEF LlmTakePacket, Ready, cache, client
    <3>2. Consecutive(preQ, Popped)
      BY <2>2 DEF AllInv, PairInv, OrderInv, Alive, Running
    <3>3. Popped = Len(kv)
      BY <3>1, OneFacts DEF Popped
    <3>4. pkt' = Len(kv) + 1
      BY <3>1, <3>2, <3>3, ConsecutivePop
    <3> QED
      BY <3>1, <3>4 DEF LlmInv
  <2> QED
    BY <2>1, <2>2
<1>4. CASE LlmPrefill
  <2>1. /\ pc["llm"] = "prefill" /\ kv' = Append(kv, pkt) /\ pkt' = 0
        /\ UNCHANGED <<broke, skips, cur>>
        /\ pc' = [pc EXCEPT !["llm"] = "phase2"]
    BY <1>4 DEF LlmPrefill, client
  <2>2. Len(kv') = Len(kv) + 1
    BY <2>1, AppendFacts
  <2> QED
    BY <2>1, <2>2 DEF LlmInv
<1>5. CASE LlmStop \/ LlmCheckBreak \/ LlmDecode \/ LlmAnswer
  BY <1>5 DEF LlmStop, LlmCheckBreak, LlmDecode, LlmAnswer, queues, cache, local, client, LlmInv
<1>6. CASE PrefillCount
  BY <1>6 DEF PrefillCount, cache, local, LlmInv
<1>7. CASE CallPrefill \/ CallDecode \/ PrefillPush \/ DecStep \/ EncStep
  BY <1>7 DEF CallPrefill, CallDecode, EnterDecode, PrefillPush, DecStep, DecodePost,
     DecodeReturn,
         EncStep, EncTake, EncSend, queues, cache, local, client, LlmInv
<1>8. CASE SkipDecode \/ LlmBreak \/ RaiseBreak \/ ClearBreak
  BY <1>8 DEF LlmBreak, ClearBreak
<1>9. CASE Start
  <2>1. /\ life = "none" /\ UNCHANGED <<broke, skips, cur, pkt, kv>>
        /\ pc' = [pc EXCEPT !["enc"] = "take", !["llm"] = "phase0"]
    BY <1>9 DEF Start, cache, local, client
  <2>2. Alive /\ ~Running
    BY <2>1 DEF Alive, Running
  <2>3. pc["llm"] = "off" /\ pc["dec"] = "idle" /\ pkt = 0
    BY <2>2, Basics DEF AllInv
  <2>4. cur = 0
    BY <2>2, <2>3 DEF AllInv, PairInv, RoundInv
  <2>5. ~broke /\ skips = 0
    BY DEF AllInv, PairInv, LlmInv
  <2>6. pc'["llm"] = "phase0"
    BY <2>1, Basics DEF AllInv, PcOK, Threads
  <2> QED
    BY <2>1, <2>3, <2>4, <2>5, <2>6 DEF LlmInv
<1>10. CASE StopBegin \/ StopEnd
  BY <1>10 DEF StopBegin, SignalStop, StopEnd, queues, cache, local, client, LlmInv
<1>11. CASE (\E t \in Threads : Block(t) \/ FallAsleep(t)) \/ UNCHANGED vars
  BY <1>11 DEF Block, FallAsleep, vars, queues, cache, local, client, sched, LlmInv
<1> QED
  BY <1>1, <1>2, <1>3, <1>4, <1>5, <1>6, <1>7, <1>8, <1>9, <1>10, <1>11
  DEF Next, SubStep, LlmStep, Control

LEMMA RoundStep ==
  ASSUME AllInv, [Next]_vars, Undisturbed'
  PROVE  RoundInv'
<1> SUFFICES ASSUME Alive' PROVE RoundInv'
  BY DEF RoundInv
<1>a. Alive
  BY AliveBefore
<1>b. /\ pending # 0 => cur = 0
      /\ pc["dec"] # "await" => pending = 0 /\ cur = 0 /\ Len(kv) = handled
      /\ pc["dec"] = "await" =>
            \/ pending = handled + 1 /\ Len(kv) = handled /\ ~Answered(handled + 1)
            \/ cur = handled + 1 /\ pending = 0 /\ ~Answered(handled + 1)
            \/ pending = 0 /\ cur = 0 /\ Len(kv) = handled + 1
  BY <1>a DEF AllInv, PairInv, RoundInv
<1>c. Running \/ (pc["llm"] = "off" /\ pc["dec"] = "idle" /\ accepted = 0 /\ handled = 0)
  BY <1>a, Basics DEF AllInv
<1>d. ~broke /\ skips = 0 /\ breaks = 0 /\ ~SkipDecode /\ ~RaiseBreak
  BY UndisturbedBefore DEF AllInv, PairInv, LlmInv, Undisturbed
<1>e. pc["dec"] \in {"post", "await"} => handled + 1 \in Frames
  <2>1. handled \in Nat /\ accepted \in Nat /\ accepted <= MaxFrames
    BY Basics, BoundAssumption DEF AllInv, TypeInv, TypeOK, CountersOK
  <2>2. pc["dec"] \in {"post", "await"} => handled < accepted
    BY DEF AllInv, TypeInv, LocalOK
  <2> QED
    BY <2>1, <2>2, BoundAssumption DEF Frames
<1>t. /\ Len(kv) \in Nat /\ handled \in Nat /\ kv \in Seq(Frames)
      /\ req \in [Frames -> {"none", "open", "ok", "failed"}]
      /\ pc["dec"] \in {"post", "await"} => handled + 1 \in Frames
      /\ pc["llm"] \in {"route", "phase1", "prefill", "phase2", "decode",
                         "answer", "reject"} => cur # 0
      /\ DOMAIN pc = Threads
  BY <1>e, Basics DEF AllInv, TypeInv, TypeOK, RequestsOK, LocalOK, PcOK
<1> USE <1>b, <1>d, <1>t DEF Enter, At, Goto, Threads
<1>1. CASE CallDecode
  <2>1. UNCHANGED <<pending, cur, kv, req, handled>> /\ pc["dec"] # "await"
        /\ pc'["dec"] # "await"
    BY <1>1, <1>a DEF CallDecode, EnterDecode, queues, local, cache, Alive
  <2> QED
    BY <2>1 DEF RoundInv
<1>2. CASE DecodePost
  <2>1. /\ Running /\ pc["dec"] = "post" /\ pc'["dec"] = "await"
        /\ pending' = handled + 1 /\ handled' = handled
        /\ req' = [req EXCEPT ![handled + 1] = "open"]
        /\ UNCHANGED <<cur, kv>>
    BY <1>2, <1>c DEF DecodePost, local, cache
  <2>2. req'[handled + 1] = "open"
    BY <2>1
  <2>3. ~Answered(handled + 1)'
    BY <2>1, <2>2 DEF Answered
  <2> QED
    BY <2>1, <2>3 DEF RoundInv
<1>3. CASE DecodeReturn
  <2>1. /\ pc["dec"] = "await" /\ pc'["dec"] = "idle" /\ handled' = handled + 1
        /\ Answered(handled + 1)
        /\ UNCHANGED <<pending, cur, kv>>
    BY <1>3, <1>c DEF DecodeReturn, Ready, queues, local, cache
  <2> QED
    BY <2>1 DEF RoundInv
<1>4. CASE LlmTakeRequest
  <2>1. /\ pending # 0 /\ cur' = pending /\ pending' = 0
        /\ pc'["dec"] = pc["dec"]
        /\ UNCHANGED <<req, kv, handled>>
    BY <1>4 DEF LlmTakeRequest, ClearPending, Ready, cache, client
  <2>2. Answered(handled + 1)' <=> Answered(handled + 1)
    BY <2>1 DEF Answered
  <2> QED
    BY <2>1, <2>2 DEF RoundInv
<1>5. CASE LlmPrefill
  <2>1. /\ cur # 0 /\ pc'["dec"] = pc["dec"]
        /\ UNCHANGED <<req, cur, pending, handled>>
    BY <1>5 DEF LlmPrefill, client
  <2>2. Answered(handled + 1)' <=> Answered(handled + 1)
    BY <2>1 DEF Answered
  <2> QED
    BY <2>1, <2>2 DEF RoundInv
<1>6. CASE LlmAnswer
  <2>1. /\ cur # 0 /\ pc["llm"] \in {"answer", "reject"} /\ cur' = 0
        /\ pc'["dec"] = pc["dec"]
        /\ UNCHANGED <<kv, pending, handled>>
    BY <1>6 DEF LlmAnswer, cache, client
  <2>2. cur = Len(kv)
    BY <2>1 DEF AllInv, PairInv, LlmInv
  <2> QED
    BY <2>1, <2>2 DEF RoundInv
<1>7. CASE StopEnd
  BY <1>7, <1>a DEF StopEnd, Alive
<1>8. CASE SkipDecode \/ LlmBreak \/ RaiseBreak \/ ClearBreak
  BY <1>8 DEF LlmBreak, ClearBreak
<1>9. CASE /\ UNCHANGED <<pending, cur, kv, req, handled>>
           /\ pc'["dec"] = pc["dec"]
  BY <1>9 DEF RoundInv, Answered
<1>10. CASE CallPrefill \/ PrefillPush \/ PrefillCount \/ EncTake \/ EncSend
  BY <1>9, <1>10 DEF CallPrefill, PrefillPush, PrefillCount, EncTake, EncSend,
                    queues, cache, local, client
<1>11. CASE LlmStop \/ LlmRoute \/ LlmTakePacket \/ LlmCheckBreak \/ LlmDecode
  BY <1>9, <1>11 DEF LlmStop, LlmRoute, LlmTakePacket, LlmCheckBreak, LlmDecode,
                    queues, cache, local, client
<1>12. CASE Start \/ StopBegin
  BY <1>9, <1>12 DEF Start, StopBegin, SignalStop, queues, cache, local, client
<1>13. CASE (\E t \in Threads : Block(t) \/ FallAsleep(t)) \/ UNCHANGED vars
  BY <1>9, <1>13 DEF Block, FallAsleep, vars, queues, cache, local, client, sched
<1> QED
  BY <1>1, <1>2, <1>3, <1>4, <1>5, <1>6, <1>7, <1>8, <1>10, <1>11, <1>12, <1>13
  DEF Next, SubStep, EncStep, LlmStep, DecStep, Control

LEMMA CleanInit == Init => CleanInv
  BY TypeInit, FlightInit, PairInit DEF CleanInv

\* As long as the pipeline is undisturbed the pairing is inductive.
LEMMA AllStep ==
  ASSUME AllInv, [Next]_vars, Undisturbed'
  PROVE  AllInv'
<1>1. TypeInv' /\ FlightInv'
  BY TypeStep, FlightStep DEF AllInv
<1> QED
  BY <1>1, OrderStep, CacheStep, LlmStepInv, RoundStep DEF AllInv, PairInv

LEMMA CleanStep == CleanInv /\ [Next]_vars => CleanInv'
<1> SUFFICES ASSUME CleanInv, [Next]_vars PROVE CleanInv'
  OBVIOUS
<1>1. TypeInv' /\ FlightInv'
  BY TypeStep, FlightStep DEF CleanInv
<1>2. CASE Undisturbed'
  <2>1. AllInv
    BY <1>2, UndisturbedBefore DEF CleanInv, AllInv
  <2> QED
    BY <1>2, <2>1, AllStep DEF AllInv, CleanInv
<1>3. CASE ~Undisturbed'
  BY <1>1, <1>3 DEF CleanInv
<1> QED
  BY <1>2, <1>3

\* Strict 1:1 pairing: until a break or a skipped decode every round is decoded on
\* exactly its own frame and the ones before it, in order.
THEOREM StrictPairing == Spec => []DecodeSeesOwnFrame
<1>1. CleanInv => DecodeSeesOwnFrame
  <2> SUFFICES ASSUME CleanInv, Undisturbed, NEW r \in Frames, seen[r] # -1
               PROVE  seen[r] = r /\ \A i \in 1..r : kv[i] = i
    BY DEF DecodeSeesOwnFrame
  <2>1. seen[r] = r /\ r <= Len(kv) /\ Consecutive(kv, 0)
    BY DEF CleanInv, PairInv, CacheInv
  <2>2. Len(kv) \in Nat /\ r \in Nat
    BY Basics DEF CleanInv
  <2> QED
    BY <2>1, <2>2 DEF Consecutive
<1> QED
  BY <1>1, CleanInit, CleanStep, PTL DEF Spec

-----------------------------------------------------------------------------
(***************************************************************************)
(* The pipeline implements FrameTurns.  DecodeSeesOwnFrame says what a decode *)
(* saw; that no frame is written before the one before it was decoded needs *)
(* one more invariant: the only undecoded frame of the KV cache is the last, *)
(* while the LLM thread is between its prefill and its decode.              *)
(***************************************************************************)
Undecoded == pc["llm"] \in {"phase2", "decode"}

SeenInv ==
    /\ \A r \in Frames : r <= Len(kv) /\ seen[r] = -1 => r = Len(kv) /\ Undecoded
    /\ Undecoded => seen[cur] = -1

TurnInv == AllInv /\ SeenInv

LEMMA SeenInit == Init => SeenInv
  BY BoundAssumption DEF Init, SeenInv, Undecoded, Threads, Frames

\* Between two rounds the only steps that touch the KV cache or the decodes are the
\* KV write and the decode itself.
LEMMA CacheActions == [Next]_vars => LlmPrefill \/ LlmDecode \/ UNCHANGED <<kv, seen>>
  BY DEF Next, SubStep, EncStep, LlmStep, DecStep, Control, vars, cache,
         CallPrefill, PrefillPush, PrefillCount, CallDecode, EnterDecode, SkipDecode,
         DecodePost,
         DecodeReturn, EncTake, EncSend, LlmStop, LlmBreak, LlmTakeRequest, LlmRoute,
         LlmTakePacket, LlmCheckBreak, LlmAnswer, Start, StopBegin, SignalStop, StopEnd,
         RaiseBreak, ClearBreak, Block, FallAsleep

LEMMA SeenStep ==
  ASSUME TurnInv, AllInv', [Next]_vars
  PROVE  SeenInv'
<1>a. /\ Len(kv) \in Nat /\ Frames \subseteq Nat /\ DOMAIN pc = Threads
      /\ seen \in [Frames -> Int] /\ cur \in Frames \cup {0}
      /\ pc["llm"] \in {"phase2", "decode"} => cur # 0
  BY Basics DEF TurnInv, AllInv, TypeInv, TypeOK, RequestsOK, LocalOK, PcOK
<1>b. /\ ~broke
      /\ pc["llm"] = "route" => inFlight > 0
      /\ pc["llm"] \in {"phase2", "decode", "answer"} => cur = Len(kv)
      /\ pc["llm"] = "prefill" => cur = Len(kv) + 1 /\ pkt = Len(kv) + 1
      /\ \A r \in Frames : seen[r] # -1 => r <= Len(kv)
  BY Basics DEF TurnInv, AllInv, PairInv, LlmInv, CacheInv
<1>c. SeenInv
  BY DEF TurnInv
<1> USE <1>a, <1>b, <1>c DEF Enter, At, Goto, Threads
<1>1. CASE LlmPrefill
  <2>1. /\ pc["llm"] = "prefill" /\ kv' = Append(kv, pkt) /\ seen' = seen
        /\ cur' = cur /\ pc'["llm"] = "phase2"
    BY <1>1 DEF LlmPrefill, client
  <2>2. Len(kv') = Len(kv) + 1
    BY <2>1, AppendFacts, Basics DEF TurnInv, AllInv
  <2>3. cur = Len(kv) + 1 /\ cur \in Frames
    BY <2>1, Basics DEF TurnInv, AllInv, LocalOK
  <2>4. seen[cur] = -1
    BY <2>3
  <2> QED
    BY <2>1, <2>2, <2>3, <2>4 DEF SeenInv, Undecoded
<1>2. CASE LlmDecode
  <2>1. /\ pc["llm"] = "decode" /\ kv' = kv /\ pc'["llm"] = "answer"
        /\ seen' = [seen EXCEPT ![cur] = Len(kv)] /\ cur = Len(kv) /\ cur \in Frames
    BY <1>2 DEF LlmDecode
  <2> QED
    BY <2>1 DEF SeenInv, Undecoded
<1>3. CASE UNCHANGED <<kv, seen>> /\ Undecoded' /\ cur' = cur /\ Undecoded
  BY <1>3 DEF SeenInv
<1>4. CASE UNCHANGED <<kv, seen>> /\ ~Undecoded /\ ~Undecoded'
  BY <1>4 DEF SeenInv
<1>5. CASE LlmCheckBreak
  BY <1>3, <1>5 DEF LlmCheckBreak, cache, local, Undecoded
<1>6. CASE LlmStop \/ LlmBreak \/ LlmTakeRequest \/ LlmRoute \/ LlmTakePacket \/ LlmAnswer
  BY <1>4, <1>6 DEF LlmStop, LlmBreak, LlmTakeRequest, LlmRoute, LlmTakePacket,
         LlmAnswer, Expecting, cache, local, Undecoded
<1>7. CASE UNCHANGED <<kv, seen, cur>> /\ pc'["llm"] = pc["llm"]
  BY <1>7 DEF SeenInv, Undecoded
<1>8. CASE CallPrefill \/ CallDecode \/ SkipDecode \/ SubStep \/ EncStep \/ DecStep
  BY <1>7, <1>8 DEF SubStep, EncStep, DecStep, CallPrefill, PrefillPush, PrefillCount,
         CallDecode, EnterDecode, SkipDecode, DecodePost, DecodeReturn, EncTake, EncSend,
         cache, local, sched
<1>9. CASE Start
  <2>1. pc["llm"] = "off" /\ pc'["llm"] = "phase0" /\ UNCHANGED <<kv, seen>>
    BY <1>9 DEF Start, cache, TurnInv, AllInv, TypeInv, LocalOK
  <2> QED
    BY <1>4, <2>1 DEF Undecoded
<1>10. CASE StopBegin \/ StopEnd \/ RaiseBreak \/ ClearBreak
  BY <1>7, <1>10 DEF StopBegin, SignalStop, StopEnd, RaiseBreak, ClearBreak, cache, local, sched
<1>11. CASE (\E t \in Threads : Block(t) \/ FallAsleep(t)) \/ UNCHANGED vars
  BY <1>7, <1>11 DEF Block, FallAsleep, cache, local, sched, vars
<1> QED
  BY <1>1, <1>2, <1>5, <1>6, <1>8, <1>9, <1>10, <1>11 DEF Next, LlmStep, Control

LEMMA TurnStep ==
  ASSUME TurnInv, [Next]_vars
  PROVE  [Turns!Next]_<<kv, seen>>
<1>a. /\ Len(kv) \in Nat /\ MaxFrames \in Nat /\ Frames = 1..MaxFrames
      /\ kv \in Seq(Frames)
  BY Basics, BoundAssumption DEF TurnInv, AllInv, Frames
<1>1. CASE LlmPrefill
  <2>1. pc["llm"] = "prefill" /\ kv' = Append(kv, pkt) /\ seen' = seen
    BY <1>1 DEF LlmPrefill, At
  <2>2. pkt \in Frames /\ pkt = Len(kv) + 1
    BY <2>1, Basics DEF TurnInv, AllInv, PairInv, LlmInv
  <2>3. \A r \in 1..Len(kv) : seen[r] # -1
    BY <1>a, <2>1, <2>2 DEF TurnInv, SeenInv, Undecoded
  <2>4. Turns!WriteFrame
    BY <1>a, <2>1, <2>2, <2>3 DEF Turns!WriteFrame
  <2> QED
    BY <2>4 DEF Turns!Next
<1>2. CASE LlmDecode
  <2>1. /\ pc["llm"] = "decode" /\ kv' = kv /\ cur = Len(kv)
        /\ seen' = [seen EXCEPT ![cur] = Len(kv)]
    BY <1>2 DEF LlmDecode, At, TurnInv, AllInv, PairInv, LlmInv
  <2>2. cur # 0 /\ seen[cur] = -1
    BY <2>1 DEF TurnInv, AllInv, TypeInv, LocalOK, SeenInv, Undecoded
  <2>3. kv # <<>>
    BY <1>a, <2>1, <2>2
  <2>4. Turns!DecodeRound
    BY <2>1, <2>2, <2>3 DEF Turns!DecodeRound
  <2> QED
    BY <2>4 DEF Turns!Next
<1>3. CASE UNCHANGED <<kv, seen>>
  BY <1>3
<1> QED
  BY <1>1, <1>2, <1>3, CacheActions

TurnsInv == CleanInv /\ (Undisturbed => SeenInv)

LEMMA TurnsStep == TurnsInv /\ [Next]_vars => TurnsInv'
<1> SUFFICES ASSUME TurnsInv, [Next]_vars PROVE TurnsInv'
  OBVIOUS
<1>1. CleanInv'
  BY CleanStep DEF TurnsInv
<1>2. CASE Undisturbed'
  <2>1. TurnInv
    BY <1>2, UndisturbedBefore DEF TurnsInv, TurnInv, CleanInv, AllInv
  <2>2. AllInv'
    BY <1>2, <2>1, AllStep DEF TurnInv
  <2> QED
    BY <1>1, <2>1, <2>2, SeenStep DEF TurnsInv
<1>3. CASE ~Undisturbed'
  BY <1>1, <1>3 DEF TurnsInv
<1> QED
  BY <1>2, <1>3

\* Until a break or a skipped decode the pipeline implements FrameTurns: a frame is
\* written only when the frame before it has been decoded, for every queue capacity.
THEOREM ImplementsTurns == Spec => TurnTaking
<1>1. Init => TurnsInv
  BY CleanInit, SeenInit DEF TurnsInv
<1>2. Init => Turns!Init
  BY DEF Init, Turns!Init, Frames
<1>3. TurnsInv /\ [Next]_vars => [Undisturbed' => [Turns!Next]_<<kv, seen>>]_vars
  <2> SUFFICES ASSUME TurnsInv, [Next]_vars, Undisturbed'
               PROVE  [Turns!Next]_<<kv, seen>>
    OBVIOUS
  <2>1. TurnInv
    BY UndisturbedBefore DEF TurnsInv, TurnInv, CleanInv, AllInv
  <2> QED
    BY <2>1, TurnStep
<1> QED
  BY <1>1, TurnsStep, <1>2, <1>3, PTL DEF Spec, TurnTaking
=============================================================================
