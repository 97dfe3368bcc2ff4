----------------------------- MODULE FrameTurns -----------------------------
(***************************************************************************)
(* What the duplex pipeline promises (omni.cpp, "strict 1:1 prefill/decode"): *)
(* the KV cache and the decodes alternate.  Frame n is written when every   *)
(* earlier frame has been decoded, and round n is decoded right after it, on *)
(* exactly the frames 1..n.                                                 *)
(***************************************************************************)
EXTENDS Integers, Sequences

CONSTANT MaxFrames

VARIABLES kv,    \* the frames in the KV cache
          seen   \* seen[r]: how many frames round r was decoded on, -1 before

Init == kv = <<>> /\ seen = [r \in 1..MaxFrames |-> -1]

WriteFrame ==
    /\ Len(kv) < MaxFrames
    /\ \A r \in 1..Len(kv) : seen[r] # -1
    /\ kv' = Append(kv, Len(kv) + 1)
    /\ UNCHANGED seen

DecodeRound ==
    /\ kv # <<>>
    /\ seen[Len(kv)] = -1
    /\ seen' = [seen EXCEPT ![Len(kv)] = Len(kv)]
    /\ UNCHANGED kv

Next == WriteFrame \/ DecodeRound

Spec == Init /\ [][Next]_<<kv, seen>>
=============================================================================
