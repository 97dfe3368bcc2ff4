------------------------- MODULE MCDuplexPipeline -------------------------
(***************************************************************************)
(* What a comment of the code says of the pipeline and TLC refutes.         *)
(***************************************************************************)
EXTENDS DuplexPipeline

\* duplex_decode waits "until llm_thread has finished this round's decode" and then
\* returns: a posted request comes back to its caller.
DecodeReturns == pc["dec"] = "await" ~> pc["dec"] = "idle"
=============================================================================
