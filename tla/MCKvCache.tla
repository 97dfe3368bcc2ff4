----------------------------- MODULE MCKvCache -----------------------------
(***************************************************************************)
(* Two sequences for TLC.                                                   *)
(***************************************************************************)
EXTENDS KvCache

MCSeqs   == {0, 1}
MCGroups == {{0}, {1}, {0, 1}}
MCSingle == {{0}, {1}}
MCDeltas == {-1, 1}
=============================================================================
