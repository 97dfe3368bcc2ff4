-------------------------- MODULE MCGgmlThreadpool --------------------------
(***************************************************************************)
(* A graph for TLC: a chunked node, one that is skipped, and a plain one.   *)
(***************************************************************************)
EXTENDS GgmlThreadpool

MCNodes == <<"chunked", "nop", "plain">>
=============================================================================
