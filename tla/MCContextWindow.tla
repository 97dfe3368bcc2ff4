--------------------------- MODULE MCContextWindow ---------------------------
(***************************************************************************)
(* The ways a session's context is kept short, each with bounds that make it *)
(* act: the forced slide alone, the unit window alone, the turn window alone. *)
(***************************************************************************)
EXTENDS ContextWindow

Rounds == [nCtx |-> 12, slideReserve |-> 5, forceReserve |-> 2, targetKeep |-> 3,
           window |-> "off", high |-> 0, low |-> 0, step |-> 2, chunk |-> 3,
           forceListen |-> 1, pieces |-> {1, 2}, bound |-> 20]

Turns == [nCtx |-> 40, slideReserve |-> 10, forceReserve |-> 2, targetKeep |-> 10,
          window |-> "turn", high |-> 6, low |-> 4, step |-> 2, chunk |-> 2,
          forceListen |-> 0, pieces |-> {1}, bound |-> 13]

Units == [Turns EXCEPT !.window = "basic", !.pieces = {1, 2}, !.bound = 11]

MCSetups == {Rounds, Turns, Units}
=============================================================================
