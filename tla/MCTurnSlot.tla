----------------------------- MODULE MCTurnSlot -----------------------------
(* Model checking of TurnSlot; the values are in the .cfg files. *)
EXTENDS TurnSlot
=============================================================================
