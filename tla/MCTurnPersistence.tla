------------------------- MODULE MCTurnPersistence --------------------------
(* Small instances of TurnPersistence; turns are interchangeable.           *)
EXTENDS TurnPersistence, TLC

TurnSymmetry == Permutations(Turns)

=============================================================================
