------------------------------- MODULE MCLand -------------------------------
(***************************************************************************)
(* Instances of Land for TLC.                                              *)
(***************************************************************************)
EXTENDS Land, MCAccount, TLC

\* Two items of one kind, or one of each kind, to place.
MCTwoItems == {AnAccount(0, Stock(2), Nowhere), AnAccount(0, [k \in Key |-> 1], Nowhere)}

\* Nothing tells one coordinate from another.
MCSymmetry == Permutations(Coordinate)
=============================================================================
