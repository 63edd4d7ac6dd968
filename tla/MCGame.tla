------------------------------- MODULE MCGame -------------------------------
(***************************************************************************)
(* Instances of Game for TLC.                                              *)
(***************************************************************************)
EXTENDS Game, MCAccount, TLC

CONSTANT c00

\* Leaves for one more item, and one in store.
MCOwner == {AnAccount(30, Stock(1), Nowhere)}

\* The same; an account with one item on the land; an account that nobody has
\* signed in to yet.
MCAnyOwner == MCOwner \cup {AnAccount(30, Stock(1), At(0, c00)), Nothing}

\* Nothing tells one coordinate from another.
MCSymmetry == Permutations(Coordinate)
=============================================================================
