------------------------------ MODULE MCWallet ------------------------------
(***************************************************************************)
(* Instances of Wallet for TLC.  Thirty leaves buy one item of twenty.     *)
(***************************************************************************)
EXTENDS WalletBook, MCAccount

\* One object recycled, or one taken back.
MCQuantities == {-1, 1}

\* An account with an item on its land and none in store.
MCPlanter == {AnAccount(30, Stock(0), At(0, c)) : c \in Coordinate}

\* An account that owns one item and has another on its land.
MCSettler == {AnAccount(30, Stock(1), At(0, c)) : c \in Coordinate}

\* An account whose list on the land has lost its first entry.
MCHoled == {AnAccount(30, Stock(1), At(1, c)) : c \in Coordinate}

\* One of those, or an account nobody has signed in to before.
MCAnyone == MCSettler \cup MCHoled \cup {Nothing}
=============================================================================
