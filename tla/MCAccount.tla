----------------------------- MODULE MCAccount -----------------------------
(***************************************************************************)
(* Values for the constants of UserRecord, and records to begin with,      *)
(* shared by the instances for TLC.                                        *)
(***************************************************************************)
EXTENDS UserRecord

MCCost == [k \in Key |-> 20]
MCRank ==
    CHOOSE f \in [Key -> 1..Cardinality(Key)] : \A k, l \in Key : f[k] = f[l] => k = l
MCPoints == [e \in Entry |-> 2]

FirstKey == CHOOSE k \in Key : TRUE

\* One item that thirty leaves buy, and others that they do not.
MCPrices == [k \in Key |-> IF k = FirstKey THEN 20 ELSE 60]

\* An account with these leaves, stock[k] items of kind k in store, and the
\* first kind at these coordinates, by index.
AnAccount(leaves, stock, places) ==
    [l \in Leaf |->
        IF l = DisplayName THEN 0
        ELSE IF l \in {CurrentLeaves, AllTimeLeaves} THEN leaves
        ELSE IF l = OnLeaderboard THEN 1
        ELSE IF \E k \in Key : l = Inventory(k) /\ stock[k] > 0
        THEN stock[CHOOSE k \in Key : l = Inventory(k)]
        ELSE IF \E i \in DOMAIN places : l = ActiveItem(FirstKey, i)
        THEN places[CHOOSE i \in DOMAIN places : l = ActiveItem(FirstKey, i)]
        ELSE Absent]

Stock(n)   == [k \in Key |-> IF k = FirstKey THEN n ELSE 0]
At(i, c)   == [x \in {i} |-> c]
Nowhere    == [x \in {} |-> Absent]
=============================================================================
