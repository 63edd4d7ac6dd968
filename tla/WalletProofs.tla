---------------------------- MODULE WalletProofs ----------------------------
(***************************************************************************)
(* What holds in every state of WalletSpec, for any devices, items, forms, *)
(* bounds and openings: the invariant Inv is preserved by every step, and  *)
(* implies TypeOK, Solvent, InStock, AllTimeIsEarned and StockIsBought.    *)
(*                                                                         *)
(* The values that a leaf may have, wherever they are, are those of its    *)
(* type, and besides, of what is earned or bought, no more than there was: *)
(* a total that was read earlier was no larger than the ledger is now.     *)
(*                                                                         *)
(* Inv(alone) is the invariant of Wallet by itself (alone = TRUE) and, as  *)
(* far as the wallet goes, of the whole app (alone = FALSE), where the     *)
(* land gives items back to the inventory and the account is deleted.  The *)
(* lemmas about the steps of the wallet are for both readings; GameProofs  *)
(* cites them for the latter.                                              *)
(***************************************************************************)
EXTENDS Wallet, ClientProofs

\* Totals of leaves, and gains: not below zero if no quantity is.
Money == IF Quantity \subseteq Nat THEN Nat ELSE Int

\* The totals that purchases are deducted from: a cell that changes its item
\* between the check and the deduction takes the difference of two prices too much.
Purse ==
    IF Quantity \subseteq Nat
    THEN {v \in Int : v >= 0 \/ (Reuse /\ \E j, k \in Key : v >= Cost[j] - Cost[k])}
    ELSE Int

\* The values of the type of leaf l.
Good(l) ==
    IF l[1] = "activeItems" THEN Coordinate \cup {Absent}
    ELSE IF l[1] = "inventory" THEN (Nat \ {0}) \cup {Absent}
    ELSE IF l[1] = "currentLeaves" THEN Purse \cup {Absent}
    ELSE IF l[1] = "allTimeLeaves" THEN Money \cup {Absent}
    ELSE Int \cup {Absent}

\* What value v at leaf l must not exceed when the ledger is this book.
Backed(alone, book, l, v) ==
    /\ l = AllTimeLeaves /\ Quantity \subseteq Nat => v <= book.allTime
    /\ \A k \in Key : l = Inventory(k) /\ alone /\ ~Reuse => v <= book.goods[k]

\* The values leaf l may have.
Known(alone, book) ==
    [l \in Leaf |-> {v \in Good(l) : v = Absent \/ Backed(alone, book, l, v)}]

Book == [current : Int, allTime : Money, goods : [Key -> Nat],
         rewards : [Day -> Nat], redeemed : Int]

\* What blocks have captured, by the operation they belong to, and the leaves
\* that each has asked for: of the login screen, the wallet, the land and the
\* account's own screens, which all share the client.
Tag ==
    {NameAnswer, InventoryAnswer, ActiveAnswer}
    \cup [op : {"buyLeaves"}, n : 1..MaxOps, cell : Cell]
    \cup [op : {"buyItem"}, n : 1..MaxOps, cell : Cell, leaf : InventoryLeaves]
    \cup [op : {"claimDate"}, day : Day]
    \cup [op : {"rewardCurrent", "rewardAllTime"}, total : Nat]
    \cup [op : {"redeem"}, leaves : Money]
    \cup [op : {"placeActive"}, key : Key, at : Coordinate]
    \cup [op : {"placeInventory"}, key : Key]
    \cup [op : {"removeActive"}, key : Key \cup {Absent}, at : Coordinate]
    \cup [op : {"removeInventory"}, key : Key \cup {Absent}]
    \cup [op : {"dashboard", "settings"}]

Asked(t) ==
    CASE t.op = "displayName"   -> {DisplayName}
      [] t.op = "inventory"     -> InventoryLeaves
      [] t.op = "activeItems"   -> ActiveLeaves
      [] t.op = "buyLeaves"     -> {CurrentLeaves}
      [] t.op = "buyItem"       -> {t.leaf}
      [] t.op = "claimDate"     -> {LastVisitedDate}
      [] t.op = "rewardCurrent" -> {CurrentLeaves}
      [] t.op = "rewardAllTime" -> {AllTimeLeaves}
      [] t.op = "placeActive"   -> ActiveList(t.key)
      [] t.op = "placeInventory" -> {Inventory(t.key)}
      [] t.op = "removeActive"  -> IF t.key = Absent THEN ActiveLeaves ELSE ActiveList(t.key)
      [] t.op = "removeInventory" ->
             IF t.key = Absent THEN InventoryLeaves ELSE {Inventory(t.key)}
      [] t.op \in {"redeem", "dashboard", "settings"} -> Leaf

\* A purchase asks for the count of the item its cell shows, and, if cells keep
\* their items, it still shows that item when the count comes.
OnShelf(d, t) == t.op = "buyItem" /\ ~Reuse => t.leaf = Inventory(shelf[d][t.cell])

Blocks == [d \in Device |-> [t \in {u \in Tag : OnShelf(d, u)} |-> Asked(t)]]

\* An item taken back from a coordinate that belongs to no item has no key.
KeyShown(alone) == IF alone THEN Key ELSE Key \cup {Absent}

WalletInv ==
    /\ today \in Day
    /\ started \in [Device -> 0..MaxOps]
    /\ shelf \in [Device -> [Cell -> Key]]
    /\ readLeaves \in [Device -> [1..MaxOps -> Int \cup {Absent}]]
    /\ ledger \in Book

Inv(alone) ==
    /\ DatabaseInv(Known(alone, ledger), Blocks)
    /\ SessionInv(KeyShown(alone))
    /\ WalletInv

-----------------------------------------------------------------------------
(* Leaves and their values.                                                *)

LEMMA GoodIsValue ==
    ASSUME NEW l
    PROVE  Good(l) \subseteq Value /\ Absent \in Good(l)
BY DEF Good, Value, Money, Purse

\* What is good at a leaf has the type the casts expect.
LEMMA GoodIsTyped ==
    ASSUME NEW l \in Leaf
    PROVE  Good(l) \subseteq ValueAt(l) \cup {Absent}
BY DEF Good, ValueAt, Money, Purse

\* The kinds of leaves the app writes.
LEMMA GoodLeaves ==
    /\ Good(CurrentLeaves) = Purse \cup {Absent}
    /\ Good(AllTimeLeaves) = Money \cup {Absent}
    /\ \A l \in Profile \ {CurrentLeaves, AllTimeLeaves} : Good(l) = Int \cup {Absent}
    /\ \A k : Good(Inventory(k)) = (Nat \ {0}) \cup {Absent}
    /\ \A k, i : Good(ActiveItem(k, i)) = Coordinate \cup {Absent}
    /\ \A d, n, e : Good(History(d, n, e)) = Int \cup {Absent}
BY DEF Good, Profile, CurrentLeaves, AllTimeLeaves, LastVisitedDate, DisplayName,
       OnLeaderboard, Avatar, Notifications, Inventory, ActiveItem, History

\* The leaves are pairwise different.
LEMMA LeavesApart ==
    /\ {DisplayName, LastVisitedDate, OnLeaderboard, Avatar, Notifications} \cap
          {CurrentLeaves, AllTimeLeaves} = {}
    /\ {DisplayName, LastVisitedDate, OnLeaderboard, Avatar, Notifications} \subseteq Profile
    /\ CurrentLeaves # AllTimeLeaves
    /\ \A k : Inventory(k) \notin Profile
    /\ \A k, j : Inventory(k) = Inventory(j) => k = j
    /\ \A k, j, i : ActiveItem(k, i) # Inventory(j) /\ ActiveItem(k, i) \notin Profile
    /\ \A k, d, n, e : History(d, n, e) # Inventory(k) /\ History(d, n, e) \notin Profile
BY DEF Profile, CurrentLeaves, AllTimeLeaves, LastVisitedDate, DisplayName,
       OnLeaderboard, Avatar, Notifications, Inventory, ActiveItem, History

LEMMA MoneyIsInt == Money \subseteq Int /\ Nat \subseteq Money
BY DEF Money

\* Adding to a total, and what a purchase leaves of it.
LEMMA MoneyAdds ==
    ASSUME NEW a \in Money, NEW b \in Money
    PROVE  a + b \in Money
BY DEF Money

LEMMA PurseIsInt == Purse \subseteq Int /\ Money \subseteq Purse
BY DEF Money, Purse

LEMMA PurseAdds ==
    ASSUME NEW a \in Purse, NEW b \in Money
    PROVE  a + b \in Purse
<1>1. CASE ~(Quantity \subseteq Nat)
      BY <1>1 DEF Money, Purse
<1>2. CASE Quantity \subseteq Nat
  <2>1. a \in Int /\ b \in Nat
        BY <1>2 DEF Money, Purse
  <2>2. \/ a >= 0
        \/ Reuse /\ \E j, k \in Key : a >= Cost[j] - Cost[k]
        BY <1>2 DEF Purse
  <2>3. CASE a >= 0
        BY <1>2, <2>1, <2>3 DEF Purse
  <2>4. CASE Reuse /\ \E j, k \in Key : a >= Cost[j] - Cost[k]
    <3>1. PICK j \in Key, k \in Key : a >= Cost[j] - Cost[k]
          BY <2>4
    <3>2. Cost[j] \in Nat /\ Cost[k] \in Nat
          BY SchemaAssumption
    <3>3. a + b >= Cost[j] - Cost[k]
          BY <2>1, <3>1, <3>2
    <3>4. QED
          BY <1>2, <2>1, <2>4, <3>3 DEF Purse
  <2>5. QED
        BY <2>2, <2>3, <2>4
<1>3. QED
      BY <1>1, <1>2

\* The price of one item is checked and that of another is deducted.
LEMMA PurseSpent ==
    ASSUME NEW a \in Purse \cup {Absent}, NEW j \in Key, NEW k \in Key,
           Affords(a, Cost[j]), Reuse \/ k = j
    PROVE  a - Cost[k] \in Purse
<1>1. a \in Int /\ Cost[j] \in Nat /\ Cost[k] \in Nat /\ a >= Cost[j]
  <2>1. Cost[j] \in Nat /\ Cost[k] \in Nat
        BY SchemaAssumption
  <2>2. a # Absent /\ a - Cost[j] >= 0
        BY DEF Affords
  <2>3. QED
        BY <2>1, <2>2, PurseIsInt
<1>2. a - Cost[k] \in Int /\ a - Cost[k] >= Cost[j] - Cost[k]
      BY <1>1
<1>3. CASE Reuse
      BY <1>2, <1>3 DEF Purse
<1>4. CASE ~Reuse
  <2>1. a - Cost[k] >= 0
        BY <1>1, <1>4
  <2>2. QED
        BY <1>2, <2>1 DEF Purse
<1>5. QED
      BY <1>3, <1>4

\* The ledger with another entry.
LEMMA BookFields ==
    ASSUME NEW b \in Book
    PROVE  /\ b.current \in Int /\ b.allTime \in Money /\ b.goods \in [Key -> Nat]
           /\ b.rewards \in [Day -> Nat] /\ b.redeemed \in Int
BY DEF Book

LEMMA BookUpdates ==
    ASSUME NEW b \in Book
    PROVE  /\ \A x \in Int : [b EXCEPT !.current = x] \in Book
           /\ \A x \in Money : [b EXCEPT !.allTime = x] \in Book
           /\ \A k \in Key, x \in Nat : [b EXCEPT !.goods[k] = x] \in Book
           /\ \A t \in Day, x \in Nat : [b EXCEPT !.rewards[t] = x] \in Book
<1>1. \A x \in Int : [b EXCEPT !.current = x] \in Book
      BY DEF Book
<1>2. \A x \in Money : [b EXCEPT !.allTime = x] \in Book
      BY DEF Book
<1>3. ASSUME NEW k \in Key, NEW x \in Nat
      PROVE  [b EXCEPT !.goods[k] = x] \in Book
  <2>1. [b.goods EXCEPT ![k] = x] \in [Key -> Nat]
        BY BookFields
  <2>2. QED
        BY <2>1 DEF Book
<1>4. ASSUME NEW t \in Day, NEW x \in Nat
      PROVE  [b EXCEPT !.rewards[t] = x] \in Book
  <2>1. [b.rewards EXCEPT ![t] = x] \in [Day -> Nat]
        BY BookFields
  <2>2. QED
        BY <2>1 DEF Book
<1>5. QED
      BY <1>1, <1>2, <1>3, <1>4

-----------------------------------------------------------------------------
(* What is known of the leaves, and what blocks ask.                       *)

\* The values that may be at each leaf.
LEMMA KnownLeaves ==
    ASSUME NEW alone, NEW book
    PROVE  /\ Known(alone, book)[CurrentLeaves] = Purse \cup {Absent}
           /\ \A v : v \in Known(alone, book)[AllTimeLeaves] <=>
                \/ v = Absent
                \/ v \in Money /\ (Quantity \subseteq Nat => v <= book.allTime)
           /\ \A l \in Profile \ {CurrentLeaves, AllTimeLeaves} :
                Known(alone, book)[l] = Int \cup {Absent}
           /\ \A k \in Key : \A v : v \in Known(alone, book)[Inventory(k)] <=>
                \/ v = Absent
                \/ v \in Nat \ {0} /\ (alone /\ ~Reuse => v <= book.goods[k])
           /\ \A l \in ActiveLeaves : Known(alone, book)[l] = Coordinate \cup {Absent}
           /\ \A l \in HistoryLeaves : Known(alone, book)[l] = Int \cup {Absent}
<1> DEFINE K == Known(alone, book)
<1>1. \A l \in Leaf : K[l] = {v \in Good(l) : v = Absent \/ Backed(alone, book, l, v)}
      BY DEF Known
<1>2. CurrentLeaves \in Leaf /\ AllTimeLeaves \in Leaf
      BY LeavesAreLeaves
<1>3. K[CurrentLeaves] = Purse \cup {Absent}
      BY <1>1, <1>2, GoodLeaves, LeavesApart DEF Backed, Profile
<1>4. ASSUME NEW v
      PROVE  v \in K[AllTimeLeaves] <=>
                \/ v = Absent
                \/ v \in Money /\ (Quantity \subseteq Nat => v <= book.allTime)
      BY <1>1, <1>2, GoodLeaves, LeavesApart DEF Backed, Profile
<1>5. ASSUME NEW l \in Profile \ {CurrentLeaves, AllTimeLeaves}
      PROVE  K[l] = Int \cup {Absent}
      BY <1>1, LeavesAreLeaves, GoodLeaves, LeavesApart DEF Backed
<1>6. ASSUME NEW k \in Key, NEW v
      PROVE  v \in K[Inventory(k)] <=>
                \/ v = Absent
                \/ v \in Nat \ {0} /\ (alone /\ ~Reuse => v <= book.goods[k])
  <2>1. Inventory(k) \in Leaf
        BY LeavesAreLeaves
  <2>2. Inventory(k) # AllTimeLeaves
        BY LeavesApart DEF Profile
  <2>3. Backed(alone, book, Inventory(k), v) <=> (alone /\ ~Reuse => v <= book.goods[k])
        BY <2>2, LeavesApart DEF Backed
  <2>4. QED
        BY <1>1, <2>1, <2>3, GoodLeaves
<1>7. ASSUME NEW l \in ActiveLeaves
      PROVE  K[l] = Coordinate \cup {Absent}
  <2>1. PICK k \in Key, i \in 0..MaxIndex : l = ActiveItem(k, i)
        BY DEF ActiveLeaves, ActiveList
  <2>2. l # AllTimeLeaves /\ \A j : l # Inventory(j)
        BY <2>1, LeavesApart DEF Profile
  <2>3. QED
        BY <1>1, <2>1, <2>2, LeavesAreLeaves, GoodLeaves DEF Backed
<1>8. ASSUME NEW l \in HistoryLeaves
      PROVE  K[l] = Int \cup {Absent}
  <2>1. PICK d \in Device, n \in 1..MaxOps, e \in Entry : l = History(d, n, e)
        BY DEF HistoryLeaves
  <2>2. l # AllTimeLeaves /\ \A j : l # Inventory(j)
        BY <2>1, LeavesApart DEF Profile
  <2>3. l \in Leaf
        BY DEF Leaf
  <2>4. QED
        BY <1>1, <2>1, <2>2, <2>3, GoodLeaves DEF Backed
<1> HIDE DEF K
<1>9. QED
      BY <1>3, <1>4, <1>5, <1>6, <1>7, <1>8 DEF K

\* What is known is what the login screen relies on.
LEMMA KnownAllows ==
    ASSUME NEW alone, NEW book \in Book
    PROVE  Allows(Known(alone, book))
<1> DEFINE K == Known(alone, book)
<1>1. \A l \in Leaf : K[l] \subseteq Value /\ Absent \in K[l]
      BY GoodIsValue DEF Known
<1>2. \A k \in Key : K[Inventory(k)] \subseteq (Nat \ {0}) \cup {Absent}
      BY KnownLeaves
<1>3. \A l \in ActiveLeaves : K[l] \subseteq Coordinate \cup {Absent}
      BY KnownLeaves
<1>4. 0 \in K[AllTimeLeaves]
  <2>1. Quantity \subseteq Nat => book.allTime \in Nat
        BY DEF Book, Money
  <2>2. QED
        BY <2>1, KnownLeaves, MoneyIsInt
<1>5. 0 \in K[CurrentLeaves]
      BY KnownLeaves, MoneyIsInt, PurseIsInt
<1>6. 0 \in K[DisplayName] /\ 0 \in K[Notifications] /\ 1 \in K[OnLeaderboard]
  <2>1. ASSUME NEW l \in {DisplayName, Notifications, OnLeaderboard}
        PROVE  K[l] = Int \cup {Absent}
    <3>1. l \in Profile \ {CurrentLeaves, AllTimeLeaves}
          BY LeavesApart
    <3>2. QED
          BY <3>1, KnownLeaves
  <2>2. QED
        BY <2>1
<1> HIDE DEF K
<1>7. QED
      BY <1>1, <1>2, <1>3, <1>4, <1>5, <1>6 DEF Allows, K

\* What the blocks of each operation are handed.
LEMMA TagFields ==
    ASSUME NEW t \in Tag
    PROVE  /\ t.op = "inventory" => Asked(t) = InventoryLeaves
           /\ t.op = "activeItems" => Asked(t) = ActiveLeaves
           /\ t.op = "buyLeaves" => /\ t.n \in 1..MaxOps /\ t.cell \in Cell
                                    /\ Asked(t) = {CurrentLeaves}
           /\ t.op = "buyItem" => /\ t.n \in 1..MaxOps /\ t.cell \in Cell
                                  /\ t.leaf \in InventoryLeaves
                                  /\ Asked(t) = {t.leaf}
           /\ t.op = "claimDate" => t.day \in Day /\ Asked(t) = {LastVisitedDate}
           /\ t.op = "rewardCurrent" => t.total \in Nat /\ Asked(t) = {CurrentLeaves}
           /\ t.op = "rewardAllTime" => t.total \in Nat /\ Asked(t) = {AllTimeLeaves}
           /\ t.op = "redeem" => t.leaves \in Money /\ Asked(t) = Leaf
           /\ t.op = "placeActive" => /\ t.key \in Key /\ t.at \in Coordinate
                                      /\ Asked(t) = ActiveList(t.key)
           /\ t.op = "placeInventory" => t.key \in Key /\ Asked(t) = {Inventory(t.key)}
           /\ t.op = "removeActive" =>
                 /\ t.key \in Key \cup {Absent} /\ t.at \in Coordinate
                 /\ Asked(t) = IF t.key = Absent THEN ActiveLeaves ELSE ActiveList(t.key)
           /\ t.op = "removeInventory" =>
                 /\ t.key \in Key \cup {Absent}
                 /\ Asked(t) = IF t.key = Absent THEN InventoryLeaves
                               ELSE {Inventory(t.key)}
           /\ t.op \in {"dashboard", "settings"} => Asked(t) = Leaf
BY DEF Tag, Asked, NameAnswer, InventoryAnswer, ActiveAnswer

\* A block asks for leaves of the record.
LEMMA AskedIsLeaves ==
    ASSUME NEW t \in Tag
    PROVE  Asked(t) \subseteq Leaf
<1>1. \A k \in Key : ActiveList(k) \subseteq ActiveLeaves
      BY DEF ActiveLeaves
<1>2. CASE t.op \in {"placeActive", "removeActive", "placeInventory", "removeInventory"}
      BY <1>1, <1>2, LeavesAreLeaves, TagFields
<1>3. CASE t.op \in {"inventory", "activeItems", "buyLeaves", "buyItem", "claimDate",
                     "rewardCurrent", "rewardAllTime", "redeem", "dashboard", "settings"}
      BY <1>3, LeavesAreLeaves, TagFields
<1>4. CASE t.op = "displayName"
      BY <1>4, LeavesAreLeaves DEF Asked
<1>5. QED
      BY <1>2, <1>3, <1>4 DEF Tag, NameAnswer, InventoryAnswer, ActiveAnswer

\* The blocks there may be on a device.
LEMMA BlocksAreTags ==
    ASSUME NEW d \in Device
    PROVE  /\ DOMAIN Blocks[d] = {t \in Tag : OnShelf(d, t)}
           /\ \A t \in DOMAIN Blocks[d] : Blocks[d][t] = Asked(t)
BY DEF Blocks

LEMMA BlocksAsk == Asks(Blocks)
<1> SUFFICES ASSUME NEW d \in Device
             PROVE  /\ \A t \in DOMAIN Blocks[d] :
                          /\ Blocks[d][t] \subseteq Leaf
                          /\ t.op = "inventory" => Blocks[d][t] = InventoryLeaves
                          /\ t.op = "activeItems" => Blocks[d][t] = ActiveLeaves
                    /\ {NameAnswer, InventoryAnswer, ActiveAnswer} \subseteq DOMAIN Blocks[d]
                    /\ Blocks[d][NameAnswer] = {DisplayName}
                    /\ Blocks[d][InventoryAnswer] = InventoryLeaves
                    /\ Blocks[d][ActiveAnswer] = ActiveLeaves
      BY DEF Asks
<1>1. \A t \in DOMAIN Blocks[d] :
          /\ Blocks[d][t] \subseteq Leaf
          /\ t.op = "inventory" => Blocks[d][t] = InventoryLeaves
          /\ t.op = "activeItems" => Blocks[d][t] = ActiveLeaves
      BY BlocksAreTags, AskedIsLeaves, TagFields
<1>2. {NameAnswer, InventoryAnswer, ActiveAnswer} \subseteq DOMAIN Blocks[d]
      BY BlocksAreTags DEF Tag, OnShelf, NameAnswer, InventoryAnswer, ActiveAnswer
<1>3. /\ Asked(NameAnswer) = {DisplayName}
      /\ Asked(InventoryAnswer) = InventoryLeaves
      /\ Asked(ActiveAnswer) = ActiveLeaves
      BY DEF Asked, NameAnswer, InventoryAnswer, ActiveAnswer
<1>4. QED
      BY <1>1, <1>2, <1>3, BlocksAreTags

-----------------------------------------------------------------------------
(* What the blocks compute.                                                *)

\* What Yield and Worth count, and that it is finite.
Pairs(S, f) == UNION {{x} \X (1..f[x]) : x \in S}

LEMMA PairsAreFinite ==
    ASSUME NEW S, IsFiniteSet(S), NEW f \in [S -> Int]
    PROVE  Cardinality(Pairs(S, f)) \in Nat
<1> DEFINE family == {{x} \X (1..f[x]) : x \in S}
           g == [x \in S |-> {x} \X (1..f[x])]
<1>1. g \in Surjection(S, family)
      BY DEF Surjection
<1>2. IsFiniteSet(family)
  <2> HIDE DEF family, g
  <2>1. QED
        BY <1>1, FS_Surjection
<1>3. ASSUME NEW T \in family
      PROVE  IsFiniteSet(T)
  <2>1. PICK x \in S : T = {x} \X (1..f[x])
        OBVIOUS
  <2>2. IsFiniteSet({x}) /\ IsFiniteSet(1..f[x])
    <3>1. 1 \in Int /\ f[x] \in Int
          OBVIOUS
    <3>2. QED
          BY <3>1, FS_Singleton, FS_Interval
  <2>3. QED
        BY <2>1, <2>2, FS_Product
<1>4. IsFiniteSet(UNION family)
  <2> HIDE DEF family
  <2>1. QED
        BY <1>2, <1>3, FS_UNION
<1>5. QED
      BY <1>4, FS_CardinalityType DEF Pairs

\* A reward is a number of leaves.
LEMMA YieldIsNat ==
    ASSUME NEW entries \in Seq(PlacedRow)
    PROVE  Yield(entries) \in Nat
<1> DEFINE S == DOMAIN entries
           f == [i \in S |-> Cost[entries[i].key] \div 10]
<1>1. IsFiniteSet(S)
  <2>1. S = 1..Len(entries) /\ Len(entries) \in Int
        OBVIOUS
  <2>2. QED
        BY <2>1, FS_Interval
<1>2. f \in [S -> Int]
  <2>1. ASSUME NEW i \in S
        PROVE  entries[i].key \in Key
    <3>1. entries[i] \in PlacedRow
          OBVIOUS
    <3>2. QED
          BY <3>1 DEF PlacedRow
  <2>2. QED
        BY <2>1, SchemaAssumption
<1>3. Cardinality(Pairs(S, f)) \in Nat
  <2> HIDE DEF S, f
  <2>1. QED
        BY <1>1, <1>2, PairsAreFinite
<1>4. QED
      BY <1>3 DEF Yield, Pairs

\* A filled-in form is worth a sum of money: no less than zero if no quantity
\* is below zero.
LEMMA WorthIsMoney ==
    ASSUME NEW form \in [Entry -> Quantity]
    PROVE  Worth(form) \in Money
<1> DEFINE gain == [e \in Entry |-> form[e] * Points[e]]
           loss == [e \in Entry |-> -(form[e] * Points[e])]
           gains == Pairs(Entry, gain)
           losses == Pairs(Entry, loss)
<1>1. IsFiniteSet(Entry)
      BY SchemaAssumption
<1>2. \A e \in Entry : form[e] \in Int /\ Points[e] \in Nat
      BY SchemaAssumption, WalletAssumption
<1>3. gain \in [Entry -> Int] /\ loss \in [Entry -> Int]
      BY <1>2
<1>4. Cardinality(gains) \in Nat /\ Cardinality(losses) \in Nat
  <2> HIDE DEF gain, loss
  <2>1. QED
        BY <1>1, <1>3, PairsAreFinite
<1>5. Worth(form) = Cardinality(gains) - Cardinality(losses)
      BY DEF Worth, Pairs
<1>6. CASE Quantity \subseteq Nat
  <2>1. ASSUME NEW e \in Entry
        PROVE  form[e] * Points[e] \in Nat
    <3>1. form[e] \in Nat /\ Points[e] \in Nat
          BY <1>2, <1>6
    <3>2. QED
          BY <3>1
  <2>2. \A e \in Entry : 1..loss[e] = {}
        BY <2>1
  <2>3. losses = {}
    <3> HIDE DEF loss
    <3>1. QED
          BY <2>2 DEF Pairs
  <2>4. Cardinality(losses) = 0
        BY <2>3, FS_EmptySet
  <2>5. QED
        BY <1>4, <1>5, <1>6, <2>4 DEF Money
<1>7. CASE ~(Quantity \subseteq Nat)
      BY <1>4, <1>5, <1>7 DEF Money
<1>8. QED
      BY <1>6, <1>7


-----------------------------------------------------------------------------
(* The ledger and the store's cells from a state to the next.              *)

\* Nothing that was earned or delivered is forgotten.
LedgerGrows ==
    /\ Quantity \subseteq Nat => ledger.allTime <= ledger'.allTime
    /\ \A k \in Key : ledger.goods[k] <= ledger'.goods[k]

ShelfKept == Reuse \/ shelf' = shelf

LEMMA SameLedgerGrows ==
    ASSUME WalletInv, ledger' = ledger
    PROVE  LedgerGrows
BY DEF LedgerGrows, WalletInv, Book, Money

\* So a value that could be at a leaf still can.
LEMMA KnownGrows ==
    ASSUME NEW alone, WalletInv, ledger' \in Book, LedgerGrows
    PROVE  Wider(Known(alone, ledger), Known(alone, ledger'))
<1>1. ledger \in Book
      BY DEF WalletInv
<1>2. ASSUME NEW l \in Leaf, NEW v \in Known(alone, ledger)[l]
      PROVE  v \in Known(alone, ledger')[l]
  <2>1. v \in Good(l) /\ (v = Absent \/ Backed(alone, ledger, l, v))
        BY <1>2 DEF Known
  <2>2. ASSUME v # Absent
        PROVE  Backed(alone, ledger', l, v)
    <3>1. ASSUME l = AllTimeLeaves, Quantity \subseteq Nat
          PROVE  v <= ledger'.allTime
      <4>1. v \in Nat /\ v <= ledger.allTime
            BY <2>1, <2>2, <3>1, GoodLeaves DEF Backed, Money
      <4>2. ledger.allTime \in Nat /\ ledger'.allTime \in Nat
            BY <1>1, <3>1 DEF Book, Money
      <4>3. QED
            BY <3>1, <4>1, <4>2 DEF LedgerGrows
    <3>2. ASSUME NEW k \in Key, l = Inventory(k), alone, ~Reuse
          PROVE  v <= ledger'.goods[k]
      <4>1. v \in Nat /\ v <= ledger.goods[k]
            BY <2>1, <2>2, <3>2, GoodLeaves DEF Backed
      <4>2. ledger.goods[k] \in Nat /\ ledger'.goods[k] \in Nat
            BY <1>1 DEF Book
      <4>3. QED
            BY <4>1, <4>2 DEF LedgerGrows
    <3>3. QED
          BY <3>1, <3>2 DEF Backed
  <2>3. QED
        BY <2>1, <2>2 DEF Known
<1>3. QED
      BY <1>2 DEF Wider

LEMMA BlocksStay ==
    ASSUME ShelfKept
    PROVE  Blocks' = Blocks
BY DEF ShelfKept, Blocks, OnShelf

-----------------------------------------------------------------------------
(* Handlers and blocks.                                                    *)

\* What a block finds when its answer comes.
LEMMA BlockFacts ==
    ASSUME NEW alone, Inv(alone), NEW d \in Device, NEW op, NEW a \in AnswersTo(d, op)
    PROVE  /\ a.then \in Tag /\ a.then.op = op /\ OnShelf(d, a.then)
           /\ a.snap \in Patch(Known(alone, ledger), Asked(a.then))
<1>1. PICK G : G = Known(alone, ledger)
      OBVIOUS
<1>2. Allows(G) /\ DatabaseInv(G, Blocks)
      BY <1>1, KnownAllows DEF Inv, WalletInv
<1>3. a.then \in DOMAIN Blocks[d] /\ a.then.op = op /\ a.snap \in Patch(G, Blocks[d][a.then])
      BY <1>2, BlocksAsk, AnswerFacts
<1>4. QED
      BY <1>1, <1>3, BlocksAreTags

\* A step that leaves the client alone.
LEMMA NothingSent ==
    ASSUME NEW alone, Inv(alone), ledger' \in Book, LedgerGrows, ShelfKept, UNCHANGED dbVars
    PROVE  DatabaseInv(Known(alone, ledger), Blocks)'
<1>1. PICK G : G = Known(alone, ledger)
      OBVIOUS
<1>2. PICK H : H = Known(alone, ledger')
      OBVIOUS
<1>3. PICK B : B = Blocks
      OBVIOUS
<1>4. DatabaseInv(H, B)
      BY <1>1, <1>2, <1>3, KnownGrows, BlocksAsk, DatabaseWidens DEF Inv
<1>5. DatabaseInv(H, B)'
      BY <1>4 DEF DatabaseInv, dbVars, clientVars
<1>6. B = Blocks'
      BY <1>3, BlocksStay
<1>7. QED
      BY <1>2, <1>5, <1>6

\* A handler that dispatches calls of the kinds there are.
LEMMA DispatchSends ==
    ASSUME NEW alone, Inv(alone), ledger' \in Book, LedgerGrows, ShelfKept,
           NEW d \in Device, NEW calls \in Seq(Call(Known(alone, ledger'), Blocks[d])),
           Dispatch(d, calls)
    PROVE  DatabaseInv(Known(alone, ledger), Blocks)'
<1>1. PICK G : G = Known(alone, ledger)
      OBVIOUS
<1>2. PICK H : H = Known(alone, ledger')
      OBVIOUS
<1>3. PICK B : B = Blocks
      OBVIOUS
<1>4. DatabaseInv(H, B)
      BY <1>1, <1>2, <1>3, KnownGrows, BlocksAsk, DatabaseWidens DEF Inv
<1>5. DatabaseInv(H, B)'
      BY <1>2, <1>3, <1>4, DispatchKeeps
<1>6. B = Blocks'
      BY <1>3, BlocksStay
<1>7. QED
      BY <1>2, <1>5, <1>6

\* A block that does.
LEMMA ReturnSends ==
    ASSUME NEW alone, Inv(alone), ledger' \in Book, LedgerGrows, ShelfKept,
           NEW d \in Device, NEW op, NEW a \in AnswersTo(d, op),
           NEW calls \in Seq(Call(Known(alone, ledger'), Blocks[d])),
           Return(d, a, calls)
    PROVE  DatabaseInv(Known(alone, ledger), Blocks)'
<1>1. PICK G : G = Known(alone, ledger)
      OBVIOUS
<1>2. PICK H : H = Known(alone, ledger')
      OBVIOUS
<1>3. PICK B : B = Blocks
      OBVIOUS
<1>4. DatabaseInv(H, B) /\ Asks(B) /\ Allows(H)
      BY <1>1, <1>2, <1>3, KnownGrows, KnownAllows, BlocksAsk, DatabaseWidens DEF Inv
<1>5. DatabaseInv(H, B)'
      BY <1>2, <1>3, <1>4, ReturnKeeps
<1>6. B = Blocks'
      BY <1>3, BlocksStay
<1>7. QED
      BY <1>2, <1>5, <1>6

\* Calls that a handler or a block may dispatch.
LEMMA NoCalls ==
    ASSUME NEW alone, NEW book, NEW d
    PROVE  <<>> \in Seq(Call(Known(alone, book), Blocks[d]))
BY EmptySeq

LEMMA OneWrite ==
    ASSUME NEW alone, NEW book \in Book, NEW d, NEW l \in Leaf,
           NEW v \in Known(alone, book)[l]
    PROVE  <<SetValue(SetLeaf(l, v))>> \in Seq(Call(Known(alone, book), Blocks[d]))
<1> DEFINE C == Call(Known(alone, book), Blocks[d])
<1>1. SetValue(SetLeaf(l, v)) \in C
      BY KnownAllows, PutLeafIsCall
<1> HIDE DEF C
<1>2. <<SetValue(SetLeaf(l, v))>> \in Seq(C)
      BY <1>1
<1>3. QED
      BY <1>2 DEF C

LEMMA GetOfTag ==
    ASSUME NEW G, NEW d \in Device, NEW t \in Tag, OnShelf(d, t)
    PROVE  GetData(Asked(t), t) \in Call(G, Blocks[d])
BY BlocksAreTags, GetIsCall

\* A purchase, a reward or a redemption leaves the lists of the app alone.
LEMMA SessionStays ==
    ASSUME NEW K, SessionInv(K), UNCHANGED sessionVars
    PROVE  SessionInv(K)'
BY DEF SessionInv, sessionVars, listVars

-----------------------------------------------------------------------------
(* The store.                                                              *)

LEMMA StartKeeps ==
    ASSUME WalletInv, NEW d \in Device, MayStart(d)
    PROVE  /\ Op(d) \in 1..MaxOps
           /\ Start(d) => started' \in [Device -> 0..MaxOps]
BY SchemaAssumption DEF WalletInv, MayStart, MayAct, Op, Start

LEMMA PriceIsNat ==
    ASSUME WalletInv, NEW d \in Device, NEW c \in Cell
    PROVE  shelf[d][c] \in Key /\ Price(d, c) \in Nat
BY SchemaAssumption DEF WalletInv, Price

LEMMA BuyOnClickKeeps ==
    ASSUME NEW alone, Inv(alone), NEW d \in Device, NEW c \in Cell, BuyOnClick(d, c)
    PROVE  Inv(alone)'
<1> USE DEF Inv
<1> DEFINE n == Op(d)
           k == shelf[d][c]
           t1 == [op |-> "buyLeaves", n |-> n, cell |-> c]
           t2 == [op |-> "buyItem", n |-> n, cell |-> c, leaf |-> Inventory(k)]
           C == Call(Known(alone, ledger), Blocks[d])
<1>1. n \in 1..MaxOps /\ started' \in [Device -> 0..MaxOps]
      BY StartKeeps DEF BuyOnClick
<1>2. k \in Key
      BY PriceIsNat
<1>3. t1 \in Tag /\ Asked(t1) = {CurrentLeaves} /\ OnShelf(d, t1)
      BY <1>1 DEF Tag, Asked, OnShelf
<1>4. t2 \in Tag /\ Asked(t2) = {Inventory(k)} /\ OnShelf(d, t2)
      BY <1>1, <1>2, LeavesAreLeaves DEF Tag, Asked, OnShelf
<1>5. <<LeavesCall(n, c), ItemCall(n, c, Inventory(k))>> \in Seq(C)
  <2>1. LeavesCall(n, c) \in C /\ ItemCall(n, c, Inventory(k)) \in C
    <3>1. GetData(Asked(t1), t1) \in C /\ GetData(Asked(t2), t2) \in C
          BY <1>3, <1>4, GetOfTag
    <3>2. QED
          BY <1>3, <1>4, <3>1 DEF LeavesCall, ItemCall
  <2> HIDE DEF C
  <2>2. QED
        BY <2>1
<1>6. ledger' = ledger /\ shelf' = shelf
      BY DEF BuyOnClick, historyVars, storeVars
<1>7. DatabaseInv(Known(alone, ledger), Blocks)'
  <2>1. <<LeavesCall(n, c), ItemCall(n, c, Inventory(k))>>
            \in Seq(Call(Known(alone, ledger'), Blocks[d]))
        BY <1>5, <1>6
  <2>2. ledger' \in Book /\ LedgerGrows /\ ShelfKept
        BY <1>6, SameLedgerGrows DEF ShelfKept, WalletInv
  <2>3. QED
        BY <2>1, <2>2, DispatchSends DEF BuyOnClick
<1>8. SessionInv(KeyShown(alone))'
  <2>1. PICK K : K = KeyShown(alone)
        OBVIOUS
  <2>2. QED
        BY <2>1, SessionStays DEF BuyOnClick
<1>9. WalletInv'
      BY <1>1 DEF BuyOnClick, WalletInv, storeVars, historyVars
<1>10. QED
      BY <1>7, <1>8, <1>9

LEMMA CellForRowKeeps ==
    ASSUME NEW alone, Inv(alone), NEW d \in Device, NEW c \in Cell, NEW k \in Key,
           CellForRow(d, c, k)
    PROVE  Inv(alone)'
<1> USE DEF Inv
<1>1. ledger' = ledger /\ ShelfKept /\ UNCHANGED dbVars
      BY DEF CellForRow, historyVars, ShelfKept
<1>2. DatabaseInv(Known(alone, ledger), Blocks)'
      BY <1>1, NothingSent, SameLedgerGrows DEF WalletInv
<1>3. SessionInv(KeyShown(alone))'
  <2>1. PICK K : K = KeyShown(alone)
        OBVIOUS
  <2>2. QED
        BY <2>1, SessionStays DEF CellForRow
<1>4. WalletInv'
      BY <1>1 DEF CellForRow, WalletInv
<1>5. QED
      BY <1>2, <1>3, <1>4

\* A deduction or a gain of current leaves.
LEMMA CurrentChanges ==
    ASSUME WalletInv, NEW amount \in Int, ledger' = [ledger EXCEPT !.current = @ + amount]
    PROVE  ledger' \in Book /\ LedgerGrows
<1>1. ledger \in Book /\ ledger.current + amount \in Int
      BY BookFields DEF WalletInv
<1>2. ledger' \in Book
      BY <1>1, BookUpdates
<1>3. ledger'.allTime = ledger.allTime /\ ledger'.goods = ledger.goods
      BY <1>1 DEF Book
<1>4. QED
      BY <1>1, <1>2, <1>3, BookFields DEF LedgerGrows, Money

\* An item that a block may find at its cell.
LEMMA ShownIsItem ==
    ASSUME WalletInv, NEW d \in Device, NEW c \in Cell, NEW k \in MayShow(d, c)
    PROVE  /\ k \in Key /\ Cost[k] \in Nat
           /\ shelf[d][c] \in Key
           /\ Reuse \/ k = shelf[d][c]
<1>1. shelf[d][c] \in Key
      BY DEF WalletInv
<1>2. QED
      BY <1>1, SchemaAssumption DEF MayShow

LEMMA GotBuyLeavesKeeps ==
    ASSUME NEW alone, Inv(alone), NEW d \in Device, GotBuyLeaves(d)
    PROVE  Inv(alone)'
<1> USE DEF Inv
<1>1. PICK a \in AnswersTo(d, "buyLeaves") : \E k \in MayShow(d, a.then.cell) :
            /\ readLeaves' = [readLeaves EXCEPT ![d][a.then.n] = a.snap[CurrentLeaves]]
            /\ Return(d, a,
                 IF Affords(a.snap[CurrentLeaves], Price(d, a.then.cell))
                 THEN <<SetValue(SetLeaf(CurrentLeaves,
                          a.snap[CurrentLeaves] - Cost[k]))>>
                 ELSE <<>>)
            /\ IF Affords(a.snap[CurrentLeaves], Price(d, a.then.cell))
               THEN ledger' = [ledger EXCEPT !.current = @ - Cost[k]]
               ELSE ledger' = ledger
            /\ UNCHANGED <<sessionVars, today, started, shelf>>
      BY DEF GotBuyLeaves, historyVars
<1>2. PICK k \in MayShow(d, a.then.cell) :
            /\ readLeaves' = [readLeaves EXCEPT ![d][a.then.n] = a.snap[CurrentLeaves]]
            /\ Return(d, a,
                 IF Affords(a.snap[CurrentLeaves], Price(d, a.then.cell))
                 THEN <<SetValue(SetLeaf(CurrentLeaves,
                          a.snap[CurrentLeaves] - Cost[k]))>>
                 ELSE <<>>)
            /\ IF Affords(a.snap[CurrentLeaves], Price(d, a.then.cell))
               THEN ledger' = [ledger EXCEPT !.current = @ - Cost[k]]
               ELSE ledger' = ledger
            /\ UNCHANGED <<sessionVars, today, started, shelf>>
      BY <1>1
<1> DEFINE leaves == a.snap[CurrentLeaves]
           pays  == Affords(leaves, Price(d, a.then.cell))
           price == Cost[k]
           calls == IF pays
                    THEN <<SetValue(SetLeaf(CurrentLeaves, leaves - price))>>
                    ELSE <<>>
<1>3. /\ a.then.n \in 1..MaxOps
      /\ a.then.cell \in Cell
      /\ a.snap \in Patch(Known(alone, ledger), {CurrentLeaves})
  <2>1. /\ a.then \in Tag /\ a.then.op = "buyLeaves"
        /\ a.snap \in Patch(Known(alone, ledger), Asked(a.then))
        BY BlockFacts
  <2>2. QED
        BY <2>1, TagFields
<1>4. leaves \in Purse \cup {Absent}
      BY <1>3, KnownLeaves DEF Patch
<1>5. /\ price \in Nat /\ k \in Key /\ shelf[d][a.then.cell] \in Key
      /\ Reuse \/ k = shelf[d][a.then.cell]
      BY <1>3, ShownIsItem
<1>6. ledger' \in Book /\ LedgerGrows
  <2>1. CASE pays
    <3>1. -price \in Int /\ ledger.current \in Int
          BY <1>5 DEF WalletInv, Book
    <3>2. ledger.current - price = ledger.current + (-price)
          BY <1>5, <3>1
    <3>3. ledger' = [ledger EXCEPT !.current = @ + (-price)]
          BY <1>2, <2>1, <3>2
    <3>4. QED
          BY <3>1, <3>3, CurrentChanges
  <2>2. CASE ~pays
        BY <1>2, <2>2, SameLedgerGrows DEF WalletInv
  <2>3. QED
        BY <2>1, <2>2
<1>7. calls \in Seq(Call(Known(alone, ledger'), Blocks[d]))
  <2>1. CASE pays
    <3>1. leaves - price \in Known(alone, ledger')[CurrentLeaves]
      <4>1. Affords(leaves, Cost[shelf[d][a.then.cell]])
            BY <2>1 DEF Price
      <4>2. leaves - Cost[k] \in Purse
            BY <1>4, <1>5, <4>1, PurseSpent
      <4>3. QED
            BY <4>2, KnownLeaves
    <3>2. QED
          BY <1>6, <2>1, <3>1, LeavesAreLeaves, OneWrite
  <2>2. CASE ~pays
        BY <2>2, NoCalls
  <2>3. QED
        BY <2>1, <2>2
<1>8. DatabaseInv(Known(alone, ledger), Blocks)'
  <2> HIDE DEF calls
  <2>1. Return(d, a, calls) /\ ShelfKept
        BY <1>2 DEF calls, ShelfKept
  <2>2. QED
        BY <1>6, <1>7, <2>1, ReturnSends
<1>9. SessionInv(KeyShown(alone))'
  <2>1. PICK K : K = KeyShown(alone)
        OBVIOUS
  <2>2. QED
        BY <1>2, <2>1, SessionStays
<1>10. WalletInv'
  <2>1. readLeaves' \in [Device -> [1..MaxOps -> Int \cup {Absent}]]
        BY <1>2, <1>3, <1>4, PurseIsInt DEF WalletInv
  <2>2. QED
        BY <1>2, <1>6, <2>1 DEF WalletInv
<1>11. QED
      BY <1>8, <1>9, <1>10

\* A delivered item is one more than was there.
LEMMA RestockedKeeps ==
    ASSUME NEW K, NEW rows \in Seq(HeldRow(K)), NEW k \in Key, Key \subseteq K, NEW shown
    PROVE  /\ Append(rows, InventoryRow(k, 1)) \in Seq(HeldRow(K))
           /\ Restocked(rows, shown) \in Seq(HeldRow(K))
<1>1. InventoryRow(k, 1) \in HeldRow(K)
      BY DEF InventoryRow, HeldRow
<1>2. Append(rows, InventoryRow(k, 1)) \in Seq(HeldRow(K))
      BY <1>1, AppendProperties
<1>3. ASSUME NEW i \in 1..Len(rows)
      PROVE  (IF rows[i].key = shown[i]
              THEN InventoryRow(rows[i].key, rows[i].count + 1)
              ELSE rows[i]) \in HeldRow(K)
  <2>1. rows[i] \in HeldRow(K)
        OBVIOUS
  <2>2. QED
        BY <2>1 DEF HeldRow, InventoryRow
<1>4. DOMAIN rows = 1..Len(rows) /\ Len(rows) \in Nat
      OBVIOUS
<1>5. Restocked(rows, shown) \in Seq(HeldRow(K))
      BY <1>3, <1>4 DEF Restocked
<1>6. QED
      BY <1>2, <1>5

LEMMA DeliverKeeps ==
    ASSUME NEW alone, Inv(alone), NEW d \in Device, Deliver(d)
    PROVE  Inv(alone)'
<1> USE DEF Inv
<1>1. PICK a \in AnswersTo(d, "buyItem") :
        \E k, added \in MayShow(d, a.then.cell) :
        \E shown \in [DOMAIN inventoryItems[d] -> MayShow(d, a.then.cell)] :
            /\ Return(d, a, <<SetValue(SetLeaf(Inventory(k), OneMore(a.snap[a.then.leaf])))>>)
            /\ inventoryItems' = [inventoryItems EXCEPT ![d] =
                    IF a.snap[a.then.leaf] = Absent
                    THEN Append(@, InventoryRow(added, 1))
                    ELSE Restocked(@, shown)]
            /\ ledger' = [ledger EXCEPT !.goods[k] = @ + 1]
            /\ UNCHANGED <<stage, activeItems, coordinatesOccupied, today, started, storeVars>>
      BY DEF Deliver
<1>2. PICK k \in MayShow(d, a.then.cell), added \in MayShow(d, a.then.cell),
           shown \in [DOMAIN inventoryItems[d] -> MayShow(d, a.then.cell)] :
            /\ Return(d, a, <<SetValue(SetLeaf(Inventory(k), OneMore(a.snap[a.then.leaf])))>>)
            /\ inventoryItems' = [inventoryItems EXCEPT ![d] =
                    IF a.snap[a.then.leaf] = Absent
                    THEN Append(@, InventoryRow(added, 1))
                    ELSE Restocked(@, shown)]
            /\ ledger' = [ledger EXCEPT !.goods[k] = @ + 1]
            /\ UNCHANGED <<stage, activeItems, coordinatesOccupied, today, started, storeVars>>
      BY <1>1
<1> DEFINE count == a.snap[a.then.leaf]
<1>3. /\ a.then.cell \in Cell
      /\ a.then.leaf \in InventoryLeaves
      /\ a.snap \in Patch(Known(alone, ledger), {a.then.leaf})
      /\ ~Reuse => a.then.leaf = Inventory(shelf[d][a.then.cell])
  <2>1. /\ a.then \in Tag /\ a.then.op = "buyItem" /\ OnShelf(d, a.then)
        /\ a.snap \in Patch(Known(alone, ledger), Asked(a.then))
        BY BlockFacts
  <2>2. QED
        BY <2>1, TagFields DEF OnShelf
<1>4. k \in Key /\ added \in Key /\ (~Reuse => a.then.leaf = Inventory(k))
      BY <1>3, ShownIsItem
<1>5. ledger' \in Book /\ LedgerGrows /\ ledger'.goods[k] = ledger.goods[k] + 1
  <2>1. ledger.goods \in [Key -> Nat] /\ ledger \in Book
        BY BookFields DEF WalletInv
  <2>2. ledger'.goods = [ledger.goods EXCEPT ![k] = @ + 1]
        BY <1>2, <2>1 DEF Book
  <2>3. ledger' \in Book
    <3>1. ledger.goods[k] + 1 \in Nat
          BY <1>4, <2>1
    <3>2. QED
          BY <1>2, <1>4, <2>1, <3>1, BookUpdates
  <2>4. \A j \in Key : ledger.goods[j] <= ledger'.goods[j]
        BY <1>4, <2>1, <2>2
  <2>5. Quantity \subseteq Nat => ledger.allTime <= ledger'.allTime
        BY <1>2, <2>1 DEF Book, Money
  <2>6. QED
        BY <1>4, <2>1, <2>2, <2>3, <2>4, <2>5 DEF LedgerGrows
<1>6. OneMore(count) \in Known(alone, ledger')[Inventory(k)]
  <2>1. PICK j \in Key : a.then.leaf = Inventory(j)
        BY <1>3 DEF InventoryLeaves
  <2>2. count \in Known(alone, ledger)[Inventory(j)]
        BY <1>3, <2>1 DEF Patch
  <2>3. \/ count = Absent
        \/ count \in Nat \ {0} /\ (alone /\ ~Reuse => count <= ledger.goods[j])
        BY <2>2, KnownLeaves
  <2>4. ~Reuse => j = k
        BY <1>4, <2>1, LeavesApart
  <2>5. ledger.goods[k] \in Nat
        BY <1>4 DEF WalletInv, Book
  <2>6. /\ OneMore(count) \in Nat \ {0}
        /\ alone /\ ~Reuse => OneMore(count) <= ledger.goods[k] + 1
        BY <2>3, <2>4, <2>5 DEF OneMore
  <2>7. QED
        BY <1>4, <1>5, <2>6, KnownLeaves
<1>7. DatabaseInv(Known(alone, ledger), Blocks)'
  <2>1. <<SetValue(SetLeaf(Inventory(k), OneMore(count)))>>
            \in Seq(Call(Known(alone, ledger'), Blocks[d]))
        BY <1>4, <1>5, <1>6, LeavesAreLeaves, OneWrite
  <2>2. ShelfKept
        BY <1>2 DEF ShelfKept, storeVars
  <2>3. QED
        BY <1>2, <1>5, <2>1, <2>2, ReturnSends
<1>8. SessionInv(KeyShown(alone))'
  <2>1. PICK K : K = KeyShown(alone)
        OBVIOUS
  <2>2. Key \subseteq K /\ SessionInv(K)
        BY <2>1 DEF KeyShown
  <2>3. inventoryItems[d] \in Seq(HeldRow(K))
        BY <2>2 DEF SessionInv
  <2>4. /\ Append(inventoryItems[d], InventoryRow(added, 1)) \in Seq(HeldRow(K))
        /\ Restocked(inventoryItems[d], shown) \in Seq(HeldRow(K))
        BY <1>4, <2>2, <2>3, RestockedKeeps
  <2>5. SessionInv(K)'
        BY <1>2, <2>2, <2>4 DEF SessionInv
  <2>6. QED
        BY <2>1, <2>5
<1>9. WalletInv'
      BY <1>2, <1>5 DEF WalletInv, storeVars
<1>10. QED
      BY <1>7, <1>8, <1>9

\* A block that dispatches nothing and changes no list.
LEMMA RefuseKeeps ==
    ASSUME NEW alone, Inv(alone), NEW d \in Device, Refuse(d)
    PROVE  Inv(alone)'
<1> USE DEF Inv
<1>1. PICK a \in AnswersTo(d, "buyItem") : Return(d, a, <<>>)
      BY DEF Refuse
<1>2. ledger' = ledger /\ shelf' = shelf
      BY DEF Refuse, storeVars
<1>3. DatabaseInv(Known(alone, ledger), Blocks)'
      BY <1>1, <1>2, NoCalls, ReturnSends, SameLedgerGrows DEF ShelfKept, WalletInv
<1>4. SessionInv(KeyShown(alone))'
  <2>1. PICK K : K = KeyShown(alone)
        OBVIOUS
  <2>2. QED
        BY <2>1, SessionStays DEF Refuse
<1>5. WalletInv'
      BY DEF Refuse, WalletInv, storeVars
<1>6. QED
      BY <1>3, <1>4, <1>5

\* Steps that are none of the wallet's: a process that ends by a runtime error
\* or by the system's hand, steps of the client library, the server and the
\* network, and of the login screen.
LEMMA OthersKeep ==
    ASSUME NEW alone, Inv(alone), UNCHANGED walletVars,
           ASSUME NEW G, NEW B, NEW K, Key \subseteq K, Allows(G), Asks(B),
                  DatabaseInv(G, B), SessionInv(K)
           PROVE  DatabaseInv(G, B)' /\ SessionInv(K)'
    PROVE  Inv(alone)'
<1>1. PICK G : G = Known(alone, ledger)
      OBVIOUS
<1>2. PICK B : B = Blocks
      OBVIOUS
<1>3. PICK K : K = KeyShown(alone)
      OBVIOUS
<1>4. /\ Key \subseteq K /\ Allows(G) /\ Asks(B)
      /\ DatabaseInv(G, B) /\ SessionInv(K)
      BY <1>1, <1>2, <1>3, KnownAllows, BlocksAsk DEF Inv, KeyShown, WalletInv
<1>5. DatabaseInv(G, B)' /\ SessionInv(K)'
      BY <1>4
<1>6. ledger' = ledger /\ shelf' = shelf
      BY DEF walletVars, historyVars, storeVars
<1>7. B = Blocks'
      BY <1>2, <1>6, BlocksStay DEF ShelfKept
<1>8. WalletInv'
      BY DEF Inv, WalletInv, walletVars, storeVars, historyVars
<1>9. QED
      BY <1>1, <1>3, <1>5, <1>6, <1>7, <1>8 DEF Inv

-----------------------------------------------------------------------------
(* The daily reward.                                                       *)

LEMMA ClaimOnClickKeeps ==
    ASSUME NEW alone, Inv(alone), NEW d \in Device, ClaimOnClick(d)
    PROVE  Inv(alone)'
<1> USE DEF Inv
<1> DEFINE t == [op |-> "claimDate", day |-> today]
           C == Call(Known(alone, ledger), Blocks[d])
<1>1. ledger' = ledger /\ shelf' = shelf
      BY DEF ClaimOnClick, historyVars, storeVars
<1>2. <<GetData({LastVisitedDate}, t)>> \in Seq(C)
  <2>1. t \in Tag /\ Asked(t) = {LastVisitedDate} /\ OnShelf(d, t)
        BY DEF Tag, Asked, OnShelf, WalletInv
  <2>2. GetData({LastVisitedDate}, t) \in C
        BY <2>1, GetOfTag
  <2> HIDE DEF C
  <2>3. QED
        BY <2>2
<1>3. DatabaseInv(Known(alone, ledger), Blocks)'
  <2>1. <<GetData({LastVisitedDate}, t)>> \in Seq(Call(Known(alone, ledger'), Blocks[d]))
        BY <1>1, <1>2
  <2>2. ledger' \in Book /\ LedgerGrows /\ ShelfKept
        BY <1>1, SameLedgerGrows DEF ShelfKept, WalletInv
  <2>3. QED
        BY <2>1, <2>2, DispatchSends DEF ClaimOnClick
<1>4. SessionInv(KeyShown(alone))'
  <2>1. PICK K : K = KeyShown(alone)
        OBVIOUS
  <2>2. QED
        BY <2>1, SessionStays DEF ClaimOnClick
<1>5. WalletInv'
      BY <1>1, StartKeeps DEF ClaimOnClick, WalletInv, storeVars
<1>6. QED
      BY <1>3, <1>4, <1>5

\* What a claim dispatches.
LEMMA ClaimCallsAreCalls ==
    ASSUME NEW alone, NEW book \in Book, NEW K, SessionInv(K), NEW d \in Device,
           NEW last, NEW day \in Day
    PROVE  ClaimCalls(d, last, day) \in Seq(Call(Known(alone, book), Blocks[d]))
<1> DEFINE total == Yield(activeItems[d])
           t1 == [op |-> "rewardCurrent", total |-> total]
           t2 == [op |-> "rewardAllTime", total |-> total]
           C == Call(Known(alone, book), Blocks[d])
<1>1. total \in Nat
      BY YieldIsNat DEF SessionInv
<1>2. Calculate(d) \in Seq(C)
  <2> HIDE DEF total
  <2>1. /\ t1 \in Tag /\ Asked(t1) = {CurrentLeaves} /\ OnShelf(d, t1)
        /\ t2 \in Tag /\ Asked(t2) = {AllTimeLeaves} /\ OnShelf(d, t2)
        BY <1>1 DEF Tag, Asked, OnShelf
  <2>2. GetData({CurrentLeaves}, t1) \in C /\ GetData({AllTimeLeaves}, t2) \in C
    <3>1. GetData(Asked(t1), t1) \in C /\ GetData(Asked(t2), t2) \in C
          BY <2>1, GetOfTag
    <3>2. QED
          BY <2>1, <3>1
  <2> HIDE DEF C
  <2>3. QED
        BY <2>2 DEF Calculate, total
<1>3. SetDate(day) \in Seq(C)
  <2>1. day \in Known(alone, book)[LastVisitedDate]
    <3>1. day \in Int
          BY DEF Day
    <3>2. LastVisitedDate \in Profile \ {CurrentLeaves, AllTimeLeaves}
          BY LeavesApart
    <3>3. QED
          BY <3>1, <3>2, KnownLeaves
  <2>2. QED
        BY <2>1, LeavesAreLeaves, OneWrite DEF SetDate
<1> HIDE DEF C
<1>4. ClaimCalls(d, last, day) \in Seq(C)
      BY <1>2, <1>3, ConcatProperties DEF ClaimCalls
<1>5. QED
      BY <1>4 DEF C

LEMMA GotClaimDateKeeps ==
    ASSUME NEW alone, Inv(alone), NEW d \in Device, GotClaimDate(d)
    PROVE  Inv(alone)'
<1> USE DEF Inv
<1>1. PICK a \in AnswersTo(d, "claimDate") :
            /\ Return(d, a, ClaimCalls(d, a.snap[LastVisitedDate], a.then.day))
            /\ ledger' = [ledger EXCEPT !.rewards[a.then.day] =
                            IF a.snap[LastVisitedDate] # a.then.day THEN @ + 1 ELSE @]
      BY DEF GotClaimDate
<1>2. a.then.day \in Day
  <2>1. a.then \in Tag /\ a.then.op = "claimDate"
        BY BlockFacts
  <2>2. QED
        BY <2>1, TagFields
<1>3. ledger' \in Book /\ LedgerGrows
  <2>1. ledger \in Book /\ ledger.rewards[a.then.day] \in Nat
        BY <1>2, BookFields DEF WalletInv
  <2>2. (IF a.snap[LastVisitedDate] # a.then.day THEN ledger.rewards[a.then.day] + 1
         ELSE ledger.rewards[a.then.day]) \in Nat
        BY <2>1
  <2>3. ledger' \in Book
        BY <1>1, <1>2, <2>1, <2>2, BookUpdates
  <2>4. ledger'.allTime = ledger.allTime /\ ledger'.goods = ledger.goods
        BY <1>1, <2>1 DEF Book
  <2>5. QED
        BY <2>1, <2>3, <2>4, BookFields DEF LedgerGrows, Money
<1>4. shelf' = shelf
      BY DEF GotClaimDate, storeVars
<1>5. DatabaseInv(Known(alone, ledger), Blocks)'
  <2>1. PICK K : K = KeyShown(alone)
        OBVIOUS
  <2>2. ClaimCalls(d, a.snap[LastVisitedDate], a.then.day)
            \in Seq(Call(Known(alone, ledger'), Blocks[d]))
        BY <1>2, <1>3, <2>1, ClaimCallsAreCalls
  <2>3. QED
        BY <1>1, <1>3, <1>4, <2>2, ReturnSends DEF ShelfKept
<1>6. SessionInv(KeyShown(alone))'
  <2>1. PICK K : K = KeyShown(alone)
        OBVIOUS
  <2>2. QED
        BY <2>1, SessionStays DEF GotClaimDate
<1>7. WalletInv'
      BY <1>3 DEF GotClaimDate, WalletInv, storeVars
<1>8. QED
      BY <1>5, <1>6, <1>7

LEMMA GotRewardCurrentKeeps ==
    ASSUME NEW alone, Inv(alone), NEW d \in Device, GotRewardCurrent(d)
    PROVE  Inv(alone)'
<1> USE DEF Inv
<1>1. PICK a \in AnswersTo(d, "rewardCurrent") :
            /\ Return(d, a,
                IF a.snap[CurrentLeaves] = Absent THEN <<>>
                ELSE <<SetValue(SetLeaf(CurrentLeaves,
                          PlusTotal(a.snap[CurrentLeaves], a.then.total)))>>)
            /\ ledger' = IF a.snap[CurrentLeaves] = Absent THEN ledger
                         ELSE [ledger EXCEPT !.current = @ + a.then.total]
      BY DEF GotRewardCurrent
<1> DEFINE leaves == a.snap[CurrentLeaves]
           calls == IF leaves = Absent THEN <<>>
                    ELSE <<SetValue(SetLeaf(CurrentLeaves,
                              PlusTotal(leaves, a.then.total)))>>
<1>2. a.then.total \in Nat /\ a.snap \in Patch(Known(alone, ledger), {CurrentLeaves})
  <2>1. /\ a.then \in Tag /\ a.then.op = "rewardCurrent"
        /\ a.snap \in Patch(Known(alone, ledger), Asked(a.then))
        BY BlockFacts
  <2>2. QED
        BY <2>1, TagFields
<1>3. leaves \in Purse \cup {Absent}
      BY <1>2, KnownLeaves DEF Patch
<1>4. ledger' \in Book /\ LedgerGrows
      BY <1>1, <1>2, CurrentChanges, SameLedgerGrows DEF WalletInv
<1>5. calls \in Seq(Call(Known(alone, ledger'), Blocks[d]))
  <2>1. CASE leaves # Absent
    <3>1. PlusTotal(leaves, a.then.total) \in Known(alone, ledger')[CurrentLeaves]
          BY <1>2, <1>3, <2>1, MoneyIsInt, PurseAdds, KnownLeaves DEF PlusTotal
    <3>2. QED
          BY <1>4, <2>1, <3>1, LeavesAreLeaves, OneWrite
  <2>2. CASE leaves = Absent
        BY <2>2, NoCalls
  <2>3. QED
        BY <2>1, <2>2
<1>6. shelf' = shelf
      BY DEF GotRewardCurrent, storeVars
<1>7. DatabaseInv(Known(alone, ledger), Blocks)'
  <2> HIDE DEF calls
  <2>1. Return(d, a, calls)
        BY <1>1 DEF calls
  <2>2. QED
        BY <1>4, <1>5, <1>6, <2>1, ReturnSends DEF ShelfKept
<1>8. SessionInv(KeyShown(alone))'
  <2>1. PICK K : K = KeyShown(alone)
        OBVIOUS
  <2>2. QED
        BY <2>1, SessionStays DEF GotRewardCurrent
<1>9. WalletInv'
      BY <1>4 DEF GotRewardCurrent, WalletInv, storeVars
<1>10. QED
      BY <1>7, <1>8, <1>9

\* Leaves that are added to the total of all times.
LEMMA AllTimeGains ==
    ASSUME WalletInv, NEW amount \in Money, ledger' = [ledger EXCEPT !.allTime = @ + amount]
    PROVE  ledger' \in Book /\ LedgerGrows /\ ledger'.allTime = ledger.allTime + amount
<1>1. ledger \in Book /\ ledger.allTime + amount \in Money
      BY BookFields, MoneyAdds DEF WalletInv
<1>2. ledger' \in Book
      BY <1>1, BookUpdates
<1>3. ledger'.allTime = ledger.allTime + amount /\ ledger'.goods = ledger.goods
      BY <1>1 DEF Book
<1>4. QED
      BY <1>1, <1>2, <1>3, BookFields DEF LedgerGrows, Money

\* They are more than was earned before only if what was read was.
LEMMA AllTimeSum ==
    ASSUME NEW alone, WalletInv, NEW amount \in Money,
           NEW v \in Known(alone, ledger)[AllTimeLeaves], v # Absent,
           ledger'.allTime = ledger.allTime + amount
    PROVE  v + amount \in Known(alone, ledger')[AllTimeLeaves]
<1>1. v \in Money /\ (Quantity \subseteq Nat => v <= ledger.allTime)
      BY KnownLeaves
<1>2. ledger.allTime \in Money
      BY BookFields DEF WalletInv
<1>3. Quantity \subseteq Nat => v + amount <= ledger'.allTime
      BY <1>1, <1>2 DEF Money
<1>4. QED
      BY <1>1, <1>3, MoneyAdds, KnownLeaves

LEMMA GotRewardAllTimeKeeps ==
    ASSUME NEW alone, Inv(alone), NEW d \in Device, GotRewardAllTime(d)
    PROVE  Inv(alone)'
<1> USE DEF Inv
<1>1. PICK a \in AnswersTo(d, "rewardAllTime") :
            /\ Return(d, a,
                IF a.snap[AllTimeLeaves] = Absent THEN <<>>
                ELSE <<SetValue(SetLeaf(AllTimeLeaves,
                          PlusTotal(a.snap[AllTimeLeaves], a.then.total)))>>)
            /\ ledger' = IF a.snap[AllTimeLeaves] = Absent THEN ledger
                         ELSE [ledger EXCEPT !.allTime = @ + a.then.total]
      BY DEF GotRewardAllTime
<1> DEFINE leaves == a.snap[AllTimeLeaves]
           calls == IF leaves = Absent THEN <<>>
                    ELSE <<SetValue(SetLeaf(AllTimeLeaves,
                              PlusTotal(leaves, a.then.total)))>>
<1>2. a.then.total \in Money /\ a.snap \in Patch(Known(alone, ledger), {AllTimeLeaves})
  <2>1. /\ a.then \in Tag /\ a.then.op = "rewardAllTime"
        /\ a.snap \in Patch(Known(alone, ledger), Asked(a.then))
        BY BlockFacts
  <2>2. QED
        BY <2>1, TagFields, MoneyIsInt
<1>3. leaves \in Known(alone, ledger)[AllTimeLeaves]
      BY <1>2 DEF Patch
<1>4. /\ ledger' \in Book /\ LedgerGrows
      /\ leaves # Absent => ledger'.allTime = ledger.allTime + a.then.total
      BY <1>1, <1>2, AllTimeGains, SameLedgerGrows DEF WalletInv
<1>5. calls \in Seq(Call(Known(alone, ledger'), Blocks[d]))
  <2>1. CASE leaves # Absent
    <3>1. PlusTotal(leaves, a.then.total) \in Known(alone, ledger')[AllTimeLeaves]
          BY <1>2, <1>3, <1>4, <2>1, AllTimeSum DEF PlusTotal
    <3>2. QED
          BY <1>4, <2>1, <3>1, LeavesAreLeaves, OneWrite
  <2>2. CASE leaves = Absent
        BY <2>2, NoCalls
  <2>3. QED
        BY <2>1, <2>2
<1>6. shelf' = shelf
      BY DEF GotRewardAllTime, storeVars
<1>7. DatabaseInv(Known(alone, ledger), Blocks)'
  <2> HIDE DEF calls
  <2>1. Return(d, a, calls)
        BY <1>1 DEF calls
  <2>2. QED
        BY <1>4, <1>5, <1>6, <2>1, ReturnSends DEF ShelfKept
<1>8. SessionInv(KeyShown(alone))'
  <2>1. PICK K : K = KeyShown(alone)
        OBVIOUS
  <2>2. QED
        BY <2>1, SessionStays DEF GotRewardAllTime
<1>9. WalletInv'
      BY <1>4 DEF GotRewardAllTime, WalletInv, storeVars
<1>10. QED
      BY <1>7, <1>8, <1>9

LEMMA NextDayKeeps ==
    ASSUME NEW alone, Inv(alone), NextDay
    PROVE  Inv(alone)'
<1> USE DEF Inv
<1>1. ledger' = ledger /\ ShelfKept /\ UNCHANGED dbVars
      BY DEF NextDay, historyVars, storeVars, ShelfKept
<1>2. DatabaseInv(Known(alone, ledger), Blocks)'
      BY <1>1, NothingSent, SameLedgerGrows DEF WalletInv
<1>3. SessionInv(KeyShown(alone))'
  <2>1. PICK K : K = KeyShown(alone)
        OBVIOUS
  <2>2. QED
        BY <2>1, SessionStays DEF NextDay
<1>4. WalletInv'
      BY <1>1, WalletAssumption DEF NextDay, WalletInv, storeVars, Day
<1>5. QED
      BY <1>2, <1>3, <1>4

-----------------------------------------------------------------------------
(* Redeeming recycled objects.                                             *)

LEMMA RedeemButtonPressedKeeps ==
    ASSUME NEW alone, Inv(alone), NEW d \in Device, NEW form \in [Entry -> Quantity],
           RedeemButtonPressed(d, form)
    PROVE  Inv(alone)'
<1> USE DEF Inv
<1> DEFINE t == [op |-> "redeem", leaves |-> Worth(form)]
           get == IF Worth(form) = 0 THEN <<>> ELSE <<GetData(Leaf, t)>>
           C == Call(Known(alone, ledger), Blocks[d])
<1>1. PICK order \in Ascending(Recycled(form)) :
         Dispatch(d,
           [i \in DOMAIN order |->
                SetValue(SetLeaf(History(d, Op(d), order[i]), form[order[i]]))]
           \o get)
      BY DEF RedeemButtonPressed
<1> DEFINE puts == [i \in DOMAIN order |->
                      SetValue(SetLeaf(History(d, Op(d), order[i]), form[order[i]]))]
<1>2. Op(d) \in 1..MaxOps /\ started' \in [Device -> 0..MaxOps]
      BY StartKeeps DEF RedeemButtonPressed
<1>3. order \in Seq(Entry) /\ DOMAIN order = 1..Len(order) /\ Len(order) \in Nat
  <2>1. IsFiniteSet(Recycled(form))
        BY SchemaAssumption, FS_Subset DEF Recycled
  <2>2. order \in Seq(Recycled(form))
        BY <2>1, OrdersAreSequences DEF Ascending
  <2>3. QED
        BY <2>2, SeqMonotonic DEF Recycled
<1>4. puts \in Seq(C)
  <2>1. ASSUME NEW i \in DOMAIN order
        PROVE  SetValue(SetLeaf(History(d, Op(d), order[i]), form[order[i]])) \in C
    <3>1. order[i] \in Entry /\ form[order[i]] \in Int
      <4>1. order[i] \in Entry
            BY <1>3
      <4>2. form[order[i]] \in Quantity
            BY <4>1
      <4>3. QED
            BY <4>1, <4>2, WalletAssumption
    <3>2. History(d, Op(d), order[i]) \in HistoryLeaves
          BY <1>2, <3>1 DEF HistoryLeaves
    <3>3. History(d, Op(d), order[i]) \in Leaf
          BY <3>2 DEF Leaf
    <3>4. form[order[i]] \in Known(alone, ledger)[History(d, Op(d), order[i])]
          BY <3>1, <3>2, KnownLeaves
    <3>5. QED
          BY <3>3, <3>4, KnownAllows, PutLeafIsCall DEF WalletInv
  <2> HIDE DEF C
  <2>2. QED
        BY <1>3, <2>1
<1>5. get \in Seq(C)
  <2>1. t \in Tag /\ Asked(t) = Leaf /\ OnShelf(d, t)
        BY WorthIsMoney DEF Tag, Asked, OnShelf
  <2>2. GetData(Leaf, t) \in C
        BY <2>1, GetOfTag
  <2> HIDE DEF C
  <2>3. QED
        BY <2>2
<1>6. ledger' = ledger /\ shelf' = shelf
      BY DEF RedeemButtonPressed, historyVars, storeVars
<1>7. DatabaseInv(Known(alone, ledger), Blocks)'
  <2> HIDE DEF get, puts, C
  <2>1. puts \o get \in Seq(C)
        BY <1>4, <1>5, ConcatProperties
  <2>2. Dispatch(d, puts \o get)
        BY <1>1 DEF puts
  <2>3. puts \o get \in Seq(Call(Known(alone, ledger'), Blocks[d]))
        BY <1>6, <2>1 DEF C
  <2>4. ledger' \in Book /\ LedgerGrows /\ ShelfKept
        BY <1>6, SameLedgerGrows DEF ShelfKept, WalletInv
  <2>5. QED
        BY <2>2, <2>3, <2>4, DispatchSends
<1>8. SessionInv(KeyShown(alone))'
  <2>1. PICK K : K = KeyShown(alone)
        OBVIOUS
  <2>2. QED
        BY <2>1, SessionStays DEF RedeemButtonPressed
<1>9. WalletInv'
      BY <1>2, <1>6 DEF RedeemButtonPressed, WalletInv, storeVars
<1>10. QED
      BY <1>7, <1>8, <1>9

\* The ledger of a redemption.
LEMMA RedemptionChanges ==
    ASSUME WalletInv, NEW amount \in Money,
           ledger' = [ledger EXCEPT !.current = @ + amount, !.allTime = @ + amount,
                                    !.redeemed = @ + amount]
    PROVE  ledger' \in Book /\ LedgerGrows /\ ledger'.allTime = ledger.allTime + amount
<1>1. /\ ledger \in Book /\ ledger.current \in Int /\ ledger.allTime \in Money
      /\ ledger.redeemed \in Int
      BY BookFields DEF WalletInv
<1>2. /\ ledger.allTime + amount \in Money /\ ledger.current + amount \in Int
      /\ ledger.redeemed + amount \in Int
      BY <1>1, MoneyAdds, MoneyIsInt
<1>3. ledger' \in Book
      BY <1>1, <1>2 DEF Book
<1>4. ledger'.allTime = ledger.allTime + amount /\ ledger'.goods = ledger.goods
      BY <1>1 DEF Book
<1>5. QED
      BY <1>1, <1>3, <1>4, BookFields DEF LedgerGrows, Money

LEMMA GotUserKeeps ==
    ASSUME NEW alone, Inv(alone), NEW d \in Device, GotUser(d)
    PROVE  Inv(alone)'
<1> USE DEF Inv
<1> DEFINE sums(a) == [l \in {CurrentLeaves, AllTimeLeaves} |->
                (IF l = CurrentLeaves THEN a.snap[CurrentLeaves] ELSE a.snap[AllTimeLeaves])
                + a.then.leaves]
<1>1. PICK a \in AnswersTo(d, "redeem") :
        /\ \/ ~Exists(a.snap)
           \/ a.snap[CurrentLeaves] # Absent /\ a.snap[AllTimeLeaves] # Absent
        /\ Return(d, a, IF Exists(a.snap) THEN <<SetValue(sums(a))>> ELSE <<>>)
        /\ ledger' = IF Exists(a.snap)
                     THEN [ledger EXCEPT !.current = @ + a.then.leaves,
                                         !.allTime = @ + a.then.leaves,
                                         !.redeemed = @ + a.then.leaves]
                     ELSE ledger
      BY DEF GotUser
<1> DEFINE calls == IF Exists(a.snap) THEN <<SetValue(sums(a))>> ELSE <<>>
<1>2. a.then.leaves \in Money /\ a.snap \in Patch(Known(alone, ledger), Leaf)
  <2>1. /\ a.then \in Tag /\ a.then.op = "redeem"
        /\ a.snap \in Patch(Known(alone, ledger), Asked(a.then))
        BY BlockFacts
  <2>2. QED
        BY <2>1, TagFields
<1>3. /\ ledger' \in Book /\ LedgerGrows
      /\ Exists(a.snap) => ledger'.allTime = ledger.allTime + a.then.leaves
      BY <1>1, <1>2, RedemptionChanges, SameLedgerGrows DEF WalletInv
<1>4. calls \in Seq(Call(Known(alone, ledger'), Blocks[d]))
  <2> DEFINE H == Known(alone, ledger')
             C == Call(H, Blocks[d])
  <2>1. CASE Exists(a.snap)
    <3>1. /\ a.snap[CurrentLeaves] \in Known(alone, ledger)[CurrentLeaves] \ {Absent}
          /\ a.snap[AllTimeLeaves] \in Known(alone, ledger)[AllTimeLeaves] \ {Absent}
          BY <1>1, <1>2, <2>1, LeavesAreLeaves DEF Patch
    <3>2. a.snap[CurrentLeaves] + a.then.leaves \in H[CurrentLeaves]
          BY <1>2, <3>1, PurseAdds, KnownLeaves
    <3>3. a.snap[AllTimeLeaves] + a.then.leaves \in H[AllTimeLeaves]
          BY <1>2, <1>3, <2>1, <3>1, AllTimeSum
    <3>4. \A l \in {CurrentLeaves, AllTimeLeaves} : sums(a)[l] \in H[l]
          BY <3>2, <3>3, LeavesApart
    <3> HIDE DEF H
    <3>5. sums(a) \in Patch(H, {CurrentLeaves, AllTimeLeaves})
      <4>1. \A l \in Leaf : H[l] \subseteq Value
            BY <1>3, KnownAllows DEF Allows, H
      <4>2. sums(a) \in [{CurrentLeaves, AllTimeLeaves} -> Value]
            BY <3>4, <4>1, LeavesAreLeaves
      <4>3. QED
            BY <3>4, <4>2 DEF Patch
    <3>6. SetValue(sums(a)) \in C
          BY <3>5, LeavesAreLeaves, PatchIsWrite, PutIsCall
    <3> HIDE DEF C, sums
    <3>7. <<SetValue(sums(a))>> \in Seq(C)
          BY <3>6
    <3>8. QED
          BY <2>1, <3>7 DEF C, H
  <2>2. CASE ~Exists(a.snap)
        BY <2>2, NoCalls
  <2>3. QED
        BY <2>1, <2>2
<1>5. shelf' = shelf
      BY DEF GotUser, storeVars
<1>6. DatabaseInv(Known(alone, ledger), Blocks)'
  <2> HIDE DEF calls, sums
  <2>1. Return(d, a, calls)
        BY <1>1 DEF calls
  <2>2. QED
        BY <1>3, <1>4, <1>5, <2>1, ReturnSends DEF ShelfKept
<1>7. SessionInv(KeyShown(alone))'
  <2>1. PICK K : K = KeyShown(alone)
        OBVIOUS
  <2>2. QED
        BY <2>1, SessionStays DEF GotUser
<1>8. WalletInv'
      BY <1>3 DEF GotUser, WalletInv, storeVars
<1>9. QED
      BY <1>6, <1>7, <1>8

-----------------------------------------------------------------------------
(* The invariant.                                                          *)

\* The rows of the history are worth a number.
LEMMA HistoryWorthIsInt ==
    ASSUME \A l \in HistoryLeaves : record[l] \in Int \cup {Absent}
    PROVE  HistoryWorth \in Int
<1> DEFINE earned == [l \in HistoryLeaves |-> OrZero(record[l]) * Points[l[4]]]
           rows == Device \X (1..MaxOps) \X Entry
           f == [r \in rows |-> History(r[1], r[2], r[3])]
<1>1. IsFiniteSet(HistoryLeaves)
  <2>1. IsFiniteSet(1..MaxOps)
    <3>1. 1 \in Int /\ MaxOps \in Int
          BY SchemaAssumption
    <3>2. QED
          BY <3>1, FS_Interval
  <2>2. IsFiniteSet((Device \X (1..MaxOps)) \X Entry)
        BY <2>1, SchemaAssumption, FS_Product
  <2> DEFINE pairs == (Device \X (1..MaxOps)) \X Entry
             g == [r \in pairs |-> History(r[1][1], r[1][2], r[2])]
  <2>3. g \in Surjection(pairs, HistoryLeaves)
    <3>1. g \in [pairs -> HistoryLeaves]
          BY DEF HistoryLeaves
    <3>2. ASSUME NEW l \in HistoryLeaves
          PROVE  \E r \in pairs : g[r] = l
      <4>1. PICK d \in Device, n \in 1..MaxOps, e \in Entry : l = History(d, n, e)
            BY DEF HistoryLeaves
      <4>2. <<<<d, n>>, e>> \in pairs /\ g[<<<<d, n>>, e>>] = l
            BY <4>1
      <4>3. QED
            BY <4>2
    <3>3. QED
          BY <3>1, <3>2 DEF Surjection
  <2> HIDE DEF pairs, g
  <2>4. QED
        BY <2>2, <2>3, FS_Surjection DEF pairs
<1>2. earned \in [HistoryLeaves -> Int]
  <2>1. ASSUME NEW l \in HistoryLeaves
        PROVE  OrZero(record[l]) * Points[l[4]] \in Int
    <3>1. PICK d \in Device, n \in 1..MaxOps, e \in Entry : l = History(d, n, e)
          BY DEF HistoryLeaves
    <3>2. l[4] = e
          BY <3>1 DEF History
    <3>3. Points[l[4]] \in Int
          BY <3>2, SchemaAssumption
    <3>4. OrZero(record[l]) \in Int
          BY DEF OrZero
    <3>5. QED
          BY <3>3, <3>4
  <2>2. QED
        BY <2>1
<1>3. HistoryWorth = Cardinality(Pairs(HistoryLeaves, earned))
      BY DEF HistoryWorth, Pairs
<1> HIDE DEF earned
<1>4. QED
      BY <1>1, <1>2, <1>3, PairsAreFinite

\* A record there may be at the beginning has values of their types.
LEMMA OpeningIsGood ==
    ASSUME NEW opening \in Openings
    PROVE  opening \in [Leaf -> Value] /\ \A l \in Leaf : opening[l] \in Good(l)
<1>1. /\ opening \in [Leaf -> Value]
      /\ WellTyped(opening) /\ Stocked(opening)
      /\ Quantity \subseteq Nat => Funded(opening)
      BY UsersAssumption, WalletAssumption
<1>2. ASSUME NEW l \in Leaf
      PROVE  opening[l] \in Good(l)
  <2>1. opening[l] \in ValueAt(l) \cup {Absent}
        BY <1>1 DEF WellTyped
  <2>2. CASE l \in {CurrentLeaves, AllTimeLeaves}
    <3>1. opening[l] \in Int \cup {Absent}
          BY <2>1, <2>2 DEF ValueAt, CurrentLeaves, AllTimeLeaves
    <3>2. opening[l] \in Money \cup {Absent}
          BY <1>1, <2>2, <3>1 DEF Funded, Money
    <3>3. QED
          BY <2>2, <3>2, GoodLeaves, PurseIsInt
  <2>3. CASE l \in InventoryLeaves
    <3>1. PICK k \in Key : l = Inventory(k)
          BY <2>3 DEF InventoryLeaves
    <3>2. opening[l] \in Int \cup {Absent}
          BY <2>1, <3>1 DEF ValueAt, Inventory
    <3>3. opening[l] \in (Nat \ {0}) \cup {Absent}
          BY <1>1, <3>1, <3>2 DEF Stocked
    <3>4. QED
          BY <3>1, <3>3, GoodLeaves
  <2>4. CASE l \in Profile \ {CurrentLeaves, AllTimeLeaves}
    <3>1. opening[l] \in Int \cup {Absent}
          BY <2>1, <2>4 DEF ValueAt, Profile, DisplayName, LastVisitedDate,
             OnLeaderboard, Avatar, Notifications
    <3>2. QED
          BY <2>4, <3>1, GoodLeaves
  <2>5. CASE l \in ActiveLeaves
        BY <2>1, <2>5 DEF ActiveLeaves, ActiveList, ActiveItem, ValueAt, Good
  <2>6. CASE l \in HistoryLeaves
        BY <2>1, <2>6 DEF HistoryLeaves, History, ValueAt, Good
  <2>7. QED
        BY <2>2, <2>3, <2>4, <2>5, <2>6 DEF Leaf
<1>3. QED
      BY <1>1, <1>2

LEMMA InitHolds ==
    ASSUME NEW alone, WalletInit
    PROVE  Inv(alone)
<1>1. PICK opening \in Openings : SessionInit(opening)
      BY DEF WalletInit, UsersInit
<1>2. opening \in [Leaf -> Value] /\ \A l \in Leaf : opening[l] \in Good(l)
      BY OpeningIsGood
<1>3. record = opening
      BY <1>1 DEF SessionInit, DatabaseInit
<1>4. ledger \in Book
  <2>1. /\ record[CurrentLeaves] \in Purse \cup {Absent}
        /\ record[AllTimeLeaves] \in Money \cup {Absent}
        /\ \A k \in Key : record[Inventory(k)] \in Nat \cup {Absent}
        BY <1>2, <1>3, LeavesAreLeaves, GoodLeaves
  <2>2. /\ OrZero(record[CurrentLeaves]) \in Int
        /\ OrZero(record[AllTimeLeaves]) \in Money
        /\ \A k \in Key : OrZero(record[Inventory(k)]) \in Nat
        BY <2>1, MoneyIsInt, PurseIsInt DEF OrZero
  <2>3. HistoryWorth \in Int
    <3>1. ASSUME NEW l \in HistoryLeaves
          PROVE  record[l] \in Int \cup {Absent}
      <4>1. PICK d \in Device, n \in 1..MaxOps, e \in Entry : l = History(d, n, e)
            BY DEF HistoryLeaves
      <4>2. l \in Leaf
            BY DEF Leaf
      <4>3. QED
            BY <1>2, <1>3, <4>1, <4>2, GoodLeaves
    <3>2. QED
          BY <3>1, HistoryWorthIsInt
  <2>4. QED
        BY <2>2, <2>3 DEF WalletInit, Book
<1>5. opening \in Patch(Known(alone, ledger), Leaf)
  <2>1. ASSUME NEW l \in Leaf, opening[l] # Absent
        PROVE  Backed(alone, ledger, l, opening[l])
    <3>1. ASSUME l = AllTimeLeaves
          PROVE  opening[l] <= ledger.allTime
      <4>1. opening[l] \in Money
            BY <1>2, <2>1, <3>1, GoodLeaves
      <4>2. ledger.allTime = opening[l]
            BY <1>3, <2>1, <3>1 DEF WalletInit, OrZero
      <4>3. opening[l] \in Int
            BY <4>1, MoneyIsInt
      <4>4. QED
            BY <4>2, <4>3
    <3>2. ASSUME NEW k \in Key, l = Inventory(k)
          PROVE  opening[l] <= ledger.goods[k]
      <4>1. opening[l] \in Nat
            BY <1>2, <2>1, <3>2, GoodLeaves
      <4>2. ledger.goods[k] = opening[l]
            BY <1>3, <2>1, <3>2 DEF WalletInit, OrZero
      <4>3. QED
            BY <4>1, <4>2
    <3>3. QED
          BY <3>1, <3>2 DEF Backed
  <2>2. QED
        BY <1>2, <2>1 DEF Patch, Known
<1>6. DatabaseInv(Known(alone, ledger), Blocks) /\ SessionInv(KeyShown(alone))
      BY <1>1, <1>5, SessionInitHolds
<1>7. WalletInv
      BY <1>4, SchemaAssumption, WalletAssumption DEF WalletInit, UsersInit, WalletInv, Day
<1>8. QED
      BY <1>6, <1>7 DEF Inv

\* Steps of the client library, the server, the network and the system.
LEMMA EnvironmentStays ==
    ASSUME NEW alone, Inv(alone), NEW d \in Device, EnvironmentStep(d), UNCHANGED walletVars
    PROVE  Inv(alone)'
BY EnvironmentKeeps, OthersKeep

\* Steps of the login screen and of the leaderboard.
LEMMA LoginStays ==
    ASSUME NEW alone, Inv(alone), NEW d \in Device, DidSignIn(d) \/ SessionAnswer(d),
           UNCHANGED walletVars
    PROVE  Inv(alone)'
BY DidSignInKeeps, SessionAnswerKeeps, OthersKeep

\* A process that ends, by a runtime error or by the system's hand.
LEMMA EndStays ==
    ASSUME NEW alone, Inv(alone), NEW d \in Device, AppEnds(d), UNCHANGED walletVars
    PROVE  Inv(alone)'
BY AppEndsKeeps, OthersKeep

\* Steps of the wallet itself.
LEMMA WalletStepKeeps ==
    ASSUME NEW alone, Inv(alone), NEW d \in Device,
           StoreStep(d) \/ RewardStep(d) \/ RedeemStep(d)
    PROVE  Inv(alone)'
<1>1. CASE CrashOnNilLeaves(d) \/ CrashOnPartialUser(d)
      BY <1>1, EndStays DEF CrashOnNilLeaves, CrashOnPartialUser, Crash
<1>2. CASE StoreStep(d) /\ ~CrashOnNilLeaves(d)
      BY <1>2, BuyOnClickKeeps, CellForRowKeeps, GotBuyLeavesKeeps, DeliverKeeps,
         RefuseKeeps DEF StoreStep
<1>3. CASE RewardStep(d)
      BY <1>3, ClaimOnClickKeeps, GotClaimDateKeeps, GotRewardCurrentKeeps,
         GotRewardAllTimeKeeps DEF RewardStep
<1>4. CASE RedeemStep(d) /\ ~CrashOnPartialUser(d)
      BY <1>4, RedeemButtonPressedKeeps, GotUserKeeps DEF RedeemStep
<1>5. QED
      BY <1>1, <1>2, <1>3, <1>4

LEMMA NextHolds ==
    ASSUME Inv(TRUE), [WalletNext]_vars
    PROVE  Inv(TRUE)'
<1>1. CASE NextDay
      BY <1>1, NextDayKeeps
<1>2. CASE UNCHANGED vars
  <2>1. UNCHANGED walletVars /\ UNCHANGED dbVars /\ UNCHANGED sessionVars
        BY <1>2 DEF vars
  <2>2. ASSUME NEW G, NEW B, NEW K, DatabaseInv(G, B), SessionInv(K)
        PROVE  DatabaseInv(G, B)' /\ SessionInv(K)'
        BY <2>1, <2>2, SessionStays DEF DatabaseInv, dbVars, clientVars
  <2>3. QED
        BY <2>1, <2>2, OthersKeep
<1>3. ASSUME NEW d \in Device, StoreStep(d) \/ RewardStep(d) \/ RedeemStep(d)
      PROVE  Inv(TRUE)'
      BY <1>3, WalletStepKeeps
<1>4. QED
      BY <1>1, <1>2, <1>3, LoginStays, EnvironmentStays DEF WalletNext

\* Every number that can reach the record is one that may be in it, and no more
\* than was earned or delivered by then.
THEOREM InvHolds == WalletSpec => []Inv(TRUE)
<1>1. WalletInit => Inv(TRUE)
      BY InitHolds
<1>2. Inv(TRUE) /\ [WalletNext]_vars => Inv(TRUE)'
      BY NextHolds
<1>3. QED
      BY <1>1, <1>2, PTL DEF WalletSpec

\* What is at a leaf of the record.
LEMMA RecordIsKnown ==
    ASSUME NEW alone, Inv(alone), NEW l \in Leaf
    PROVE  record[l] \in Known(alone, ledger)[l]
BY DEF Inv, DatabaseInv, Patch

\* Values that may be at leaves have the types of the casts.
LEMMA WriteIsTyped ==
    ASSUME NEW alone, NEW book, NEW w \in Write(Known(alone, book))
    PROVE  DOMAIN w \subseteq Leaf /\ WellTyped(w)
<1>1. DOMAIN w \subseteq Leaf /\ \A l \in DOMAIN w : w[l] \in Known(alone, book)[l]
      BY WriteValues
<1>2. \A l \in DOMAIN w : w[l] \in ValueAt(l) \cup {Absent}
      BY <1>1, GoodIsTyped DEF Known
<1>3. QED
      BY <1>1, <1>2 DEF WellTyped

LEMMA InvIsTyped ==
    ASSUME Inv(TRUE)
    PROVE  TypeOK
<1> DEFINE G == Known(TRUE, ledger)
<1>1. record \in [Leaf -> Value] /\ WellTyped(record)
  <2>1. record \in Patch(G, Leaf)
        BY DEF Inv, DatabaseInv
  <2>2. QED
        BY <2>1, PatchIsWrite, WriteIsTyped DEF Patch
<1>2. ASSUME NEW d \in Device, NEW i \in DOMAIN pending[d]
      PROVE  DOMAIN pending[d][i] \subseteq Leaf /\ WellTyped(pending[d][i])
  <2>1. pending[d] \in Seq(Write(G))
        BY DEF Inv, DatabaseInv
  <2>2. pending[d][i] \in Write(G)
    <3> HIDE DEF G
    <3>1. QED
          BY <2>1, ElementOfSeq, LenProperties
  <2>3. QED
        BY <2>2, WriteIsTyped
<1>3. ASSUME NEW d \in Device, cache[d] # Absent
      PROVE  WellTyped(cache[d])
  <2>1. cache[d] \in Patch(G, Leaf)
        BY <1>3 DEF Inv, DatabaseInv
  <2>2. QED
        BY <2>1, PatchIsWrite, WriteIsTyped
<1>4. ASSUME NEW d \in Device, NEW i \in DOMAIN inventoryItems[d]
      PROVE  inventoryItems[d][i].key \in Key /\ inventoryItems[d][i].count \in Int
  <2>1. inventoryItems[d] \in Seq(HeldRow(Key))
        BY DEF Inv, SessionInv, KeyShown
  <2>2. inventoryItems[d][i] \in HeldRow(Key)
        BY <2>1
  <2>3. QED
        BY <2>2 DEF HeldRow
<1>5. ASSUME NEW d \in Device, NEW i \in DOMAIN activeItems[d]
      PROVE  activeItems[d][i].key \in Key
  <2>1. activeItems[d] \in Seq(PlacedRow)
        BY DEF Inv, SessionInv
  <2>2. activeItems[d][i] \in PlacedRow
        BY <2>1
  <2>3. QED
        BY <2>2 DEF PlacedRow
<1>6. QED
      BY <1>1, <1>2, <1>3, <1>4, <1>5 DEF TypeOK, Inv, SessionInv, WalletInv

LEMMA InvIsSolvent ==
    ASSUME NEW alone, Inv(alone)
    PROVE  Solvent
<1> SUFFICES ASSUME Quantity \subseteq Nat,
                    NEW l \in {CurrentLeaves, AllTimeLeaves}, record[l] # Absent
             PROVE  \/ record[l] >= 0
                    \/ /\ Reuse /\ l = CurrentLeaves
                       /\ \E j, k \in Key : record[l] >= Cost[j] - Cost[k]
    BY DEF Solvent
<1>1. record[l] \in Known(alone, ledger)[l]
      BY LeavesAreLeaves, RecordIsKnown
<1>2. CASE l = CurrentLeaves
  <2>1. record[l] \in Purse
        BY <1>1, <1>2, KnownLeaves
  <2>2. QED
        BY <1>2, <2>1 DEF Purse
<1>3. CASE l = AllTimeLeaves
  <2>1. record[l] \in Money
        BY <1>1, <1>3, KnownLeaves
  <2>2. QED
        BY <2>1 DEF Money
<1>4. QED
      BY <1>2, <1>3

LEMMA InvIsInStock ==
    ASSUME NEW alone, Inv(alone)
    PROVE  InStock
<1> SUFFICES ASSUME NEW k \in Key, record[Inventory(k)] # Absent
             PROVE  record[Inventory(k)] >= 1
    BY DEF InStock, Stocked
<1>1. record[Inventory(k)] \in Known(alone, ledger)[Inventory(k)]
      BY LeavesAreLeaves, RecordIsKnown
<1>2. record[Inventory(k)] \in Nat \ {0}
      BY <1>1, KnownLeaves
<1>3. QED
      BY <1>2

LEMMA InvIsEarned ==
    ASSUME NEW alone, Inv(alone)
    PROVE  AllTimeIsEarned
<1> SUFFICES ASSUME Quantity \subseteq Nat
             PROVE  OrZero(record[AllTimeLeaves]) <= ledger.allTime
    BY DEF AllTimeIsEarned
<1>1. record[AllTimeLeaves] \in Known(alone, ledger)[AllTimeLeaves]
      BY LeavesAreLeaves, RecordIsKnown
<1>2. ledger.allTime \in Nat
      BY BookFields DEF Inv, WalletInv, Money
<1>3. record[AllTimeLeaves] = Absent \/ record[AllTimeLeaves] <= ledger.allTime
      BY <1>1, KnownLeaves
<1>4. QED
      BY <1>2, <1>3 DEF OrZero

\* The record and all that is written to it have the types that the casts of
\* the view controllers expect, for any devices, items, forms and openings.
THEOREM TypesAreCorrect == WalletSpec => []TypeOK
<1>1. Inv(TRUE) => TypeOK
      BY InvIsTyped
<1>2. QED
      BY <1>1, InvHolds, PTL

\* Whatever the devices do and however they overlap, the wallet is not overdrawn
\* while cells keep their items, and never by more than the difference of two
\* prices, however many purchases there are, if no quantity is below zero
\* (StoreTableViewCell.swift:47 checks a number that was read, :48 deducts the
\* price of the item that the cell shows by then).
THEOREM NeverOverdrawn == WalletSpec => []Solvent
<1>1. Inv(TRUE) => Solvent
      BY InvIsSolvent
<1>2. QED
      BY <1>1, InvHolds, PTL

\* No inventory entry is left with a count of zero or less by purchases
\* (StoreTableViewCell.swift:68, 84).
THEOREM AlwaysInStock == WalletSpec => []InStock
<1>1. Inv(TRUE) => InStock
      BY InvIsInStock
<1>2. QED
      BY <1>1, InvHolds, PTL

\* The total that the leaderboard ranks by is never more than was earned: the
\* overlapping chains that read, add and write it lose gains and invent none
\* (GameViewController.swift:154, ManualEntryViewController.swift:220).
THEOREM NothingUnearned == WalletSpec => []AllTimeIsEarned
<1>1. Inv(TRUE) => AllTimeIsEarned
      BY InvIsEarned
<1>2. QED
      BY <1>1, InvHolds, PTL

\* The inventory never holds more of an item than was there at first and
\* delivered since, as long as cells keep their items
\* (StoreTableViewCell.swift:68, 84).
THEOREM NothingUnbought == WalletSpec => []StockIsBought
<1>1. Inv(TRUE) => StockIsBought
  <2> SUFFICES ASSUME Inv(TRUE), ~Reuse, NEW k \in Key
               PROVE  OrZero(record[Inventory(k)]) <= ledger.goods[k]
      BY DEF StockIsBought
  <2>1. record[Inventory(k)] \in Known(TRUE, ledger)[Inventory(k)]
        BY LeavesAreLeaves, RecordIsKnown
  <2>2. ledger.goods[k] \in Nat
        BY BookFields DEF Inv, WalletInv
  <2>3. record[Inventory(k)] = Absent \/ record[Inventory(k)] <= ledger.goods[k]
        BY <2>1, KnownLeaves
  <2>4. QED
        BY <2>2, <2>3 DEF OrZero
<1>2. QED
      BY <1>1, InvHolds, PTL
=============================================================================
