------------------------------ MODULE LandProofs ------------------------------
(***************************************************************************)
(* The land keeps its types: what it writes to the record, what it asks,   *)
(* and the rows and coordinates of the app's lists.                        *)
(*                                                                         *)
(* As in ClientProofs the lemmas about the actions leave open which values *)
(* the leaves may have besides (G) and which other blocks there are (B),   *)
(* so that they hold of Land by itself and of the whole app alike.         *)
(***************************************************************************)
EXTENDS Land, ClientProofs, WellFoundedInduction

\* Any count above zero and any coordinate may be written.
LandAllows(G) ==
    /\ Allows(G)
    /\ \A k \in Key : G[Inventory(k)] = (Nat \ {0}) \cup {Absent}
    /\ \A l \in ActiveLeaves : G[l] = Coordinate \cup {Absent}

\* The blocks of the land: what they have captured, and what they ask for.
LandAsks(B) ==
    /\ Asks(B)
    /\ \A d \in Device, k \in Key, c \in Coordinate :
          LET place == [op |-> "placeActive", key |-> k, at |-> c]
              count == [op |-> "placeInventory", key |-> k]
          IN  /\ place \in DOMAIN B[d] /\ B[d][place] = ActiveList(k)
              /\ count \in DOMAIN B[d] /\ B[d][count] = {Inventory(k)}
    /\ \A d \in Device, k \in Key \cup {Absent}, c \in Coordinate :
          LET clear == [op |-> "removeActive", key |-> k, at |-> c]
              count == [op |-> "removeInventory", key |-> k]
          IN  /\ clear \in DOMAIN B[d]
              /\ B[d][clear] = IF k = Absent THEN ActiveLeaves ELSE ActiveList(k)
              /\ count \in DOMAIN B[d]
              /\ B[d][count] = IF k = Absent THEN InventoryLeaves ELSE {Inventory(k)}
    /\ \A d \in Device : \A t \in DOMAIN B[d] :
          /\ t.op = "placeActive" => t.key \in Key /\ t.at \in Coordinate
                /\ B[d][t] = ActiveList(t.key)
          /\ t.op = "placeInventory" => t.key \in Key /\ B[d][t] = {Inventory(t.key)}
          /\ t.op = "removeActive" /\ t.key # Absent => t.key \in Key
                /\ B[d][t] = ActiveList(t.key)
          /\ t.op = "removeInventory" /\ t.key # Absent => t.key \in Key
                /\ B[d][t] = {Inventory(t.key)}

\* An item taken back may have no key.
KeyOrNone == Key \cup {Absent}

LandInv ==
    /\ grid \in [Device -> {NoGrid} \cup [key : Key, free : SUBSET Coordinate]]
    /\ deeds \in [Key -> Nat]
    /\ started \in [Device -> 0..MaxOps]

\* The invariant of the land among any values and blocks.
LandAmong(G, B) == DatabaseInv(G, B) /\ SessionInv(KeyOrNone) /\ LandInv

-----------------------------------------------------------------------------
(* Sequences.                                                              *)

\* A set of natural numbers has a least one.
LEMMA Least ==
    ASSUME NEW T, T \subseteq Nat, T # {}
    PROVE  \E x \in T : \A y \in T : x <= y
<1> DEFINE R == OpToRel(<, Nat)
<1>1. IsWellFoundedOn(R, Nat)
      BY NatLessThanWellFounded
<1>2. R = {p \in Nat \X Nat : p[1] < p[2]}
      BY DEF OpToRel
<1> HIDE DEF R
<1>3. PICK x \in T : \A y \in T : ~ (<<y, x>> \in R)
      BY <1>1, WFMin
<1>4. ASSUME NEW y \in T
      PROVE  x <= y
  <2>1. x \in Nat /\ y \in Nat
        OBVIOUS
  <2>2. ~(y < x)
        BY <1>2, <1>3, <2>1
  <2>3. QED
        BY <2>1, <2>2
<1>5. QED
      BY <1>4

\* The largest of some positions is one of them.
LEMMA MaxInSet ==
    ASSUME NEW n \in Nat, NEW S, S \subseteq 1..n, S # {}
    PROVE  Seqs!Max(S) \in S
<1> DEFINE T == {n - x : x \in S}
<1>1. \A x \in S : x \in Int /\ n - x \in Nat
      OBVIOUS
<1>2. T \subseteq Nat /\ T # {}
      BY <1>1
<1>3. PICK t \in T : \A y \in T : t <= y
      BY <1>2, Least
<1>4. PICK x \in S : t = n - x
      BY <1>3
<1>5. ASSUME NEW y \in S
      PROVE  x >= y
  <2>1. t <= n - y
        BY <1>3
  <2>2. QED
        BY <1>1, <1>4, <2>1
<1>6. QED
      BY <1>5 DEF Seqs!Max

\* Removing one element.
LEMMA RemoveAtIs ==
    ASSUME NEW C, NEW s \in Seq(C), NEW i \in 1..Len(s)
    PROVE  Seqs!RemoveAt(s, i) \in Seq(C)
<1>1. Len(s) \in Nat /\ i \in Int /\ i - 1 \in Int /\ i + 1 \in Int /\ 1 \in Int /\ Len(s) \in Int
      BY LenProperties
<1>2. \A j \in 1..(i - 1) : s[j] \in C
      BY <1>1, ElementOfSeq
<1>3. \A j \in (i + 1)..Len(s) : s[j] \in C
      BY <1>1, ElementOfSeq
<1>4. SubSeq(s, 1, i - 1) \in Seq(C) /\ SubSeq(s, i + 1, Len(s)) \in Seq(C)
      BY <1>1, <1>2, <1>3, SubSeqProperties
<1>5. QED
      BY <1>4, ConcatProperties DEF Seqs!RemoveAt

\* Without the last of some elements.
LEMMA RemoveLastIs ==
    ASSUME NEW C, NEW s \in Seq(C), NEW S, S \subseteq DOMAIN s, S # {}
    PROVE  Seqs!RemoveAt(s, Seqs!Max(S)) \in Seq(C)
<1>1. DOMAIN s = 1..Len(s) /\ Len(s) \in Nat
      BY LenProperties
<1>2. Seqs!Max(S) \in 1..Len(s)
      BY <1>1, MaxInSet
<1>3. QED
      BY <1>2, RemoveAtIs

\* A sequence computed element by element.
LEMMA MappedIs ==
    ASSUME NEW C, NEW D, NEW s \in Seq(C), NEW t, DOMAIN t = DOMAIN s,
           t = [i \in DOMAIN s |-> t[i]], \A i \in DOMAIN s : t[i] \in D
    PROVE  t \in Seq(D)
<1>1. DOMAIN s = 1..Len(s) /\ Len(s) \in Nat
      BY LenProperties
<1>2. QED
      BY <1>1, SeqDef

-----------------------------------------------------------------------------
(* The local lists.                                                        *)

\* A row of the inventory.
LEMMA RowFacts ==
    ASSUME NEW K, NEW k \in K, NEW n \in Nat \ {0}
    PROVE  /\ InventoryRow(k, n) \in HeldRow(K)
           /\ \A row \in HeldRow(K) : row.key \in K /\ row.count \in Nat \ {0}
BY DEF InventoryRow, HeldRow

\* An item that is placed goes out of the inventory.
LEMMA OneLessIs ==
    ASSUME NEW K, NEW rows \in Seq(HeldRow(K)), NEW k \in K
    PROVE  OneLess(rows, k) \in Seq(HeldRow(K))
<1> DEFINE rest == [i \in DOMAIN rows |->
                       IF rows[i].key = k /\ rows[i].count # 1
                       THEN InventoryRow(k, rows[i].count - 1) ELSE rows[i]]
           last == {i \in DOMAIN rows : rows[i] = InventoryRow(k, 1)}
<1>1. ASSUME NEW i \in DOMAIN rows
      PROVE  rest[i] \in HeldRow(K)
  <2>1. rows[i] \in HeldRow(K)
        BY ElementOfSeq, LenProperties
  <2>2. rows[i].count \in Nat \ {0}
        BY <2>1, RowFacts DEF HeldRow
  <2>3. rows[i].count # 1 => rows[i].count - 1 \in Nat \ {0}
        BY <2>2
  <2>4. QED
        BY <2>1, <2>3, RowFacts
<1>2. rest \in Seq(HeldRow(K))
      BY <1>1, MappedIs
<1>3. last # {} => Seqs!RemoveAt(rest, Seqs!Max(last)) \in Seq(HeldRow(K))
  <2>1. last \subseteq DOMAIN rest
        OBVIOUS
  <2> HIDE DEF rest, last
  <2>2. QED
        BY <1>2, <2>1, RemoveLastIs
<1>4. QED
      BY <1>2, <1>3 DEF OneLess

\* An item that is taken back comes into it.
LEMMA GivenBackIs ==
    ASSUME NEW K, NEW rows \in Seq(HeldRow(K)), NEW k \in K
    PROVE  GivenBack(rows, k) \in Seq(HeldRow(K))
<1> DEFINE more == [i \in DOMAIN rows |-> IF rows[i].key = k /\ rows[i].count > 1
                                THEN InventoryRow(k, rows[i].count + 1) ELSE rows[i]]
<1>1. ASSUME NEW i \in DOMAIN rows
      PROVE  more[i] \in HeldRow(K)
  <2>1. rows[i] \in HeldRow(K)
        BY ElementOfSeq, LenProperties
  <2>2. rows[i].count \in Nat \ {0}
        BY <2>1, RowFacts DEF HeldRow
  <2>3. rows[i].count + 1 \in Nat \ {0}
        BY <2>2
  <2>4. QED
        BY <2>1, <2>3, RowFacts
<1>2. more \in Seq(HeldRow(K))
      BY <1>1, MappedIs
<1>3. InventoryRow(k, 1) \in HeldRow(K)
      BY RowFacts
<1>4. Append(rows, InventoryRow(k, 1)) \in Seq(HeldRow(K))
      BY <1>3, AppendProperties
<1>5. QED
      BY <1>2, <1>4 DEF GivenBack

\* An entry of the active items.
LEMMA EntryFacts ==
    /\ \A entry \in PlacedRow : entry.key \in Key /\ entry.coordinates \in Seq(Coordinate)
    /\ \A k \in Key, list \in Seq(Coordinate) : ActiveEntry(k, list) \in PlacedRow
BY DEF PlacedRow, ActiveEntry

\* What stands on a coordinate is an item.
LEMMA KeyAtIs ==
    ASSUME NEW entries \in Seq(PlacedRow), NEW c
    PROVE  KeyAt(entries, c) \in KeyOrNone
<1> DEFINE on == {i \in DOMAIN entries : c \in Seqs!ToSet(entries[i].coordinates)}
<1>1. CASE on = {}
      BY <1>1 DEF KeyAt, KeyOrNone
<1>2. CASE on # {}
  <2>1. DOMAIN entries = 1..Len(entries) /\ Len(entries) \in Nat
        BY LenProperties
  <2>2. Seqs!Max(on) \in on
    <3>1. on \subseteq 1..Len(entries)
          BY <2>1
    <3> HIDE DEF on
    <3>2. QED
          BY <1>2, <2>1, <3>1, MaxInSet
  <2>3. entries[Seqs!Max(on)] \in PlacedRow
        BY <2>1, <2>2, ElementOfSeq
  <2>4. QED
        BY <1>2, <2>3, EntryFacts DEF KeyAt, KeyOrNone
<1>3. QED
      BY <1>1, <1>2

LEMMA WithoutIs ==
    ASSUME NEW list \in Seq(Coordinate), NEW c
    PROVE  Without(list, c) \in Seq(Coordinate)
<1> DEFINE on == {i \in DOMAIN list : list[i] = c}
<1>1. on \subseteq DOMAIN list
      OBVIOUS
<1>2. on # {} => Seqs!RemoveAt(list, Seqs!Max(on)) \in Seq(Coordinate)
  <2> HIDE DEF on
  <2>1. QED
        BY <1>1, RemoveLastIs
<1>3. QED
      BY <1>2 DEF Without

\* A coordinate is given up.
LEMMA ClearedIs ==
    ASSUME NEW entries \in Seq(PlacedRow), NEW c
    PROVE  Cleared(entries, c) \in Seq(PlacedRow)
<1> DEFINE t == Cleared(entries, c)
<1>1. ASSUME NEW i \in DOMAIN entries
      PROVE  t[i] \in PlacedRow
  <2>1. entries[i] \in PlacedRow
        BY ElementOfSeq, LenProperties
  <2>2. QED
        BY <2>1, EntryFacts, WithoutIs DEF Cleared
<1>2. DOMAIN t = DOMAIN entries /\ t = [i \in DOMAIN entries |-> t[i]]
      BY DEF Cleared
<1>3. QED
      BY <1>1, <1>2, MappedIs

\* A coordinate is taken.
LEMMA ExtendedIs ==
    ASSUME NEW entries \in Seq(PlacedRow), NEW k \in Key, NEW c \in Coordinate
    PROVE  Extended(entries, k, c) \in Seq(PlacedRow) /\ Settle(entries, k, c) \in Seq(PlacedRow)
<1> DEFINE t == Extended(entries, k, c)
<1>1. ASSUME NEW i \in DOMAIN entries
      PROVE  t[i] \in PlacedRow
  <2>1. entries[i] \in PlacedRow
        BY ElementOfSeq, LenProperties
  <2>2. Append(entries[i].coordinates, c) \in Seq(Coordinate)
        BY <2>1, EntryFacts, AppendProperties
  <2>3. QED
        BY <2>1, <2>2, EntryFacts DEF Extended
<1>2. DOMAIN t = DOMAIN entries /\ t = [i \in DOMAIN entries |-> t[i]]
      BY DEF Extended
<1>3. t \in Seq(PlacedRow)
      BY <1>1, <1>2, MappedIs
<1>4. <<c>> \in Seq(Coordinate)
      OBVIOUS
<1>5. Settle(entries, k, c) \in Seq(PlacedRow)
      BY <1>4, EntryFacts, AppendProperties DEF Settle
<1>6. QED
      BY <1>3, <1>5

-----------------------------------------------------------------------------
(* Calls.                                                                  *)

\* What is written when an item leaves a list: the list is removed, and the
\* entries that stay are written at the first places.
LEMMA RewriteIs ==
    ASSUME NEW G, NEW b, LandAllows(G), NEW k \in Key, NEW list \in Seq(Coordinate),
           Len(list) <= MaxIndex + 1, NEW c, NEW rest \in Ascending(Staying(list, c))
    PROVE  Rewrite(k, list, rest) \in Seq(Call(G, b))
<1> DEFINE C == Call(G, b)
           removed == [l \in ActiveList(k) |-> Absent]
           puts == [i \in DOMAIN rest |->
                       SetValue(SetLeaf(ActiveItem(k, i - 1), list[rest[i]]))]
<1>1. Len(list) \in Nat /\ DOMAIN list = 1..Len(list) /\ MaxIndex \in Nat
      BY LenProperties, SchemaAssumption
<1>2. ActiveList(k) \subseteq ActiveLeaves /\ ActiveList(k) \subseteq Leaf
      BY LeavesAreLeaves DEF ActiveLeaves
<1>3. SetValue(removed) \in C
  <2>1. removed \in Patch(G, ActiveList(k))
        BY <1>2 DEF Patch, Value, LandAllows, Allows
  <2>2. QED
        BY <1>2, <2>1, PatchIsWrite, PutIsCall
<1>4. /\ rest \in Seq(Staying(list, c))
      /\ DOMAIN rest = 1..Len(rest) /\ Len(rest) \in Nat /\ Len(rest) <= Len(list)
  <2>1. IsFiniteSet(1..Len(list)) /\ Cardinality(1..Len(list)) = Len(list)
    <3>1. \A n \in Nat : IsFiniteSet(1..n) /\ Cardinality(1..n) = n
      <4>1. ASSUME NEW n \in Nat
            PROVE  IsFiniteSet(1..n) /\ Cardinality(1..n) = n
        <5>1. 1 \in Int /\ n \in Int
              OBVIOUS
        <5>2. QED
              BY <5>1, FS_Interval
      <4>2. QED
            BY <4>1
    <3>2. QED
          BY <1>1, <3>1
  <2>2. Staying(list, c) \subseteq 1..Len(list)
        BY <1>1 DEF Staying
  <2>3. /\ IsFiniteSet(Staying(list, c)) /\ Cardinality(Staying(list, c)) \in Nat
        /\ Cardinality(Staying(list, c)) <= Len(list)
        BY <2>1, <2>2, FS_Subset, FS_CardinalityType
  <2>4. rest \in Orders(Staying(list, c))
        BY DEF Ascending
  <2>5. DOMAIN rest = 1..Cardinality(Staying(list, c))
        BY <2>4 DEF Orders
  <2>6. Len(rest) = Cardinality(Staying(list, c))
        BY <2>3, <2>4, <2>5, OrdersAreSequences
  <2>7. QED
        BY <2>3, <2>4, <2>6, OrdersAreSequences
<1>5. ASSUME NEW i \in DOMAIN rest
      PROVE  SetValue(SetLeaf(ActiveItem(k, i - 1), list[rest[i]])) \in C
  <2>1. rest[i] \in DOMAIN list
        BY <1>4 DEF Staying
  <2>2. list[rest[i]] \in Coordinate
        BY <1>1, <2>1, ElementOfSeq
  <2>3. i - 1 \in 0..MaxIndex
        BY <1>1, <1>4
  <2>4. ActiveItem(k, i - 1) \in ActiveLeaves
        BY <1>2, <2>3 DEF ActiveList
  <2>5. ActiveItem(k, i - 1) \in Leaf /\ list[rest[i]] \in G[ActiveItem(k, i - 1)]
        BY <2>2, <2>4, LeavesAreLeaves DEF LandAllows
  <2>6. QED
        BY <2>5, PutLeafIsCall DEF LandAllows
<1> HIDE DEF C
<1>6. puts \in Seq(C)
      BY <1>4, <1>5, MappedIs
<1>7. <<SetValue(removed)>> \in Seq(C)
      BY <1>3
<1> HIDE DEF removed, puts
<1>8. <<SetValue(removed)>> \o puts \in Seq(C) /\ <<SetValue(removed)>> \o <<>> \in Seq(C)
      BY <1>6, <1>7, ConcatProperties, EmptySeq
<1>9. QED
      BY <1>8 DEF Rewrite, C, removed, puts

\* What the two buttons ask.
LEMMA PlaceCallsAreCalls ==
    ASSUME NEW G, NEW B, LandAsks(B), NEW d \in Device, NEW k \in Key, NEW c \in Coordinate
    PROVE  PlaceCalls(k, c) \in Seq(Call(G, B[d]))
<1> DEFINE C == Call(G, B[d])
           t1 == [op |-> "placeActive", key |-> k, at |-> c]
           t2 == [op |-> "placeInventory", key |-> k]
<1>1. /\ t1 \in DOMAIN B[d] /\ B[d][t1] = ActiveList(k)
      /\ t2 \in DOMAIN B[d] /\ B[d][t2] = {Inventory(k)}
      BY DEF LandAsks
<1>2. GetData(B[d][t1], t1) \in C /\ GetData(B[d][t2], t2) \in C
      BY <1>1, GetIsCall
<1>3. GetData(ActiveList(k), t1) \in C /\ GetData({Inventory(k)}, t2) \in C
      BY <1>1, <1>2
<1> HIDE DEF C
<1>4. <<GetData(ActiveList(k), t1), GetData({Inventory(k)}, t2)>> \in Seq(C)
      BY <1>3
<1>5. QED
      BY <1>4 DEF PlaceCalls, C

LEMMA RemoveCallsAreCalls ==
    ASSUME NEW G, NEW B, LandAsks(B), NEW d \in Device, NEW k \in KeyOrNone,
           NEW c \in Coordinate
    PROVE  RemoveCalls(k, c) \in Seq(Call(G, B[d]))
<1> DEFINE C == Call(G, B[d])
           t1 == [op |-> "removeActive", key |-> k, at |-> c]
           t2 == [op |-> "removeInventory", key |-> k]
           s1 == IF k = Absent THEN ActiveLeaves ELSE ActiveList(k)
           s2 == IF k = Absent THEN InventoryLeaves ELSE {Inventory(k)}
<1>1. /\ t1 \in DOMAIN B[d] /\ B[d][t1] = s1
      /\ t2 \in DOMAIN B[d] /\ B[d][t2] = s2
      BY DEF LandAsks, KeyOrNone
<1>2. GetData(B[d][t1], t1) \in C /\ GetData(B[d][t2], t2) \in C
      BY <1>1, GetIsCall
<1>3. GetData(s1, t1) \in C /\ GetData(s2, t2) \in C
      BY <1>1, <1>2
<1> HIDE DEF C
<1>4. <<GetData(s1, t1), GetData(s2, t2)>> \in Seq(C)
      BY <1>3
<1>5. QED
      BY <1>4 DEF RemoveCalls, C

\* One leaf is written.
LEMMA OneLeafIsCalls ==
    ASSUME NEW G, NEW b, Allows(G), NEW l \in Leaf, NEW v \in G[l]
    PROVE  <<SetValue(SetLeaf(l, v))>> \in Seq(Call(G, b))
<1> DEFINE C == Call(G, b)
<1>1. SetValue(SetLeaf(l, v)) \in C
      BY PutLeafIsCall
<1> HIDE DEF C
<1>2. <<SetValue(SetLeaf(l, v))>> \in Seq(C)
      BY <1>1
<1>3. QED
      BY <1>2 DEF C

-----------------------------------------------------------------------------
(* Placing.                                                                *)

LEMMA OnPlaceItemKeeps ==
    ASSUME NEW G, NEW B, LandAmong(G, B), NEW d \in Device, NEW i \in 1..Len(inventoryItems[d]),
           OnPlaceItem(d, i)
    PROVE  LandAmong(G, B)'
<1> USE DEF LandAmong
<1>1. DatabaseInv(G, B)'
      BY DEF OnPlaceItem, DatabaseInv, dbVars, clientVars
<1>2. SessionInv(KeyOrNone)'
      BY DEF OnPlaceItem, SessionInv, sessionVars, listVars
<1>3. [key |-> inventoryItems[d][i].key, free |-> FreeOn(d)]
          \in [key : Key, free : SUBSET Coordinate]
      BY DEF OnPlaceItem, FreeOn
<1>4. started' \in [Device -> 0..MaxOps]
      BY SchemaAssumption DEF OnPlaceItem, Start, MayStart, LandInv
<1>5. LandInv'
      BY <1>3, <1>4 DEF OnPlaceItem, LandInv
<1>6. QED
      BY <1>1, <1>2, <1>5

LEMMA OnBackButtonPressedKeeps ==
    ASSUME NEW G, NEW B, LandAmong(G, B), NEW d \in Device, OnBackButtonPressed(d)
    PROVE  LandAmong(G, B)'
<1> USE DEF LandAmong
<1>1. DatabaseInv(G, B)'
      BY DEF OnBackButtonPressed, DatabaseInv, dbVars, clientVars
<1>2. SessionInv(KeyOrNone)'
      BY DEF OnBackButtonPressed, SessionInv, sessionVars, listVars
<1>3. LandInv'
      BY DEF OnBackButtonPressed, LandInv
<1>4. QED
      BY <1>1, <1>2, <1>3

LEMMA OnPlacementCompletedKeeps ==
    ASSUME NEW G, NEW B, LandAsks(B), LandAmong(G, B), NEW d \in Device,
           NEW c \in Coordinate, OnPlacementCompleted(d, c)
    PROVE  LandAmong(G, B)'
<1> USE DEF LandAmong
<1> DEFINE k == grid[d].key
<1>1. k \in Key
  <2>1. grid[d] # NoGrid
        BY DEF OnPlacementCompleted, NoGrid
  <2>2. grid[d] \in [key : Key, free : SUBSET Coordinate]
        BY <2>1 DEF LandInv
  <2>3. QED
        BY <2>2
<1>2. DatabaseInv(G, B)'
      BY <1>1, PlaceCallsAreCalls, DispatchKeeps DEF OnPlacementCompleted
<1>3. inventoryItems' \in [Device -> Seq(HeldRow(KeyOrNone))]
  <2>1. OneLess(inventoryItems[d], k) \in Seq(HeldRow(KeyOrNone))
        BY <1>1, OneLessIs DEF SessionInv, KeyOrNone
  <2>2. inventoryItems' = [inventoryItems EXCEPT ![d] = OneLess(inventoryItems[d], k)]
        BY DEF OnPlacementCompleted
  <2>3. QED
        BY <2>1, <2>2 DEF SessionInv
<1>4. coordinatesOccupied' \in [Device -> [Coordinate -> Nat]]
  <2>1. coordinatesOccupied' = [coordinatesOccupied EXCEPT ![d][c] = coordinatesOccupied[d][c] + 1]
        BY DEF OnPlacementCompleted
  <2>2. QED
        BY <2>1 DEF SessionInv
<1>5. SessionInv(KeyOrNone)'
      BY <1>3, <1>4 DEF OnPlacementCompleted, SessionInv
<1>6. LandInv'
      BY DEF OnPlacementCompleted, LandInv
<1>7. QED
      BY <1>2, <1>5, <1>6

\* The answer to the first question: the coordinate goes to the list's end.
LEMMA GotPlaceActiveKeeps ==
    ASSUME NEW G, NEW B, LandAllows(G), LandAsks(B), LandAmong(G, B), NEW d \in Device,
           GotPlaceActive(d)
    PROVE  LandAmong(G, B)'
<1> USE DEF LandAmong
<1>1. Allows(G) /\ Asks(B)
      BY DEF LandAllows, LandAsks
<1>2. PICK a \in AnswersTo(d, "placeActive") :
          /\ ~HasHole(a.snap, a.then.key)
          /\ ListLength(a.snap, a.then.key) <= MaxIndex
          /\ Return(d, a,
               <<SetValue(SetLeaf(ActiveItem(a.then.key, ListLength(a.snap, a.then.key)),
                                  a.then.at))>>)
          /\ activeItems' = [activeItems EXCEPT ![d] =
                 IF Exists(a.snap) THEN Extended(@, a.then.key, a.then.at)
                                   ELSE Settle(@, a.then.key, a.then.at)]
      BY DEF GotPlaceActive
<1> DEFINE k == a.then.key
           c == a.then.at
           l == ActiveItem(k, ListLength(a.snap, k))
<1>3. /\ a.then \in DOMAIN B[d] /\ a.then.op = "placeActive"
      /\ a.snap \in Patch(G, B[d][a.then])
      BY <1>1, AnswerFacts
<1>4. k \in Key /\ c \in Coordinate /\ a.snap \in Patch(G, ActiveList(k))
      BY <1>3 DEF LandAsks
<1>5. l \in ActiveLeaves
  <2>1. ActiveList(k) \in SUBSET Leaf
        BY <1>4, LeavesAreLeaves DEF ActiveLeaves
  <2>2. ListLength(a.snap, k) \in 0..(MaxIndex + 1)
        BY <1>1, <1>2, <1>4, <2>1, ListIsSequence
  <2>3. ListLength(a.snap, k) \in 0..MaxIndex
        BY <1>2, <2>2, SchemaAssumption
  <2>4. QED
        BY <1>4, <2>3 DEF ActiveLeaves, ActiveList
<1>6. <<SetValue(SetLeaf(l, c))>> \in Seq(Call(G, B[d]))
      BY <1>1, <1>4, <1>5, LeavesAreLeaves, OneLeafIsCalls DEF LandAllows
<1>7. DatabaseInv(G, B)'
      BY <1>1, <1>2, <1>6, ReturnKeeps
<1>8. activeItems' \in [Device -> Seq(PlacedRow)]
  <2>1. activeItems[d] \in Seq(PlacedRow)
        BY DEF SessionInv
  <2>2. Extended(activeItems[d], k, c) \in Seq(PlacedRow)
        /\ Settle(activeItems[d], k, c) \in Seq(PlacedRow)
        BY <1>4, <2>1, ExtendedIs
  <2>3. QED
        BY <1>2, <2>2 DEF SessionInv
<1>9. SessionInv(KeyOrNone)'
      BY <1>8 DEF GotPlaceActive, SessionInv
<1>10. LandInv'
      BY DEF GotPlaceActive, LandInv, landVars
<1>11. QED
      BY <1>7, <1>9, <1>10

\* The answer to the second: the count goes down.
LEMMA GotPlaceInventoryKeeps ==
    ASSUME NEW G, NEW B, LandAllows(G), LandAsks(B), LandAmong(G, B), NEW d \in Device,
           GotPlaceInventory(d)
    PROVE  LandAmong(G, B)'
<1> USE DEF LandAmong
<1>1. Allows(G) /\ Asks(B)
      BY DEF LandAllows, LandAsks
<1>2. PICK a \in AnswersTo(d, "placeInventory") :
          LET leaf  == Inventory(a.then.key)
              count == a.snap[leaf]
          IN  Return(d, a,
                 IF count = Absent THEN <<>>
                 ELSE <<SetValue(SetLeaf(leaf, IF count = 1 THEN Absent ELSE count - 1))>>)
      BY DEF GotPlaceInventory
<1> DEFINE l == Inventory(a.then.key)
           v == IF a.snap[l] = 1 THEN Absent ELSE a.snap[l] - 1
           calls == IF a.snap[l] = Absent THEN <<>> ELSE <<SetValue(SetLeaf(l, v))>>
<1>3. /\ a.then \in DOMAIN B[d] /\ a.then.op = "placeInventory"
      /\ a.snap \in Patch(G, B[d][a.then])
      BY <1>1, AnswerFacts
<1>4. a.then.key \in Key /\ a.snap \in Patch(G, {l})
      BY <1>3 DEF LandAsks
<1>5. l \in Leaf /\ G[l] = (Nat \ {0}) \cup {Absent}
      BY <1>4, LeavesAreLeaves DEF LandAllows
<1>6. a.snap[l] # Absent => v \in G[l]
  <2>1. a.snap[l] \in (Nat \ {0}) \cup {Absent}
        BY <1>4, <1>5 DEF Patch
  <2>2. QED
        BY <1>5, <2>1
<1>7. calls \in Seq(Call(G, B[d]))
  <2> HIDE DEF l, v
  <2>1. QED
        BY <1>1, <1>5, <1>6, OneLeafIsCalls, EmptySeq
<1>8. Return(d, a, calls)
      BY <1>2
<1>9. DatabaseInv(G, B)'
  <2> HIDE DEF calls
  <2>1. QED
        BY <1>1, <1>7, <1>8, ReturnKeeps
<1>10. SessionInv(KeyOrNone)'
      BY DEF GotPlaceInventory, SessionInv, sessionVars, listVars
<1>11. LandInv'
      BY DEF GotPlaceInventory, LandInv, landVars
<1>12. QED
      BY <1>9, <1>10, <1>11

-----------------------------------------------------------------------------
(* Taking back.                                                            *)

LEMMA OnRemoveKeeps ==
    ASSUME NEW G, NEW B, LandAsks(B), LandAmong(G, B), NEW d \in Device,
           NEW c \in Coordinate, OnRemove(d, c)
    PROVE  LandAmong(G, B)'
<1> USE DEF LandAmong
<1> DEFINE k == KeyAt(activeItems[d], c)
<1>1. k \in KeyOrNone
      BY KeyAtIs DEF SessionInv
<1>2. DatabaseInv(G, B)'
      BY <1>1, RemoveCallsAreCalls, DispatchKeeps DEF OnRemove
<1>3. inventoryItems' \in [Device -> Seq(HeldRow(KeyOrNone))]
  <2>1. GivenBack(inventoryItems[d], k) \in Seq(HeldRow(KeyOrNone))
        BY <1>1, GivenBackIs DEF SessionInv
  <2>2. inventoryItems' = [inventoryItems EXCEPT ![d] = GivenBack(inventoryItems[d], k)]
        BY DEF OnRemove
  <2>3. QED
        BY <2>1, <2>2 DEF SessionInv
<1>4. activeItems' \in [Device -> Seq(PlacedRow)]
  <2>1. Cleared(activeItems[d], c) \in Seq(PlacedRow)
        BY ClearedIs DEF SessionInv
  <2>2. activeItems' = [activeItems EXCEPT ![d] = Cleared(activeItems[d], c)]
        BY DEF OnRemove
  <2>3. QED
        BY <2>1, <2>2 DEF SessionInv
<1>5. coordinatesOccupied' \in [Device -> [Coordinate -> Nat]]
  <2>1. coordinatesOccupied[d][c] \in Nat /\ coordinatesOccupied[d][c] > 0
        BY DEF OnRemove, SessionInv
  <2>2. coordinatesOccupied[d][c] - 1 \in Nat
        BY <2>1
  <2>3. coordinatesOccupied' = [coordinatesOccupied EXCEPT ![d][c] = coordinatesOccupied[d][c] - 1]
        BY DEF OnRemove
  <2>4. QED
        BY <2>2, <2>3 DEF SessionInv
<1>6. SessionInv(KeyOrNone)'
      BY <1>3, <1>4, <1>5 DEF OnRemove, SessionInv
<1>7. started' \in [Device -> 0..MaxOps]
      BY SchemaAssumption DEF OnRemove, Start, MayStart, LandInv
<1>8. LandInv'
      BY <1>7 DEF OnRemove, LandInv, landVars
<1>9. QED
      BY <1>2, <1>6, <1>8

\* The answer to the first question: the list is written anew.
LEMMA GotRemoveActiveKeeps ==
    ASSUME NEW G, NEW B, LandAllows(G), LandAsks(B), LandAmong(G, B), NEW d \in Device,
           GotRemoveActive(d)
    PROVE  LandAmong(G, B)'
<1> USE DEF LandAmong
<1>1. Allows(G) /\ Asks(B)
      BY DEF LandAllows, LandAsks
<1>2. PICK a \in AnswersTo(d, "removeActive") :
          IF Exists(a.snap)
          THEN /\ a.then.key # Absent /\ ~HasHole(a.snap, a.then.key)
               /\ \E rest \in Ascending(Staying(ListOf(a.snap, a.then.key), a.then.at)) :
                     Return(d, a, Rewrite(a.then.key, ListOf(a.snap, a.then.key), rest))
          ELSE Return(d, a, <<>>)
      BY DEF GotRemoveActive
<1>3. DatabaseInv(G, B)'
  <2>1. CASE ~Exists(a.snap)
        BY <1>1, <1>2, <2>1, ReturnKeeps, EmptySeq
  <2>2. CASE Exists(a.snap)
    <3> DEFINE k == a.then.key
               list == ListOf(a.snap, k)
    <3>1. k # Absent /\ ~HasHole(a.snap, k)
          BY <1>2, <2>2
    <3>2. PICK rest \in Ascending(Staying(list, a.then.at)) : Return(d, a, Rewrite(k, list, rest))
          BY <1>2, <2>2
    <3>3. /\ a.then \in DOMAIN B[d] /\ a.then.op = "removeActive"
          /\ a.snap \in Patch(G, B[d][a.then])
          BY <1>1, AnswerFacts
    <3>4. k \in Key /\ a.snap \in Patch(G, ActiveList(k))
          BY <3>1, <3>3 DEF LandAsks
    <3>5. ActiveList(k) \in SUBSET Leaf
          BY <3>4, LeavesAreLeaves DEF ActiveLeaves
    <3>6. list \in Seq(Coordinate) /\ Len(list) \in 0..(MaxIndex + 1)
          BY <1>1, <3>1, <3>4, <3>5, ListIsSequence
    <3>7. Len(list) <= MaxIndex + 1
          BY <3>6, SchemaAssumption
    <3>8. Rewrite(k, list, rest) \in Seq(Call(G, B[d]))
      <4> HIDE DEF list
      <4>1. QED
            BY <3>2, <3>4, <3>6, <3>7, RewriteIs
    <3>9. QED
          BY <1>1, <3>2, <3>8, ReturnKeeps
  <2>3. QED
        BY <2>1, <2>2
<1>4. SessionInv(KeyOrNone)'
      BY DEF GotRemoveActive, SessionInv, sessionVars, listVars
<1>5. LandInv'
      BY DEF GotRemoveActive, LandInv, landVars
<1>6. QED
      BY <1>3, <1>4, <1>5

\* The answer to the second: the count goes up.
LEMMA GotRemoveInventoryKeeps ==
    ASSUME NEW G, NEW B, LandAllows(G), LandAsks(B), LandAmong(G, B), NEW d \in Device,
           GotRemoveInventory(d)
    PROVE  LandAmong(G, B)'
<1> USE DEF LandAmong
<1>1. Allows(G) /\ Asks(B)
      BY DEF LandAllows, LandAsks
<1>2. PICK a \in AnswersTo(d, "removeInventory") :
          /\ a.then.key # Absent
          /\ Return(d, a, <<SetValue(SetLeaf(Inventory(a.then.key),
                                             OrZero(a.snap[Inventory(a.then.key)]) + 1))>>)
      BY DEF GotRemoveInventory
<1> DEFINE l == Inventory(a.then.key)
           v == OrZero(a.snap[l]) + 1
<1>3. /\ a.then \in DOMAIN B[d] /\ a.then.op = "removeInventory"
      /\ a.snap \in Patch(G, B[d][a.then])
      BY <1>1, AnswerFacts
<1>4. a.then.key \in Key /\ a.snap \in Patch(G, {l})
      BY <1>2, <1>3 DEF LandAsks
<1>5. l \in Leaf /\ G[l] = (Nat \ {0}) \cup {Absent}
      BY <1>4, LeavesAreLeaves DEF LandAllows
<1>6. v \in G[l]
  <2>1. a.snap[l] \in (Nat \ {0}) \cup {Absent}
        BY <1>4, <1>5 DEF Patch
  <2>2. OrZero(a.snap[l]) \in Nat
        BY <2>1 DEF OrZero
  <2>3. QED
        BY <1>5, <2>2
<1>7. <<SetValue(SetLeaf(l, v))>> \in Seq(Call(G, B[d]))
      BY <1>1, <1>5, <1>6, OneLeafIsCalls
<1>8. DatabaseInv(G, B)'
      BY <1>1, <1>2, <1>7, ReturnKeeps
<1>9. SessionInv(KeyOrNone)'
      BY DEF GotRemoveInventory, SessionInv, sessionVars, listVars
<1>10. LandInv'
      BY DEF GotRemoveInventory, LandInv, landVars
<1>11. QED
      BY <1>8, <1>9, <1>10

-----------------------------------------------------------------------------
(* The whole of the land.                                                  *)

\* A grid that closes with the process.
LEMMA GridClosesKeeps ==
    ASSUME LandInv, GridStays
    PROVE  grid' \in [Device -> {NoGrid} \cup [key : Key, free : SUBSET Coordinate]]
BY DEF LandInv, GridStays

LEMMA LandStepKeeps ==
    ASSUME NEW G, NEW B, LandAllows(G), LandAsks(B), LandAmong(G, B), NEW d \in Device,
           LandStep(d)
    PROVE  LandAmong(G, B)'
<1>1. CASE CrashOnLand(d)
  <2>1. DatabaseInv(G, B)' /\ SessionInv(KeyOrNone)'
        BY <1>1, AppEndsKeeps DEF CrashOnLand, Crash, LandAmong
  <2>2. LandInv'
        BY <1>1 DEF CrashOnLand, LandInv, LandAmong
  <2>3. QED
        BY <2>1, <2>2 DEF LandAmong
<1>2. CASE \E i \in 1..Len(inventoryItems[d]) : OnPlaceItem(d, i)
      BY <1>2, OnPlaceItemKeeps
<1>3. CASE OnBackButtonPressed(d)
      BY <1>3, OnBackButtonPressedKeeps
<1>4. CASE \E c \in Coordinate : OnPlacementCompleted(d, c) \/ OnRemove(d, c)
      BY <1>4, OnPlacementCompletedKeeps, OnRemoveKeeps
<1>5. CASE GotPlaceActive(d) \/ GotPlaceInventory(d)
      BY <1>5, GotPlaceActiveKeeps, GotPlaceInventoryKeeps
<1>6. CASE GotRemoveActive(d) \/ GotRemoveInventory(d)
      BY <1>6, GotRemoveActiveKeeps, GotRemoveInventoryKeeps
<1>7. QED
      BY <1>1, <1>2, <1>3, <1>4, <1>5, <1>6 DEF LandStep

\* Signing in, the answers to it, and what happens by itself.
LEMMA OutsideKeeps ==
    ASSUME NEW G, NEW B, LandAllows(G), LandAsks(B), LandAmong(G, B), NEW d \in Device,
           DidSignIn(d) \/ SessionAnswer(d) \/ EnvironmentStep(d),
           GridStays, UNCHANGED <<started, deeds>>
    PROVE  LandAmong(G, B)'
<1>1. Allows(G) /\ Asks(B) /\ Key \subseteq KeyOrNone
      BY DEF LandAllows, LandAsks, KeyOrNone
<1>2. DatabaseInv(G, B)' /\ SessionInv(KeyOrNone)'
      BY <1>1, DidSignInKeeps, SessionAnswerKeeps, EnvironmentKeeps DEF LandAmong
<1>3. LandInv'
      BY GridClosesKeeps DEF LandAmong, LandInv
<1>4. QED
      BY <1>2, <1>3 DEF LandAmong

\* What an account owns is counted.
LEMMA OwnedIsNat ==
    ASSUME NEW account, NEW k \in Key,
           account[Inventory(k)] \in Nat \cup {Absent}
    PROVE  Owned(account, k) \in Nat
<1>1. Placed(account, k) \in Nat
      BY HeldLeavesAreFinite, FS_Subset, FS_CardinalityType DEF Placed
<1>2. OrZero(account[Inventory(k)]) \in Nat
      BY DEF OrZero
<1>3. QED
      BY <1>1, <1>2 DEF Owned

\* What the invariant of the land says of the screens and the record.
LEMMA LandIsTyped ==
    ASSUME NEW G, NEW B, LandAllows(G), LandAmong(G, B), LandInv,
           \A l \in Leaf : G[l] \subseteq ValueAt(l) \cup {Absent}
    PROVE  LandTypeOK
<1>1. record \in [Leaf -> Value] /\ WellTyped(record)
      BY DEF LandAmong, DatabaseInv, Patch, WellTyped
<1>2. ASSUME NEW d \in Device, NEW i \in DOMAIN inventoryItems[d]
      PROVE  /\ inventoryItems[d][i].key \in Key \cup {Absent}
             /\ inventoryItems[d][i].count \in Nat \ {0}
  <2>1. inventoryItems[d] \in Seq(HeldRow(KeyOrNone))
        BY DEF LandAmong, SessionInv
  <2>2. inventoryItems[d][i] \in HeldRow(KeyOrNone)
        BY <2>1
  <2>3. QED
        BY <2>2 DEF HeldRow, KeyOrNone
<1>3. ASSUME NEW d \in Device, NEW i \in DOMAIN activeItems[d]
      PROVE  /\ activeItems[d][i].key \in Key
             /\ Seqs!ToSet(activeItems[d][i].coordinates) \subseteq Coordinate
  <2>1. activeItems[d] \in Seq(PlacedRow)
        BY DEF LandAmong, SessionInv
  <2>2. activeItems[d][i] \in PlacedRow
        BY <2>1
  <2>3. activeItems[d][i].key \in Key /\ activeItems[d][i].coordinates \in Seq(Coordinate)
        BY <2>2, EntryFacts
  <2>4. \A j \in DOMAIN activeItems[d][i].coordinates :
            activeItems[d][i].coordinates[j] \in Coordinate
        BY <2>3, ElementOfSeq, LenProperties
  <2>5. QED
        BY <2>3, <2>4 DEF Seqs!ToSet
<1>4. coordinatesOccupied \in [Device -> [Coordinate -> Nat]]
      BY DEF LandAmong, SessionInv
<1>5. QED
      BY <1>1, <1>2, <1>3, <1>4 DEF LandTypeOK, LandInv

-----------------------------------------------------------------------------
(* The land by itself.                                                     *)

\* Values of the leaves' types, and no count below one.
LandValues ==
    [l \in Leaf |-> IF l[1] = "inventory" THEN (Nat \ {0}) \cup {Absent}
                    ELSE ValueAt(l) \cup {Absent}]

LandTag ==
    {NameAnswer, InventoryAnswer, ActiveAnswer}
    \cup [op : {"placeActive"}, key : Key, at : Coordinate]
    \cup [op : {"placeInventory"}, key : Key]
    \cup [op : {"removeActive"}, key : KeyOrNone, at : Coordinate]
    \cup [op : {"removeInventory"}, key : KeyOrNone]

LandAsked(t) ==
    CASE t.op = "displayName"    -> {DisplayName}
      [] t.op = "inventory"      -> InventoryLeaves
      [] t.op = "activeItems"    -> ActiveLeaves
      [] t.op = "placeActive"    -> ActiveList(t.key)
      [] t.op = "placeInventory" -> {Inventory(t.key)}
      [] t.op = "removeActive"   -> IF t.key = Absent THEN ActiveLeaves ELSE ActiveList(t.key)
      [] t.op = "removeInventory" ->
             IF t.key = Absent THEN InventoryLeaves ELSE {Inventory(t.key)}

LandBlocks == [d \in Device |-> [t \in LandTag |-> LandAsked(t)]]

LEMMA LandValuesAllow == LandAllows(LandValues)
<1> DEFINE G == LandValues
<1>1. \A l \in Leaf : G[l] \subseteq Value /\ Absent \in G[l]
      BY DEF LandValues, ValueAt, Value
<1>2. ASSUME NEW k \in Key
      PROVE  G[Inventory(k)] = (Nat \ {0}) \cup {Absent}
      BY LeavesAreLeaves DEF LandValues, Inventory
<1>3. ASSUME NEW l \in ActiveLeaves
      PROVE  G[l] = Coordinate \cup {Absent}
  <2>1. l[1] = "activeItems"
        BY DEF ActiveLeaves, ActiveList, ActiveItem
  <2>2. QED
        BY <2>1, LeavesAreLeaves DEF LandValues, ValueAt
<1>4. \A l \in {DisplayName, CurrentLeaves, AllTimeLeaves, Notifications, OnLeaderboard} :
          Int \subseteq G[l]
      BY LeavesAreLeaves DEF LandValues, ValueAt, DisplayName, CurrentLeaves, AllTimeLeaves,
         Notifications, OnLeaderboard
<1> HIDE DEF G
<1>5. Allows(G)
      BY <1>1, <1>2, <1>3, <1>4 DEF Allows
<1>6. QED
      BY <1>2, <1>3, <1>5 DEF LandAllows, G

LEMMA LandBlocksAsk == LandAsks(LandBlocks)
<1>1. ASSUME NEW t \in LandTag
      PROVE  /\ LandAsked(t) \subseteq Leaf
             /\ t.op = "inventory" => LandAsked(t) = InventoryLeaves
             /\ t.op = "activeItems" => LandAsked(t) = ActiveLeaves
             /\ t.op = "placeActive" => t.key \in Key /\ t.at \in Coordinate
                   /\ LandAsked(t) = ActiveList(t.key)
             /\ t.op = "placeInventory" => t.key \in Key /\ LandAsked(t) = {Inventory(t.key)}
             /\ t.op = "removeActive" /\ t.key # Absent => t.key \in Key
                   /\ LandAsked(t) = ActiveList(t.key)
             /\ t.op = "removeInventory" /\ t.key # Absent => t.key \in Key
                   /\ LandAsked(t) = {Inventory(t.key)}
  <2>1. \A k \in Key : ActiveList(k) \subseteq Leaf /\ Inventory(k) \in Leaf
        BY LeavesAreLeaves DEF ActiveLeaves
  <2>2. CASE t \in {NameAnswer, InventoryAnswer, ActiveAnswer}
        BY <2>2, LeavesAreLeaves DEF NameAnswer, InventoryAnswer, ActiveAnswer, LandAsked
  <2>3. CASE t \in [op : {"placeActive"}, key : Key, at : Coordinate]
        BY <2>1, <2>3 DEF LandAsked
  <2>4. CASE t \in [op : {"placeInventory"}, key : Key]
        BY <2>1, <2>4 DEF LandAsked
  <2>5. CASE t \in [op : {"removeActive"}, key : KeyOrNone, at : Coordinate]
        BY <2>1, <2>5, LeavesAreLeaves DEF LandAsked, KeyOrNone
  <2>6. CASE t \in [op : {"removeInventory"}, key : KeyOrNone]
        BY <2>1, <2>6, LeavesAreLeaves DEF LandAsked, KeyOrNone
  <2>7. QED
        BY <2>2, <2>3, <2>4, <2>5, <2>6 DEF LandTag
<1>2. \A d \in Device : DOMAIN LandBlocks[d] = LandTag /\
          \A t \in LandTag : LandBlocks[d][t] = LandAsked(t)
      BY DEF LandBlocks
<1>3. /\ {NameAnswer, InventoryAnswer, ActiveAnswer} \subseteq LandTag
      /\ LandAsked(NameAnswer) = {DisplayName}
      /\ LandAsked(InventoryAnswer) = InventoryLeaves
      /\ LandAsked(ActiveAnswer) = ActiveLeaves
      BY DEF LandTag, LandAsked, NameAnswer, InventoryAnswer, ActiveAnswer
<1>4. Asks(LandBlocks)
      BY <1>1, <1>2, <1>3 DEF Asks
<1>5. ASSUME NEW k \in Key, NEW c \in Coordinate
      PROVE  LET place == [op |-> "placeActive", key |-> k, at |-> c]
                 count == [op |-> "placeInventory", key |-> k]
             IN  /\ place \in LandTag /\ LandAsked(place) = ActiveList(k)
                 /\ count \in LandTag /\ LandAsked(count) = {Inventory(k)}
      BY DEF LandTag, LandAsked
<1>6. ASSUME NEW k \in KeyOrNone, NEW c \in Coordinate
      PROVE  LET clear == [op |-> "removeActive", key |-> k, at |-> c]
                 count == [op |-> "removeInventory", key |-> k]
             IN  /\ clear \in LandTag
                 /\ LandAsked(clear) = IF k = Absent THEN ActiveLeaves ELSE ActiveList(k)
                 /\ count \in LandTag
                 /\ LandAsked(count) = IF k = Absent THEN InventoryLeaves ELSE {Inventory(k)}
      BY DEF LandTag, LandAsked
<1>7. QED
      BY <1>1, <1>2, <1>4, <1>5, <1>6 DEF LandAsks, KeyOrNone

LEMMA LandInitHolds ==
    ASSUME LandInit
    PROVE  LandAmong(LandValues, LandBlocks)
<1>1. PICK opening \in Openings : SessionInit(opening)
      BY DEF LandInit, UsersInit
<1>2. opening \in [Leaf -> Value] /\ WellTyped(opening) /\ Stocked(opening)
      BY UsersAssumption
<1>3. \A k \in Key : opening[Inventory(k)] \in (Nat \ {0}) \cup {Absent}
  <2>1. ASSUME NEW k \in Key
        PROVE  opening[Inventory(k)] \in (Nat \ {0}) \cup {Absent}
    <3>1. Inventory(k) \in Leaf
          BY LeavesAreLeaves
    <3>2. opening[Inventory(k)] \in Int \cup {Absent}
          BY <1>2, <3>1 DEF WellTyped, ValueAt, Inventory
    <3>3. QED
          BY <1>2, <3>2 DEF Stocked
  <2>2. QED
        BY <2>1
<1>4. opening \in Patch(LandValues, Leaf)
  <2>1. ASSUME NEW l \in Leaf
        PROVE  opening[l] \in LandValues[l]
    <3>1. CASE l \in InventoryLeaves
          BY <1>3, <3>1, LandValuesAllow DEF InventoryLeaves, LandAllows
    <3>2. CASE l \notin InventoryLeaves
      <4>1. l[1] # "inventory"
            BY <3>2 DEF Leaf, Profile, DisplayName, CurrentLeaves, AllTimeLeaves,
               LastVisitedDate, OnLeaderboard, Avatar, Notifications, ActiveLeaves,
               ActiveList, ActiveItem, HistoryLeaves, History
      <4>2. QED
            BY <1>2, <4>1 DEF LandValues, WellTyped
    <3>3. QED
          BY <3>1, <3>2
  <2>2. QED
        BY <1>2, <2>1 DEF Patch
<1>5. DatabaseInv(LandValues, LandBlocks) /\ SessionInv(KeyOrNone)
      BY <1>1, <1>4, SessionInitHolds
<1>6. LandInv
  <2>1. record = opening
        BY <1>1 DEF SessionInit, DatabaseInit
  <2>2. \A k \in Key : Owned(record, k) \in Nat
        BY <1>3, <2>1, OwnedIsNat
  <2>3. QED
        BY <2>2, SchemaAssumption DEF LandInit, LandStart, UsersInit, LandInv
<1>7. QED
      BY <1>5, <1>6 DEF LandAmong

\* Whatever is placed and taken back on however many devices, with answers in
\* any order and over lost connections, the record, what is written to it and the
\* screens hold items, counts above zero and coordinates
\* (PlacementGridViewController.swift:134, RemoveItemViewController.swift:94).
THEOREM LandTypesAreCorrect == LandSpec => []LandTypeOK
<1> DEFINE I == LandAmong(LandValues, LandBlocks)
<1>1. LandInit => I
      BY LandInitHolds
<1>2. I /\ [LandNext]_allLandVars => I'
  <2> SUFFICES ASSUME LandAmong(LandValues, LandBlocks), [LandNext]_allLandVars
               PROVE  LandAmong(LandValues, LandBlocks)'
      OBVIOUS
  <2>1. CASE UNCHANGED allLandVars
        BY <2>1 DEF allLandVars, landVars, dbVars, clientVars, sessionVars, listVars,
           LandAmong, DatabaseInv, SessionInv, LandInv
  <2>2. CASE LandNext
        BY <2>2, LandValuesAllow, LandBlocksAsk, LandStepKeeps, OutsideKeeps DEF LandNext
  <2>3. QED
        BY <2>1, <2>2
<1>3. I => LandTypeOK
  <2>1. \A l \in Leaf : LandValues[l] \subseteq ValueAt(l) \cup {Absent}
        BY DEF LandValues, ValueAt
  <2>2. QED
        BY <2>1, LandValuesAllow, LandIsTyped DEF LandAmong
<1>4. QED
      BY <1>1, <1>2, <1>3, PTL DEF LandSpec
=============================================================================
