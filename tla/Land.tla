-------------------------------- MODULE Land --------------------------------
(***************************************************************************)
(* The user's piece of land: placing an item of the inventory on a         *)
(* coordinate of the grid, and taking one back.  Both change the app's     *)
(* three lists at once and the record in two independent blocks, one for   *)
(* the item's list under activeItems and one for its count under           *)
(* inventory.                                                              *)
(*                                                                         *)
(*   grid[d]   the placement grid that is open: the item to place and the  *)
(*             coordinates that could be pressed when it was loaded        *)
(*   deeds[k]  history variable: items of kind k the account owns, on the  *)
(*             land and in the inventory together                          *)
(***************************************************************************)
EXTENDS Users

Seqs == INSTANCE SequencesExt

VARIABLES grid, deeds

landVars == <<grid, deeds>>

NoGrid == [key |-> Absent, free |-> {}]

-----------------------------------------------------------------------------
(* The local lists.                                                        *)

OneLessWhileAny(rows, k) ==
    [i \in DOMAIN rows |-> IF rows[i].key = k /\ rows[i].count # 1
                           THEN InventoryRow(k, rows[i].count - 1) ELSE rows[i]]

\* onPlacementCompleted, lines 174-190: a row of count one goes, a larger count
\* goes down.
OneLess(rows, k) ==
    LET rest == [i \in DOMAIN rows |->
                    IF rows[i].key = k /\ rows[i].count # 1
                    THEN InventoryRow(k, rows[i].count - 1) ELSE rows[i]]
        last == {i \in DOMAIN rows : rows[i] = InventoryRow(k, 1)}
    IN  IF last = {} THEN rest ELSE Seqs!RemoveAt(rest, Seqs!Max(last))

\* onRemove, lines 114-128: a count above one goes up, a count of one stays as
\* it is, an item that has no row gets one.
GivenBack(rows, k) ==
    IF \E i \in DOMAIN rows : rows[i].key = k
    THEN [i \in DOMAIN rows |-> IF rows[i].key = k /\ rows[i].count > 1
                                THEN InventoryRow(k, rows[i].count + 1) ELSE rows[i]]
    ELSE Append(rows, InventoryRow(k, 1))

\* findActiveItemCoordinate: the key of the last entry that stands on c.
KeyAt(entries, c) ==
    LET on == {i \in DOMAIN entries : c \in Seqs!ToSet(entries[i].coordinates)}
    IN  IF on = {} THEN Absent ELSE entries[Seqs!Max(on)].key

\* Every entry loses the last occurrence of c; the entry itself stays.
Without(list, c) ==
    LET on == {i \in DOMAIN list : list[i] = c}
    IN  IF on = {} THEN list ELSE Seqs!RemoveAt(list, Seqs!Max(on))

NothingCleared(entries, c) == entries
Cleared(entries, c) ==
    [i \in DOMAIN entries |->
        ActiveEntry(entries[i].key, Without(entries[i].coordinates, c))]

NotExtended(entries, k, c) == entries

\* Every entry of the item is extended, or the item gets its first entry.
Extended(entries, k, c) ==
    [i \in DOMAIN entries |->
        IF entries[i].key = k
        THEN ActiveEntry(k, Append(entries[i].coordinates, c)) ELSE entries[i]]

Settle(entries, k, c) == Append(entries, ActiveEntry(k, <<c>>))

-----------------------------------------------------------------------------
(* Placing an item.                                                        *)

\* onPlaceItem and the grid's viewDidLoad: the row's item is to be placed, the
\* buttons of the occupied coordinates are disabled.
EveryCoordinate(d) == Coordinate
FreeOn(d) == {c \in Coordinate : coordinatesOccupied[d][c] = 0}

OnPlaceItem(d, i) ==
    /\ MayStart(d)
    /\ grid[d] = NoGrid
    /\ i \in DOMAIN inventoryItems[d]
    /\ inventoryItems[d][i].key \in Key
    /\ Start(d)
    /\ grid' = [grid EXCEPT ![d] = [key |-> inventoryItems[d][i].key, free |-> FreeOn(d)]]
    /\ UNCHANGED <<dbVars, sessionVars, deeds>>

OnBackButtonPressed(d) ==
    /\ grid[d] # NoGrid
    /\ grid' = [grid EXCEPT ![d] = NoGrid]
    /\ UNCHANGED <<dbVars, sessionVars, started, deeds>>

PlaceCalls(k, c) ==
    <<GetData(ActiveList(k), [op |-> "placeActive", key |-> k, at |-> c]),
      GetData({Inventory(k)}, [op |-> "placeInventory", key |-> k])>>

OnPlacementCompleted(d, c) ==
    LET k == grid[d].key
    IN  /\ MayAct(d)
        /\ c \in grid[d].free
        /\ grid' = [grid EXCEPT ![d] = NoGrid]
        /\ coordinatesOccupied' = [coordinatesOccupied EXCEPT ![d][c] = @ + 1]
        /\ inventoryItems' = [inventoryItems EXCEPT ![d] = OneLess(@, k)]
        /\ Dispatch(d, PlaceCalls(k, c))
        /\ UNCHANGED <<stage, activeItems, started, deeds>>

\* The coordinate goes to the end of the item's list, which has room for it
\* (LandAssumption): the bound MaxIndex never keeps this block from running.
GotPlaceActive(d) ==
    \E a \in AnswersTo(d, "placeActive") :
        LET k == a.then.key
            c == a.then.at
        IN  /\ ~HasHole(a.snap, k)
            /\ ListLength(a.snap, k) <= MaxIndex
            /\ Return(d, a,
                 <<SetValue(SetLeaf(ActiveItem(k, ListLength(a.snap, k)), c))>>)
            /\ activeItems' = [activeItems EXCEPT ![d] =
                   IF Exists(a.snap) THEN Extended(@, k, c) ELSE Settle(@, k, c)]
            /\ UNCHANGED <<stage, inventoryItems, coordinatesOccupied, started,
                           landVars>>

GotPlaceInventory(d) ==
    \E a \in AnswersTo(d, "placeInventory") :
        LET leaf  == Inventory(a.then.key)
            count == a.snap[leaf]
        IN  /\ Return(d, a,
                 IF count = Absent THEN <<>>
                 ELSE <<SetValue(SetLeaf(leaf, IF count = 1 THEN Absent ELSE count - 1))>>)
            /\ UNCHANGED <<sessionVars, started, landVars>>

-----------------------------------------------------------------------------
(* Taking an item back.                                                    *)

\* A coordinate of the list that no entry stands on belongs to no item: the
\* paths of an empty key are those of the whole lists.
RemoveCalls(k, c) ==
    <<GetData(IF k = Absent THEN ActiveLeaves ELSE ActiveList(k),
              [op |-> "removeActive", key |-> k, at |-> c]),
      GetData(IF k = Absent THEN InventoryLeaves ELSE {Inventory(k)},
              [op |-> "removeInventory", key |-> k])>>

OnRemove(d, c) ==
    LET k == KeyAt(activeItems[d], c)
    IN  /\ MayStart(d)
        /\ grid[d] = NoGrid
        /\ coordinatesOccupied[d][c] > 0
        /\ Start(d)
        /\ coordinatesOccupied' = [coordinatesOccupied EXCEPT ![d][c] = @ - 1]
        /\ activeItems' = [activeItems EXCEPT ![d] = Cleared(@, c)]
        /\ inventoryItems' = [inventoryItems EXCEPT ![d] = GivenBack(@, k)]
        /\ Dispatch(d, RemoveCalls(k, c))
        /\ UNCHANGED <<stage, landVars>>

\* The places of the list's entries that stay.
Staying(list, c) == {i \in DOMAIN list : list[i] # c}

RewriteAtOldPlaces(k, list, rest) ==
    <<SetValue([l \in ActiveList(k) |-> Absent])>>
    \o [i \in DOMAIN rest |-> SetValue(SetLeaf(ActiveItem(k, rest[i] - 1), list[rest[i]]))]

RewriteFromThree(k, list, rest) ==
    <<SetValue([l \in ActiveList(k) |-> Absent])>>
    \o (IF Len(list) > 2
        THEN [i \in DOMAIN rest |-> SetValue(SetLeaf(ActiveItem(k, i - 1), list[rest[i]]))]
        ELSE <<>>)

\* The item's list is removed and what stays of it written anew, entry by
\* entry.
Rewrite(k, list, rest) ==
    <<SetValue([l \in ActiveList(k) |-> Absent])>>
    \o (IF Len(list) > 1
        THEN [i \in DOMAIN rest |-> SetValue(SetLeaf(ActiveItem(k, i - 1), list[rest[i]]))]
        ELSE <<>>)

GotRemoveActive(d) ==
    \E a \in AnswersTo(d, "removeActive") :
        LET k    == a.then.key
            list == ListOf(a.snap, k)
        IN  /\ IF Exists(a.snap)
               THEN /\ k # Absent /\ ~HasHole(a.snap, k)
                    /\ \E rest \in Ascending(Staying(list, a.then.at)) :
                          Return(d, a, Rewrite(k, list, rest))
               ELSE Return(d, a, <<>>)
            /\ UNCHANGED <<sessionVars, started, landVars>>

GotRemoveInventory(d) ==
    \E a \in AnswersTo(d, "removeInventory") :
        LET leaf == Inventory(a.then.key)
        IN  /\ a.then.key # Absent
            /\ Return(d, a, <<SetValue(SetLeaf(leaf, OrZero(a.snap[leaf]) + 1))>>)
            /\ UNCHANGED <<sessionVars, started, landVars>>

\* "as! [String]" on a list with a hole or on the node of all lists, "as! Int"
\* on the node of all counts, and child("") when that node is empty.
FailsOnLand(a) ==
    \/ /\ a.then.op \in {"placeActive", "removeActive"}
       /\ Exists(a.snap)
       /\ a.then.key \in Key => HasHole(a.snap, a.then.key)
    \/ a.then.op = "removeInventory" /\ a.then.key = Absent

CrashOnLand(d) ==
    /\ \E a \in Answers(d) : FailsOnLand(a)
    /\ Crash(d)
    /\ grid' = [grid EXCEPT ![d] = NoGrid]
    /\ UNCHANGED <<started, deeds>>

-----------------------------------------------------------------------------

\* Items of one kind in a record.
Placed(account, k)  == Cardinality({l \in ActiveList(k) : account[l] # Absent})
Owned(account, k)   == OrZero(account[Inventory(k)]) + Placed(account, k)

\* A list grows by one entry with each item placed, so it has room for all.
ASSUME LandAssumption ==
    \A opening \in Openings : \A k \in Key :
        /\ ~HasHole(opening, k)
        /\ ListLength(opening, k) + MaxOps * Cardinality(Device) <= MaxIndex + 1

LandStart ==
    /\ grid = [d \in Device |-> NoGrid]
    /\ deeds = [k \in Key |-> Owned(record, k)]

LandInit == UsersInit /\ LandStart

LandStep(d) ==
    \/ \E i \in 1..Len(inventoryItems[d]) : OnPlaceItem(d, i)
    \/ OnBackButtonPressed(d)
    \/ \E c \in Coordinate : OnPlacementCompleted(d, c) \/ OnRemove(d, c)
    \/ GotPlaceActive(d) \/ GotPlaceInventory(d)
    \/ GotRemoveActive(d) \/ GotRemoveInventory(d)
    \/ CrashOnLand(d)

\* An open grid goes with the process.
GridStays == grid' = [d \in Device |-> IF up'[d] THEN grid[d] ELSE NoGrid]

LandNext ==
    \E d \in Device :
        \/ LandStep(d)
        \/ /\ DidSignIn(d) \/ SessionAnswer(d) \/ EnvironmentStep(d)
           /\ GridStays
           /\ UNCHANGED <<started, deeds>>

allLandVars == <<dbVars, sessionVars, started, landVars>>

LandSpec == LandInit /\ [][LandNext]_allLandVars

-----------------------------------------------------------------------------
(* Properties.                                                             *)

\* Every variable of the land has values of its type, and the local lists hold
\* counts and coordinates the screens can show.
LandTypeOK ==
    /\ record \in [Leaf -> Value] /\ WellTyped(record)
    /\ grid \in [Device -> {NoGrid} \cup [key : Key, free : SUBSET Coordinate]]
    /\ deeds \in [Key -> Nat]
    /\ started \in [Device -> 0..MaxOps]
    /\ coordinatesOccupied \in [Device -> [Coordinate -> Nat]]
    /\ \A d \in Device : \A i \in DOMAIN inventoryItems[d] :
          /\ inventoryItems[d][i].key \in Key \cup {Absent}
          /\ inventoryItems[d][i].count \in Nat \ {0}
    /\ \A d \in Device : \A i \in DOMAIN activeItems[d] :
          /\ activeItems[d][i].key \in Key
          /\ Seqs!ToSet(activeItems[d][i].coordinates) \subseteq Coordinate

\* After a lost connection the client sends again what the server may have, so
\* for a while, and for good when the process ends meanwhile, the record goes
\* through old states out of step with the newer ones.
Replayed ==
    faults.drops > 0 /\ (ProcessHasEnded \/ \E d \in Device : ~Settled(d))

\* "snapshot.value as! [String]" (PlacementGridViewController.swift:139,
\* RemoveItemViewController.swift:99) and "as! [String: [String]]"
\* (LoginViewController.swift:124) assert that the lists of the record are
\* arrays: no entry is missing between two others, whenever a get may be answered.
ListsAreArrays == Replayed \/ \A k \in Key : ~HasHole(record, k)

\* No coordinate holds two items: the grid disables "these buttons ... to
\* prohibit the user from overlapping game items" (README.txt:45).
OneOccupant ==
    Replayed \/ \A c \in Coordinate : Cardinality({l \in ActiveLeaves : record[l] = c}) <= 1

\* Placing and removing neither create nor destroy an item, although the two
\* blocks of each look at the record on their own
\* (PlacementGridViewController.swift:134 and 159,
\* RemoveItemViewController.swift:94 and 131).
ItemsKept ==
    (~Disturbed /\ \A d \in Device : Settled(d))
    => \A k \in Key : Owned(record, k) = deeds[k]

\* Between two operations the screens of the land tell what the record holds:
\* an item stands where its list says, the grid disables exactly the coordinates
\* in use, and the inventory offers no more than there is
\* (RemoveItemViewController.swift:118 lets it offer less).  So it is after the
\* next sign-in, whether the user left or the app was killed between two writes.
Shown(d, k) ==
    UNION {Seqs!ToSet(activeItems[d][i].coordinates) :
              i \in {j \in DOMAIN activeItems[d] : activeItems[d][j].key = k}}

Offered(d, k) ==
    Seqs!FoldSeq(LAMBDA row, n : IF row.key = k THEN row.count + n ELSE n,
                 0, inventoryItems[d])

ScreensAgree ==
    \A d \in Device :
        (faults.drops = 0 /\ stage[d] = "tabs" /\ Settled(d)) =>
            /\ \A k \in Key :
                  /\ Shown(d, k) = {record[l] : l \in ActiveList(k)} \ {Absent}
                  /\ Offered(d, k) <= OrZero(record[Inventory(k)])
            /\ \A c \in Coordinate :
                  coordinatesOccupied[d][c] =
                      Cardinality({l \in ActiveLeaves : record[l] = c})

\* Users who wait for their answers never make the app end itself, as long as
\* the connection holds.
OnlyDropsCrash == faults.crashed => faults.drops > 0
=============================================================================
