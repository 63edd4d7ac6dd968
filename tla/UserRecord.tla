----------------------------- MODULE UserRecord -----------------------------
(***************************************************************************)
(* The record users/<uid> that the app keeps in the Firebase Realtime      *)
(* Database, seen as a function from the leaves of that subtree to values. *)
(* A leaf is the path below users/<uid>; Absent stands for "no data at     *)
(* this path".                                                             *)
(*                                                                         *)
(* The module only fixes the schema: which paths the view controllers read *)
(* and write.  It has no state.                                            *)
(***************************************************************************)
EXTENDS Integers, Sequences, FiniteSets

CONSTANTS
    Device,      \* phones and tablets on which the account is used
    Key,         \* storeItems' keys ("solarPanel", "tree", ...)
    Cost,        \* storeItems' cost, by key
    Rank,        \* the place of the item's name in the alphabet, by key
    Entry,       \* the rows of manualEntryData, by index
    Points,      \* manualEntryData's value, by row
    Coordinate,  \* cells of the placement grid ("(0,0)" ... "(4,3)")
    MaxOps,      \* bound: operations a device starts in one behaviour
    MaxIndex,    \* bound: highest index of an activeItems list
    Absent       \* no data at a path

ASSUME SchemaAssumption ==
    /\ IsFiniteSet(Device) /\ Device # {}
    /\ IsFiniteSet(Key)
    /\ Cost \in [Key -> Nat]
    /\ Rank \in [Key -> Nat]
    /\ IsFiniteSet(Entry) /\ Entry \subseteq Nat
    /\ Points \in [Entry -> Nat]
    /\ MaxOps \in Nat
    /\ MaxIndex \in Nat
    /\ Absent \notin Int
    /\ Absent \notin Coordinate
    /\ Coordinate \cap Int = {}

-----------------------------------------------------------------------------
(* The leaves.                                                             *)

DisplayName     == <<"displayName">>
CurrentLeaves   == <<"currentLeaves">>
AllTimeLeaves   == <<"allTimeLeaves">>
LastVisitedDate == <<"lastVisitedDate">>
OnLeaderboard   == <<"leaderboard">>
Avatar          == <<"avatar">>
Notifications   == <<"notifications">>
Inventory(k)    == <<"inventory", k>>
ActiveItem(k, i) == <<"activeItems", k, i>>

\* One row of users/<uid>/history.  The key that childByAutoId draws is unique,
\* so it is named by who drew it: device d, its n-th operation, form row e.
History(d, n, e) == <<"history", d, n, e>>

Profile ==
    {DisplayName, CurrentLeaves, AllTimeLeaves, LastVisitedDate,
     OnLeaderboard, Avatar, Notifications}
InventoryLeaves == {Inventory(k) : k \in Key}
ActiveList(k)   == {ActiveItem(k, i) : i \in 0..MaxIndex}
ActiveLeaves    == UNION {ActiveList(k) : k \in Key}
HistoryLeaves   == {History(d, n, e) : d \in Device, n \in 1..MaxOps, e \in Entry}

Leaf == Profile \cup InventoryLeaves \cup ActiveLeaves \cup HistoryLeaves

Value == Int \cup Coordinate \cup {Absent}

OrZero(v) == IF v = Absent THEN 0 ELSE v

-----------------------------------------------------------------------------
(* Values on leaves: a snapshot, a write and the record itself are all     *)
(* functions from a set of leaves to values.                               *)

Exists(snap) == \E l \in DOMAIN snap : snap[l] # Absent

\* setValue, removeValue and updateChildValues all replace the data at the
\* leaves they cover and leave the others alone.
Replace(base, write) == write
Overlay(base, write) ==
    [l \in DOMAIN base |-> IF l \in DOMAIN write THEN write[l] ELSE base[l]]

SetLeaf(l, v) == [x \in {l} |-> v]

Nothing == [l \in Leaf |-> Absent]

\* The type a leaf's data has in the app: the casts "as! Int" and
\* "as! [String]" of the view controllers rely on it.
ValueAt(l) == IF l[1] = "activeItems" THEN Coordinate ELSE Int

WellTyped(m) == \A l \in DOMAIN m : m[l] \in ValueAt(l) \cup {Absent}
=============================================================================
