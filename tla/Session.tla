------------------------------ MODULE Session ------------------------------
(***************************************************************************)
(* The app's process on each device, from the login screen on: the global  *)
(* lists the tabs work with, and how signing in fills them.                *)
(*                                                                         *)
(*   stage[d]               "login": LoginViewController is shown;         *)
(*                          "welcome": a new user chooses an avatar;       *)
(*                          "tabs": the user is past both;                 *)
(*                          "leaving": the account was deleted and the     *)
(*                          login screen has not loaded yet                *)
(*   inventoryItems[d]      the rows of the inventory: key and count       *)
(*   activeItems[d]         the items placed on the land: key and the      *)
(*                          coordinates they stand on                      *)
(*   coordinatesOccupied[d] how often each coordinate is in the list of    *)
(*                          that name (its order is never looked at)       *)
(*                                                                         *)
(* The segue out of the login screen is performed before any of the three  *)
(* gets is answered, so the tabs can be used while the lists still fill.   *)
(***************************************************************************)
EXTENDS RealtimeDatabase

VARIABLES stage, inventoryItems, activeItems, coordinatesOccupied

listVars    == <<inventoryItems, activeItems, coordinatesOccupied>>
sessionVars == <<stage, listVars>>

\* gameItem, by the two uses it has.  The displayed name is a function of the
\* key; the count of an active item is never read.
InventoryRow(k, n)    == [key |-> k, count |-> n]
ActiveEntry(k, coords) == [key |-> k, coordinates |-> coords]

NoCoordinates == [c \in Coordinate |-> 0]

\* The tags of this module's blocks.
NameAnswer      == [op |-> "displayName"]
InventoryAnswer == [op |-> "inventory"]
ActiveAnswer    == [op |-> "activeItems"]

-----------------------------------------------------------------------------
(* Reading a subtree out of a snapshot.                                    *)

KeysHeld(snap)   == {k \in Key : snap[Inventory(k)] # Absent}
KeysPlaced(snap) == {k \in Key : \E i \in 0..MaxIndex : snap[ActiveItem(k, i)] # Absent}

\* A list with a hole does not come back as an array of strings, so
\* "as! [String]" ends the process.
HasHole(snap, k) ==
    \E i \in 0..MaxIndex :
        /\ snap[ActiveItem(k, i)] # Absent
        /\ \E j \in 0..(i - 1) : snap[ActiveItem(k, j)] = Absent

ListLength(snap, k) ==
    Cardinality({i \in 0..MaxIndex : snap[ActiveItem(k, i)] # Absent})

ListOf(snap, k) ==
    [i \in 1..ListLength(snap, k) |-> snap[ActiveItem(k, i - 1)]]

\* A dictionary is walked in an order of its own.
Orders(S) ==
    {f \in [1..Cardinality(S) -> S] : \A i, j \in DOMAIN f : f[i] = f[j] => i = j}

\* A list is walked from its first row to its last.
Ascending(S) == {f \in Orders(S) : \A i, j \in DOMAIN f : i < j => f[i] < f[j]}

\* inventoryItems.sort: rows of the same name may come in any order.
Sorted(rows) ==
    {[i \in DOMAIN rows |-> rows[order[i]]] :
        order \in {f \in Orders(DOMAIN rows) :
            \A i, j \in DOMAIN f :
                i < j => Rank[rows[f[i]].key] <= Rank[rows[f[j]].key]}}

-----------------------------------------------------------------------------
(* The process.                                                            *)

\* The process ends and takes the lists with it.
AppEnds(d) ==
    /\ ProcessEnds(d)
    /\ stage' = [stage EXCEPT ![d] = "login"]
    /\ inventoryItems' = [inventoryItems EXCEPT ![d] = <<>>]
    /\ activeItems' = [activeItems EXCEPT ![d] = <<>>]
    /\ coordinatesOccupied' = [coordinatesOccupied EXCEPT ![d] = NoCoordinates]

\* Auth.auth().currentUser # nil.  The login screen signs out when it loads.
SignedIn(d) == stage[d] # "login"

\* A block fails a forced unwrap or cast.
Crash(d) ==
    /\ faults' = [faults EXCEPT !.crashed = TRUE]
    /\ AppEnds(d)

\* The user or the system ends the app.
Kill(d) ==
    /\ up[d]
    /\ faults.kills < MaxKills
    /\ faults' = [faults EXCEPT !.kills = @ + 1]
    /\ AppEnds(d)

Launch(d) == ProcessStarts(d) /\ UNCHANGED sessionVars

-----------------------------------------------------------------------------
(* Signing in.                                                             *)

\* authUI(_:didSignInWith:error:), up to the segue to the next screen, which
\* issues further calls of its own.
SignIn(d, screen, calls) ==
    /\ up[d]
    /\ stage[d] = "login"
    /\ stage' = [stage EXCEPT ![d] = screen]
    /\ inventoryItems' = [inventoryItems EXCEPT ![d] = <<>>]
    /\ activeItems' = [activeItems EXCEPT ![d] = <<>>]
    /\ coordinatesOccupied' = [coordinatesOccupied EXCEPT ![d] = NoCoordinates]
    /\ Dispatch(d, <<GetData({DisplayName}, NameAnswer)>> \o calls)

\* populateDashboard's observer.
ObserveUsers(d) == IF d \in Listening THEN <<Observe>> ELSE <<>>

\* A user who has signed in before comes to the tabs, and first of all to the
\* Dashboard.
DidSignIn(d) == SignIn(d, "tabs", ObserveUsers(d))

\* A sign-in that finds no record writes one, any other reads the two lists.
NewAccount ==
    [l \in Leaf |->
        IF l \in {DisplayName, CurrentLeaves, AllTimeLeaves, Notifications} THEN 0
        ELSE IF l = OnLeaderboard THEN 1
        ELSE Absent]

GotDisplayName(d) ==
    \E a \in AnswersTo(d, "displayName") :
        /\ Return(d, a, IF Exists(a.snap)
                        THEN <<GetData(InventoryLeaves, InventoryAnswer),
                               GetData(ActiveLeaves, ActiveAnswer)>>
                        ELSE <<SetValue(NewAccount)>>)
        /\ UNCHANGED sessionVars

GotInventory(d) ==
    \E a \in AnswersTo(d, "inventory") :
        /\ Return(d, a, <<>>)
        /\ \E order \in Orders(KeysHeld(a.snap)) :
           \E rows \in Sorted(inventoryItems[d] \o
                        [i \in DOMAIN order |->
                            InventoryRow(order[i], a.snap[Inventory(order[i])])]) :
              inventoryItems' = IF Exists(a.snap)
                                THEN [inventoryItems EXCEPT ![d] = rows]
                                ELSE inventoryItems
        /\ UNCHANGED <<stage, activeItems, coordinatesOccupied>>

GotActiveItems(d) ==
    \E a \in AnswersTo(d, "activeItems") :
        /\ \A k \in Key : ~HasHole(a.snap, k)
        /\ Return(d, a, <<>>)
        /\ \E order \in Orders(KeysPlaced(a.snap)) :
              activeItems' = [activeItems EXCEPT ![d] =
                  @ \o [i \in DOMAIN order |->
                          ActiveEntry(order[i], ListOf(a.snap, order[i]))]]
        /\ coordinatesOccupied' = [coordinatesOccupied EXCEPT ![d] =
              [c \in Coordinate |->
                  @[c] + Cardinality({l \in ActiveLeaves : a.snap[l] = c})]]
        /\ UNCHANGED <<stage, inventoryItems>>

\* "snapshot.value as! [String: [String]]" fails.
CrashOnActiveItems(d) ==
    /\ \E a \in AnswersTo(d, "activeItems") : \E k \in Key : HasHole(a.snap, k)
    /\ Crash(d)

-----------------------------------------------------------------------------
(* The Dashboard's leaderboard.  A row without the fields that every new   *)
(* account gets ends the process.                                          *)

\* user["leaderboard"] as! Int, and for those who take part
\* user["allTimeLeaves"] as! Int.
Rankable(row) ==
    Exists(row) =>
        /\ row[OnLeaderboard] # Absent
        /\ row[OnLeaderboard] = 1 => row[AllTimeLeaves] # Absent

LeaderboardChanged(d) ==
    /\ \A row \in RowsShown(d) : Rankable(row)
    /\ ReceiveEvent(d)
    /\ UNCHANGED sessionVars

CrashOnPartialRow(d) ==
    /\ \E row \in RowsShown(d) : ~Rankable(row)
    /\ Crash(d)

-----------------------------------------------------------------------------

SessionInit(opening) ==
    /\ DatabaseInit(opening)
    /\ stage = [d \in Device |-> "login"]
    /\ inventoryItems = [d \in Device |-> <<>>]
    /\ activeItems = [d \in Device |-> <<>>]
    /\ coordinatesOccupied = [d \in Device |-> NoCoordinates]

\* The blocks of this module.
SessionAnswer(d) ==
    \/ GotDisplayName(d) \/ GotInventory(d) \/ GotActiveItems(d)
    \/ CrashOnActiveItems(d)
    \/ LeaderboardChanged(d) \/ CrashOnPartialRow(d)

\* Steps that are not the app's own code: the client library, the server, the
\* network and the operating system.
EnvironmentStep(d) ==
    \/ ClientStep(d) /\ UNCHANGED sessionVars
    \/ ServerStep(d) /\ UNCHANGED sessionVars
    \/ Disconnect(d) /\ UNCHANGED sessionVars
    \/ Reconnect(d) /\ UNCHANGED sessionVars
    \/ Kill(d)
    \/ Launch(d)
=============================================================================
