---------------------------- MODULE Leaderboard ----------------------------
(***************************************************************************)
(* The Dashboard's leaderboard on one device, over the rows of all users:  *)
(* a listener on the last Limit rows by allTimeLeaves, whose block fills   *)
(* the first Places labels with those of the rows whose users take part.   *)
(*                                                                         *)
(*   rows[u]    the server's users/<u>: what the board reads of it, or     *)
(*              NoRow                                                      *)
(*   listens    the client has the listener to keep up                     *)
(*   watching   the server holds the listener's registration               *)
(*   online     the connection is established                              *)
(*   feed       the windows sent to the device and not processed, in order *)
(*   seen       the window processed last, as a set; empty before any      *)
(*   labels[i]  what the screen shows at place i                           *)
(*   changes    changes of the rows so far                                 *)
(*   drops      connections lost so far                                    *)
(*                                                                         *)
(* What the accounts' own operations do to the record is in the other      *)
(* modules; here any user's row changes as they may change it, and the     *)
(* device sees its own user's changes as it sees those of the others.      *)
(***************************************************************************)
EXTENDS Integers, Sequences, FiniteSets

CONSTANTS
    User,        \* all accounts
    IdRank,      \* the place of the uid among all, by user
    Gain,        \* leaves a user may earn at once
    Limit,       \* rows the query covers
    Places,      \* labels on the screen
    Rosters,     \* rows the server may hold at the beginning
    NoRow,       \* the user has no record
    MaxChanges,  \* bound: changes of rows in one behaviour
    MaxDrops     \* bound: connections lost in one behaviour

Row(leaves, takesPart) == [leaves |-> leaves, leaderboard |-> takesPart]
Rows == [leaves : Nat, leaderboard : {0, 1}]

ASSUME LeaderboardAssumption ==
    /\ IsFiniteSet(User)
    /\ IdRank \in [User -> Nat]
    /\ \A u, v \in User : IdRank[u] = IdRank[v] => u = v
    /\ Gain \subseteq Nat
    /\ Limit \in Nat \ {0}
    /\ Places \in 1..Limit
    /\ NoRow \notin User \cup Rows
    /\ Rosters \subseteq [User -> Rows \cup {NoRow}]
    /\ MaxChanges \in Nat
    /\ MaxDrops \in Nat

VARIABLES rows, listens, watching, online, feed, seen, labels, changes, drops

connection == <<listens, watching, online, drops>>
screen     == <<seen, labels>>
vars       == <<rows, connection, feed, screen, changes>>

NoLabel == [user |-> NoRow, leaves |-> 0]

-----------------------------------------------------------------------------
(* The query and the block.                                                *)

Users(roster) == {u \in User : roster[u] # NoRow}

\* queryOrdered(byChild: "allTimeLeaves"): by the value, then by the key.
Below(roster, u, v) ==
    \/ roster[u].leaves < roster[v].leaves
    \/ roster[u].leaves = roster[v].leaves /\ IdRank[u] < IdRank[v]

Above(roster, u) == {v \in Users(roster) : Below(roster, u, v)}

\* queryLimited(toLast: 15): the rows with fewer than Limit rows above them.
Unlimited(roster) == roster
Window(roster) ==
    [u \in User |-> IF u \in Users(roster) /\ Cardinality(Above(roster, u)) < Limit
                    THEN roster[u] ELSE NoRow]

\* The users whose rows the block shows, and the index it has counted to when it
\* comes to one of them: it goes through the rows from the last one to the first.
TakingPart(roster) == {u \in Users(roster) : roster[u].leaderboard = 1}
FromTheFirst(window, u) == Cardinality({v \in TakingPart(window) : Below(window, v, u)})
Index(window, u) == Cardinality({v \in TakingPart(window) : Below(window, u, v)})

\* The block of observe: a label for which there is no row stays as it is.
LabelOf(window, u) == [user |-> u, leaves |-> window[u].leaves]
Shown(window, i)   == {u \in TakingPart(window) : Index(window, u) = i - 1}
Filled(window, old) ==
    [i \in 1..Places |->
        IF Shown(window, i) = {} THEN old[i]
        ELSE LabelOf(window, CHOOSE u \in Shown(window, i) : TRUE)]

-----------------------------------------------------------------------------
(* The users.                                                              *)

\* The server applies a change and tells the listener, if its window differs.
Change(roster) ==
    /\ changes < MaxChanges
    /\ changes' = changes + 1
    /\ rows' = roster
    /\ feed' = IF watching /\ Window(roster) # Window(rows)
               THEN Append(feed, Window(roster)) ELSE feed
    /\ UNCHANGED <<connection, screen>>

\* The record of a new account.
Join(u) == rows[u] = NoRow /\ Change([rows EXCEPT ![u] = Row(0, 1)])

\* A reward or a redemption.
Earn(u, n) ==
    /\ rows[u] # NoRow
    /\ Change([rows EXCEPT ![u].leaves = @ + n])

\* leaderSettingsSwitched
TakePart(u, joins) ==
    /\ rows[u] # NoRow
    /\ Change([rows EXCEPT ![u].leaderboard = joins])

\* deleteButtonPressed
Delete(u) == rows[u] # NoRow /\ Change([rows EXCEPT ![u] = NoRow])

-----------------------------------------------------------------------------
(* The device.                                                             *)

\* viewDidLoad of a Dashboard: blank labels, and one more observer, which is
\* given at once the window that an earlier one has brought.  The observers that
\* viewWillAppear adds are given that window too and change nothing.
ViewDidLoad ==
    /\ listens' = TRUE
    /\ watching' = (watching \/ (online /\ ~listens))
    /\ feed' = IF online /\ ~listens THEN Append(feed, Window(rows)) ELSE feed
    /\ LET blank == [i \in 1..Places |-> NoLabel]
       IN  labels' = IF seen = {} THEN blank
                     ELSE Filled(CHOOSE window \in seen : TRUE, blank)
    /\ UNCHANGED <<rows, seen, online, changes, drops>>

\* The oldest message is processed.
UsersChanged ==
    /\ feed # <<>>
    /\ feed' = Tail(feed)
    /\ seen' = {Head(feed)}
    /\ labels' = Filled(Head(feed), labels)
    /\ UNCHANGED <<rows, connection, changes>>

Disconnect ==
    /\ online
    /\ drops < MaxDrops
    /\ drops' = drops + 1
    /\ online' = FALSE
    /\ watching' = FALSE
    /\ feed' = <<>>
    /\ UNCHANGED <<rows, listens, screen, changes>>

\* The listens there are when the connection is restored.
NoneRestored == FALSE
ListenRestored == listens

\* restoreState sends the listen again, and the server answers with the window
\* of the moment.
Reconnect ==
    /\ ~online
    /\ online' = TRUE
    /\ watching' = ListenRestored
    /\ feed' = IF ListenRestored THEN <<Window(rows)>> ELSE <<>>
    /\ UNCHANGED <<rows, listens, drops, screen, changes>>

-----------------------------------------------------------------------------

Init ==
    /\ rows \in Rosters
    /\ listens = FALSE
    /\ watching = FALSE
    /\ online = TRUE
    /\ feed = <<>>
    /\ seen = {}
    /\ labels = [i \in 1..Places |-> NoLabel]
    /\ changes = 0
    /\ drops = 0

Next ==
    \/ \E u \in User :
        \/ Join(u) \/ Delete(u)
        \/ \E n \in Gain : Earn(u, n)
        \/ \E joins \in {0, 1} : TakePart(u, joins)
    \/ ViewDidLoad \/ UsersChanged
    \/ Disconnect \/ Reconnect

Spec == Init /\ [][Next]_vars

\* The worker queue processes what arrives, and a lost connection is made again.
FairSpec == Spec /\ WF_vars(UsersChanged) /\ WF_vars(Reconnect)

-----------------------------------------------------------------------------
(* Properties.                                                             *)

\* Every variable has values of its type, and no message has more rows than the
\* query asks for.
BoardTypeOK ==
    /\ rows \in [User -> Rows \cup {NoRow}]
    /\ listens \in BOOLEAN /\ watching \in BOOLEAN /\ online \in BOOLEAN
    /\ \A i \in DOMAIN feed : Cardinality(Users(feed[i])) <= Limit
    /\ Cardinality(seen) <= 1
    /\ labels \in [1..Places -> [user : User \cup {NoRow}, leaves : Nat]]

\* How many of those who take part are ahead of u.
Ahead(u) == Cardinality({v \in TakingPart(rows) : Below(rows, u, v)})

\* The query is limited before those who have opted out are left out, so it
\* covers the board only while no more have opted out than it has rows to spare.
Covered ==
    \/ Cardinality(Users(rows)) <= Limit
    \/ Cardinality(Users(rows) \ TakingPart(rows)) <= Limit - Places

\* The top users with the most leaves of all time, each at their place.
BoardIsTop ==
    \A u \in TakingPart(rows) :
        Ahead(u) < Places => labels[Ahead(u) + 1] = LabelOf(rows, u)

\* The board shows "the top five users with the most leaves of all time"
\* (README.txt:21) whenever the device has processed what the server sent,
\* however users come, go, earn and opt out meanwhile
\* (DashboardViewController.swift:85).
BoardIsRight == (watching /\ feed = <<>> /\ Covered) => BoardIsTop

\* A Dashboard that was opened once gets there, whatever was lost on the way
\* (FPersistentConnection.m:1091).
BoardCatchesUp == listens ~> (~Covered \/ BoardIsTop)
=============================================================================
