------------------------------- MODULE Wallet -------------------------------
(***************************************************************************)
(* Leaves, the app's currency: buying a store item, claiming the reward of *)
(* the day and redeeming recycled objects.  Each of the three is a chain   *)
(* of getData blocks that read a total, compute in the app and write the   *)
(* result back; nothing in the code keeps two chains from overlapping.     *)
(*                                                                         *)
(*   today          the date all devices format with "dd.MM.yyyy"          *)
(*   shelf[d][c]    storeItem of the store table's cell c: reloads and     *)
(*                  scrolling hand the same cell other items               *)
(*   readLeaves[d][n]  the variable currentLeaves that the two blocks of   *)
(*                  purchase n share; Absent is nil                        *)
(*                                                                         *)
(* Two history variables record what the blocks meant, to compare with     *)
(* what the record shows:                                                  *)
(*                                                                         *)
(*   outcome[d][n]  "paid": the price was deducted, "delivered": the item  *)
(*                  was written to the inventory, "refused": the alert     *)
(*                  "Not enough leaves" was shown                          *)
(*   ledger         the account as it would be had every deduction and     *)
(*                  every gain been applied to it one after the other;     *)
(*                  rewards[t] counts the rewards granted on day t, and    *)
(*                  redeemed the leaves gained by redemptions              *)
(***************************************************************************)
EXTENDS Users

CONSTANTS
    Cell,       \* cells of the store's table view
    Quantity,   \* numbers the user may type into a row of the form
    MaxDay,     \* bound: days in one behaviour
    Reuse       \* cells may be handed another item at any time

\* No total below zero in a record.
Funded(account) ==
    \A l \in {CurrentLeaves, AllTimeLeaves} : account[l] # Absent => account[l] >= 0

ASSUME WalletAssumption ==
    /\ Quantity \subseteq Int
    /\ MaxDay \in Nat \ {0}
    /\ \A opening \in Openings : Quantity \subseteq Nat => Funded(opening)
    /\ Reuse \in BOOLEAN

Day == 1..MaxDay

VARIABLES today, shelf, readLeaves, outcome, ledger

storeVars   == <<shelf, readLeaves>>
historyVars == <<outcome, ledger>>
walletVars  == <<today, started, storeVars, historyVars>>
vars        == <<dbVars, sessionVars, walletVars>>

-----------------------------------------------------------------------------
(* The store.                                                              *)

\* StoreTableViewCell.buyOnClick: both gets are dispatched at once, the second
\* one for the item the cell shows now.
LeavesCall(n, c) == GetData({CurrentLeaves}, [op |-> "buyLeaves", n |-> n, cell |-> c])
ItemCall(n, c, leaf) ==
    GetData({leaf}, [op |-> "buyItem", n |-> n, cell |-> c, leaf |-> leaf])

BuyOnClick(d, c) ==
    /\ MayStart(d)
    /\ Start(d)
    /\ Dispatch(d, <<LeavesCall(Op(d), c), ItemCall(Op(d), c, Inventory(shelf[d][c]))>>)
    /\ UNCHANGED <<sessionVars, today, storeVars, historyVars>>

\* cellForRowAt hands cell c item k.
CellForRow(d, c, k) ==
    /\ Reuse
    /\ stage[d] = "tabs"
    /\ shelf[d][c] # k
    /\ shelf' = [shelf EXCEPT ![d][c] = k]
    /\ UNCHANGED <<dbVars, sessionVars, today, started, readLeaves, historyVars>>

Price(d, c) == Cost[shelf[d][c]]

\* Which item a block that has looked at cell c once may find there when it looks
\* again: it runs on the worker queue, cellForRowAt on the main one.
MayShow(d, c) == {shelf[d][c]} \cup {k \in Key : Reuse /\ stage[d] = "tabs"}

\* "leaves - price >= 0" for a number that was read.
AffordsAll(leaves, price) == leaves # Absent
Affords(leaves, price) == leaves # Absent /\ leaves - price >= 0

\* The first block pays, if the leaves last: it compares the price of the item
\* that the cell shows, and deducts that of the item it shows at the next look.
GotBuyLeaves(d) ==
    \E a \in AnswersTo(d, "buyLeaves") : \E k \in MayShow(d, a.then.cell) :
        LET leaves == a.snap[CurrentLeaves]
            pays   == Affords(leaves, Price(d, a.then.cell))
        IN  /\ readLeaves' = [readLeaves EXCEPT ![d][a.then.n] = leaves]
            /\ Return(d, a, IF pays
                            THEN <<SetValue(SetLeaf(CurrentLeaves, leaves - Cost[k]))>>
                            ELSE <<>>)
            /\ IF pays
               THEN /\ outcome' = [outcome EXCEPT ![d][a.then.n] = @ \cup {"paid"}]
                    /\ ledger' = [ledger EXCEPT !.current = @ - Cost[k]]
               ELSE UNCHANGED historyVars
            /\ UNCHANGED <<sessionVars, today, started, shelf>>

\* The second block's own look at the number the first one read.
SurelyAffordable(d, a) == readLeaves[d][a.then.n] # Absent
AffordableAfterPaying(d, a) ==
    LET price == Price(d, a.then.cell)
    IN  Affords(readLeaves[d][a.then.n] - price, price)
Affordable(d, a) == Affords(readLeaves[d][a.then.n], Price(d, a.then.cell))

RestockedFromZero(count) == IF count = Absent THEN 0 ELSE count + 1
TwoMore(count) == IF count = Absent THEN 1 ELSE count + 2
OneMore(count) == IF count = Absent THEN 1 ELSE count + 1

\* The count of every row of the item goes up; shown[i] is the item that the
\* cell shows when row i is compared with it.
Restocked(rows, shown) ==
    [i \in DOMAIN rows |-> IF rows[i].key = shown[i]
                           THEN InventoryRow(rows[i].key, rows[i].count + 1) ELSE rows[i]]

\* The second block delivers.  It writes under the key the cell has by now
\* what it read under the key the cell had at the click, and looks at the cell
\* again for the check, the write and each row.
Deliver(d) ==
    \E a \in AnswersTo(d, "buyItem") :
    \E k, added \in MayShow(d, a.then.cell) :
    \E shown \in [DOMAIN inventoryItems[d] -> MayShow(d, a.then.cell)] :
        LET count == a.snap[a.then.leaf]
        IN  /\ Affordable(d, a)
            /\ Return(d, a, <<SetValue(SetLeaf(Inventory(k), OneMore(count)))>>)
            /\ inventoryItems' = [inventoryItems EXCEPT ![d] =
                                    IF count = Absent
                                    THEN Append(@, InventoryRow(added, 1))
                                    ELSE Restocked(@, shown)]
            /\ outcome' = [outcome EXCEPT ![d][a.then.n] = @ \cup {"delivered"}]
            /\ ledger' = [ledger EXCEPT !.goods[k] = @ + 1]
            /\ UNCHANGED <<stage, activeItems, coordinatesOccupied,
                           today, started, storeVars>>

\* The same block when the leaves did not last: the alert, and nothing else.
Refuse(d) ==
    \E a \in AnswersTo(d, "buyItem") :
        /\ readLeaves[d][a.then.n] # Absent
        /\ ~Affordable(d, a)
        /\ Return(d, a, <<>>)
        /\ outcome' = [outcome EXCEPT ![d][a.then.n] = @ \cup {"refused"}]
        /\ UNCHANGED <<sessionVars, today, started, storeVars, ledger>>

\* "currentLeaves!" when the first block has not found or not had its answer.
CrashOnNilLeaves(d) ==
    /\ \E a \in AnswersTo(d, "buyItem") : readLeaves[d][a.then.n] = Absent
    /\ Crash(d)
    /\ UNCHANGED walletVars

-----------------------------------------------------------------------------
(* The daily reward.                                                       *)

\* A tenth of its price for every entry of activeItems.  Counted as the pairs
\* of an entry and one of the leaves it yields.
Yield(entries) ==
    Cardinality(UNION {{i} \X (1..(Cost[entries[i].key] \div 10)) : i \in DOMAIN entries})

\* GameViewController.claimOnClick; the date is formatted at the click.
ClaimOnClick(d) ==
    /\ MayStart(d)
    /\ Start(d)
    /\ Dispatch(d, <<GetData({LastVisitedDate}, [op |-> "claimDate", day |-> today])>>)
    /\ UNCHANGED <<sessionVars, today, storeVars, historyVars>>

\* calculate(): the total is fixed now, the two sums are read later.
Calculate(d) ==
    LET total == Yield(activeItems[d])
    IN  <<GetData({CurrentLeaves}, [op |-> "rewardCurrent", total |-> total]),
          GetData({AllTimeLeaves}, [op |-> "rewardAllTime", total |-> total])>>

SetDate(day) == <<SetValue(SetLeaf(LastVisitedDate, day))>>

\* What a claim made on this day dispatches when it finds this last date.
ClaimCallsUndated(d, last, day) ==
    IF last = Absent THEN Calculate(d)
    ELSE IF last # day THEN Calculate(d) \o SetDate(day)
    ELSE SetDate(day)
ClaimCalls(d, last, day) ==
    IF last = Absent THEN SetDate(day) \o Calculate(d)
    ELSE IF last # day THEN Calculate(d) \o SetDate(day)
    ELSE SetDate(day)

GotClaimDate(d) ==
    \E a \in AnswersTo(d, "claimDate") :
        LET last == a.snap[LastVisitedDate]
        IN  /\ Return(d, a, ClaimCalls(d, last, a.then.day))
            /\ ledger' = [ledger EXCEPT !.rewards[a.then.day] =
                            IF last # a.then.day THEN @ + 1 ELSE @]
            /\ UNCHANGED <<sessionVars, today, started, storeVars, outcome>>

\* "snapshot.value as! Int + total"
OnlyTheTotal(leaves, total) == total
MoreThanTotal(leaves, total) == leaves + total + 1
PlusTotal(leaves, total) == leaves + total

GotRewardCurrent(d) ==
    \E a \in AnswersTo(d, "rewardCurrent") :
        LET leaves == a.snap[CurrentLeaves]
            sum    == PlusTotal(leaves, a.then.total)
        IN  /\ Return(d, a, IF leaves = Absent THEN <<>>
                            ELSE <<SetValue(SetLeaf(CurrentLeaves, sum))>>)
            /\ ledger' = IF leaves = Absent THEN ledger
                         ELSE [ledger EXCEPT !.current = @ + a.then.total]
            /\ UNCHANGED <<sessionVars, today, started, storeVars, outcome>>

GotRewardAllTime(d) ==
    \E a \in AnswersTo(d, "rewardAllTime") :
        LET leaves == a.snap[AllTimeLeaves]
            sum    == PlusTotal(leaves, a.then.total)
        IN  /\ Return(d, a, IF leaves = Absent THEN <<>>
                            ELSE <<SetValue(SetLeaf(AllTimeLeaves, sum))>>)
            /\ ledger' = IF leaves = Absent THEN ledger
                         ELSE [ledger EXCEPT !.allTime = @ + a.then.total]
            /\ UNCHANGED <<sessionVars, today, started, storeVars, outcome>>

NextDay ==
    /\ today < MaxDay
    /\ today' = today + 1
    /\ UNCHANGED <<dbVars, sessionVars, started, storeVars, historyVars>>

-----------------------------------------------------------------------------
(* Redeeming recycled objects.                                             *)

\* Leaves for a filled-in form: the rows' quantities by their points, as the
\* pairs of a row and one of the leaves it earns (or, below zero, costs).
Worth(form) ==
    Cardinality(UNION {{e} \X (1..(form[e] * Points[e])) : e \in Entry})
    - Cardinality(UNION {{e} \X (1..(-(form[e] * Points[e]))) : e \in Entry})

NoSingles(form) == {e \in Entry : form[e] > 1}
Recycled(form) == {e \in Entry : form[e] > 0}

\* What the rows of the history are worth.
HistoryWorth ==
    LET earned(l) == OrZero(record[l]) * Points[l[4]]
    IN  Cardinality(UNION {{l} \X (1..earned(l)) : l \in HistoryLeaves})

\* ManualEntryViewController.redeemButtonPressed: a history row for each
\* positive quantity, whatever the sum; the leaves only when it is not zero.
RedeemButtonPressed(d, form) ==
    /\ MayStart(d)
    /\ Start(d)
    /\ \E order \in Ascending(Recycled(form)) :
         Dispatch(d,
           [i \in DOMAIN order |->
                SetValue(SetLeaf(History(d, Op(d), order[i]), form[order[i]]))]
           \o (IF Worth(form) = 0 THEN <<>>
               ELSE <<GetData(Leaf, [op |-> "redeem", leaves |-> Worth(form)])>>))
    /\ UNCHANGED <<sessionVars, today, storeVars, historyVars>>

GotUser(d) ==
    \E a \in AnswersTo(d, "redeem") :
        LET current == a.snap[CurrentLeaves]
            allTime == a.snap[AllTimeLeaves]
            sums    == [l \in {CurrentLeaves, AllTimeLeaves} |->
                            (IF l = CurrentLeaves THEN current ELSE allTime)
                            + a.then.leaves]
        IN  /\ Exists(a.snap) => SignedIn(d) /\ current # Absent /\ allTime # Absent
            /\ Return(d, a, IF Exists(a.snap) THEN <<SetValue(sums)>> ELSE <<>>)
            /\ ledger' = IF Exists(a.snap)
                         THEN [ledger EXCEPT !.current = @ + a.then.leaves,
                                             !.allTime = @ + a.then.leaves,
                                             !.redeemed = @ + a.then.leaves]
                         ELSE ledger
            /\ UNCHANGED <<sessionVars, today, started, storeVars, outcome>>

\* "user["currentLeaves"] as! Int" on a record that has other data only, or
\* "currentUser!" after the user has left.
CrashOnPartialUser(d) ==
    /\ \E a \in AnswersTo(d, "redeem") :
          /\ Exists(a.snap)
          /\ \/ ~SignedIn(d)
             \/ a.snap[CurrentLeaves] = Absent \/ a.snap[AllTimeLeaves] = Absent
    /\ Crash(d)
    /\ UNCHANGED walletVars

-----------------------------------------------------------------------------

WalletInit ==
    /\ UsersInit
    /\ today = 1
    /\ shelf \in [Device -> [Cell -> Key]]
    /\ readLeaves = [d \in Device |-> [n \in 1..MaxOps |-> Absent]]
    /\ outcome = [d \in Device |-> [n \in 1..MaxOps |-> {}]]
    /\ ledger = [current |-> OrZero(record[CurrentLeaves]),
                 allTime |-> OrZero(record[AllTimeLeaves]),
                 goods   |-> [k \in Key |-> OrZero(record[Inventory(k)])],
                 rewards |-> [t \in Day |-> 0],
                 redeemed |-> HistoryWorth]

StoreStep(d) ==
    \/ \E c \in Cell : BuyOnClick(d, c) \/ \E k \in Key : CellForRow(d, c, k)
    \/ GotBuyLeaves(d) \/ Deliver(d) \/ Refuse(d) \/ CrashOnNilLeaves(d)

RewardStep(d) ==
    ClaimOnClick(d) \/ GotClaimDate(d) \/ GotRewardCurrent(d) \/ GotRewardAllTime(d)

RedeemStep(d) ==
    \/ \E form \in [Entry -> Quantity] : RedeemButtonPressed(d, form)
    \/ GotUser(d) \/ CrashOnPartialUser(d)

WalletNext ==
    \/ \E d \in Device :
        \/ StoreStep(d) \/ RewardStep(d) \/ RedeemStep(d)
        \/ DidSignIn(d) /\ UNCHANGED walletVars
        \/ SessionAnswer(d) /\ UNCHANGED walletVars
        \/ EnvironmentStep(d) /\ UNCHANGED walletVars
    \/ NextDay

WalletSpec == WalletInit /\ [][WalletNext]_vars

\* The dispatch queue runs what is dispatched to it and the server answers.
\* Users, the network and the operating system owe nothing.
WorkerStep(d) ==
    \/ ClientStep(d) /\ UNCHANGED <<sessionVars, walletVars>>
    \/ SessionAnswer(d) /\ UNCHANGED walletVars
    \/ GotBuyLeaves(d) \/ Deliver(d) \/ Refuse(d) \/ CrashOnNilLeaves(d)
    \/ GotClaimDate(d) \/ GotRewardCurrent(d) \/ GotRewardAllTime(d)
    \/ GotUser(d) \/ CrashOnPartialUser(d)

FairWalletSpec ==
    /\ WalletSpec
    /\ \A d \in Device :
        /\ WF_vars(WorkerStep(d))
        /\ WF_vars(ServerStep(d) /\ UNCHANGED <<sessionVars, walletVars>>)

-----------------------------------------------------------------------------
(* Properties.                                                             *)

\* Every variable has values of its type; in particular the record holds data
\* that the casts of the view controllers accept, and so do the writes that
\* wait for an acknowledgement.
TypeOK ==
    /\ record \in [Leaf -> Value] /\ WellTyped(record)
    /\ \A d \in Device : \A i \in DOMAIN pending[d] :
          DOMAIN pending[d][i] \subseteq Leaf /\ WellTyped(pending[d][i])
    /\ \A d \in Device : cache[d] # Absent => WellTyped(cache[d])
    /\ stage \in [Device -> {"login", "welcome", "tabs", "leaving"}]
    /\ \A d \in Device : \A i \in DOMAIN inventoryItems[d] :
          inventoryItems[d][i].key \in Key /\ inventoryItems[d][i].count \in Int
    /\ \A d \in Device : \A i \in DOMAIN activeItems[d] : activeItems[d][i].key \in Key
    /\ today \in Day
    /\ started \in [Device -> 0..MaxOps]
    /\ shelf \in [Device -> [Cell -> Key]]
    /\ readLeaves \in [Device -> [1..MaxOps -> Int \cup {Absent}]]

\* However purchases, claims and redemptions of several devices interleave and
\* however stale the numbers they read, the wallet is never overdrawn while cells
\* keep their items, and otherwise by no more than the difference of two prices,
\* once and not once for every purchase: StoreTableViewCell.swift:47 checks the
\* price of one item, :48 deducts that of the item the cell shows by then.  Claimed
\* as long as nobody types a negative quantity.
Solvent ==
    Quantity \subseteq Nat =>
        \A l \in {CurrentLeaves, AllTimeLeaves} : record[l] # Absent =>
            \/ record[l] >= 0
            \/ /\ Reuse /\ l = CurrentLeaves
               /\ \E j, k \in Key : record[l] >= Cost[j] - Cost[k]

\* An item that is in the inventory is there at least once: no interleaving of
\* purchases leaves a count of zero or less behind (StoreTableViewCell.swift:68, 84).
InStock == Stocked(record)

\* An unacknowledged write is under way exactly once: the writes still on the
\* wire are the newest ones pending, in the order the app issued them, and the
\* older ones are acknowledged by messages not processed yet
\* (FPersistentConnection.m:1098, FRepo.m:654).
WritesUnderWay ==
    \A d \in Device : up[d] =>
        LET acks == Cardinality(Calls(inbox[d], "ack"))
            puts == Calls(wire[d], "put")
        IN  /\ Cardinality(puts) = Len(pending[d]) - acks
            /\ \A i \in puts :
                  wire[d][i].write = pending[d][acks + Cardinality({j \in puts : j <= i})]

\* A purchase has one end: what is delivered was paid for, and nobody who is
\* told "Not enough leaves" has paid, as long as no cell changes its item.  The
\* two blocks decide separately, on a variable they share
\* (StoreTableViewCell.swift:47 and 66).
OneOutcome ==
    ~Reuse => \A d \in Device, n \in 1..MaxOps :
        /\ "delivered" \in outcome[d][n] => "paid" \in outcome[d][n]
        /\ "refused" \in outcome[d][n] => outcome[d][n] = {"refused"}

\* A user who waits for each answer gets the reward of a day once
\* (GameViewController.swift:98), over lost connections and from any device.
OneRewardPerDay == \A t \in Day : ledger.rewards[t] <= 1

\* When nothing is under way the record shows the sum of what every block
\* deducted, added and delivered: no update is lost, none counts twice, and a
\* write sent again after a lost connection changes nothing.
Balanced ==
    (/\ ~ProcessHasEnded
     /\ \A d \in Device : Settled(d))
    => /\ OrZero(record[CurrentLeaves]) = ledger.current
       /\ OrZero(record[AllTimeLeaves]) = ledger.allTime
       /\ \A k \in Key : OrZero(record[Inventory(k)]) = ledger.goods[k]

\* Every row of the history was paid for, and every redemption that was paid for
\* is in the history, however redemptions overlap: the rows are written before
\* the totals are read, in calls of their own (ManualEntryViewController.swift:187
\* and 208).
HistoryIsPaid ==
    (Quantity \subseteq Nat /\ ~Disturbed /\ \A d \in Device : Settled(d))
    => HistoryWorth = ledger.redeemed

\* allTimeLeaves never shows more than was earned, and the inventory never more
\* than was delivered: overlapping read-compute-write chains of several devices
\* lose gains, and none invents one, as long as nobody types a negative quantity
\* and no cell changes its item (GameViewController.swift:154,
\* ManualEntryViewController.swift:220, StoreTableViewCell.swift:68).
AllTimeIsEarned ==
    Quantity \subseteq Nat => OrZero(record[AllTimeLeaves]) <= ledger.allTime

StockIsBought ==
    ~Reuse => \A k \in Key : OrZero(record[Inventory(k)]) <= ledger.goods[k]

\* allTimeLeaves, the number the leaderboard ranks by, never goes down while
\* users wait for their answers and connections hold.
AllTimeNeverDrops ==
    [][OrZero(record'[AllTimeLeaves]) >= OrZero(record[AllTimeLeaves])]_vars

\* A purchase that was paid for is delivered, unless the process ends or the
\* connection is lost before (StoreTableViewCell.swift:48 writes, 68 and 84
\* deliver, with a get of their own in between).
PaidIsDelivered ==
    \A d \in Device, n \in 1..MaxOps :
        "paid" \in outcome[d][n] ~>
            ("delivered" \in outcome[d][n] \/ Disturbed)

-----------------------------------------------------------------------------
(* What the source says of itself and the code does not keep.              *)

\* "var currentLeaves:Int!" (StoreTableViewCell.swift:37) asserts that the first
\* block of a purchase has its number before the second block unwraps it.
LeavesAreRead ==
    \A d \in Device : \A a \in AnswersTo(d, "buyItem") :
        readLeaves[d][a.then.n] # Absent
=============================================================================
