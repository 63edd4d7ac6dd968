# Will It Recycle? - verification project

"Will It Recycle?" is an iOS game (Swift, 2 600 lines, `src/Will-It-Recycle/Will-It-Recycle/`).
Users report what they recycle and earn *leaves*; leaves buy items in a store;
items are placed on a piece of land; the land yields a reward once a day; a
dashboard ranks users by the leaves they ever earned. All lasting state is one
subtree `users/<uid>` of a Firebase Realtime Database, whose client library is
vendored under `src/Will-It-Recycle/Pods/`.

There is no transaction anywhere in the app. Every operation is a chain of
`getData` blocks that read a leaf, compute in the app and write the result back
with `setValue`. The blocks of an operation are independent of each other; no
button is disabled while an answer is awaited; the same account may be open on
several devices; the client answers some reads from its cache and some from
the server. That is where this program can go wrong and what a unit test hardly
reaches, and it is what the project models.

## 1. Inventory

| component | source | state | operations | interacts through | what makes it correct |
|---|---|---|---|---|---|
| Login, session | `LoginViewController.swift`, globals of `InventoryViewController.swift` | lists `inventoryItems`, `activeItems`, `coordinatesOccupied` | sign in; three gets fill the lists; first sign-in writes a record | record; lists shared with every tab | lists agree with the record; no failing cast |
| Store | `StoreTableViewCell.swift`, `StoreViewController.swift` | the cell's `storeItem`, `currentLeaves` of one purchase | buy | `currentLeaves`, `inventory/<key>`, `inventoryItems` | not overdrawn while cells keep their items; paid iff delivered |
| Daily reward | `GameViewController.swift` | - | claim | `lastVisitedDate`, both totals, `activeItems` | once a day; no gain lost or invented; fits the screen |
| Recycle form | `ManualEntryViewController.swift` | the form's quantities | redeem | `history`, both totals | no gain lost or invented |
| Land | `PlacementGridViewController.swift`, `RemoveItemViewController.swift`, `InventoryViewController.swift` | the open grid | place, cancel, remove | `activeItems/<key>/<i>`, `inventory/<key>`, the three lists | lists stay arrays; one item per coordinate; no item lost; screens tell the truth |
| Database client | `FRepo.m`, `FSyncTree.m`, `FWriteTree.m`, `FPersistentConnection.m`, `FView.m`, `FIRDatabaseQuery.m` | worker queue, pending writes, outstanding requests, event cache, connection | get, set, remove, update, observe, ack, disconnect, reconnect, time out | blocks of the app; requests and messages | each unacknowledged write is under way exactly once |
| Database server | external | the record, the listeners | serve a request | requests, replies, events, acks | - |
| Dashboard | `DashboardViewController.swift` | five labels | observe the top 15 rows, rank those who have not opted out | the listener feeds the client's cache | the five best are shown, in order and in the end |
| Settings | `SettingsViewController.swift` | switches | name, e-mail, opt out, notifications, sign out, delete account | single leaves of the record; authentication | wishes are kept; nothing of a deleted account comes back, except the permission |
| Welcome | `WelcomeViewController.swift` | chosen avatar | save avatar | `avatar` | the choice survives the new record |
| History, local information, tabs, delegates | other files | - | read and show | `history` | - |

Behaviours that are hard here: interleaving of blocks of one device and of
several devices; numbers read early and used late; reads from a cache that is
behind the server; answers of two gets of one handler in either order; loss of
the connection (writes are sent again, sent gets are forgotten, waiting gets time
out); the process dying between two writes; a table cell that the main queue hands another item
while a block on the worker queue looks at it; a question to the system that is answered
after the user has gone on; forced casts of whatever the record
holds by then. `PROJECT.json` lists each hazard at its line.

## 2. Modules

```
UserRecord            the schema of users/<uid>; writes and snapshots as functions
  RealtimeDatabase    client and server of one account: queues, cache, connection
    Session           the process, signing in, the three lists, the Dashboard's listener
      Users           who holds the devices: patient or not, and how much they do
        Wallet        buy, claim, redeem
          WalletBook  the mapping of Wallet to AccountBook
        Land          place, cancel, remove
        Account       avatar, settings, the screens that read the whole record,
                      sign out and in again, delete
          Game        Wallet, Land and Account over the same record, client and lists
AccountBook           abstract: one write-behind book of an account
Leaderboard           the query over all users, the board of one device
MCAccount             constants and opening records; MCWallet, MCLand, MCGame
MCLeaderboard         four users and the rosters to begin with
```

The proofs are in modules of their own, each of which extends what it is about:

```
ClientProofs          Session: values in the client, the server and the login screen
  WalletProofs        Wallet: its inductive invariant, steps and theorems
  LandProofs          Land: its steps and types
      GameProofs      both and Account's steps: the whole app
        QueueProofs       writes under way, of the wallet and of the whole app;
                          the two blocks of a purchase
          TurnProofs      the wallet of users who take turns
          AccountProofs   the account of a user who waits: deletion, a record
                          without gaps, wishes
LeaderboardProofs     Leaderboard
```

**UserRecord.** A leaf is the path below `users/<uid>`, as a tuple; the record, a
snapshot and a write are functions from sets of leaves to values, `Absent` where
there is no data. `setValue`, `removeValue` and `updateChildValues` are then one
thing: `Overlay`.

**RealtimeDatabase.** `todo[d]` is the serial queue `FirebaseWorker`
(`FIRDatabaseQuery.m:42`): calls are dispatched to its tail, and each step takes
its head. `ExecuteWrite` is `FRepo set:`/`update:` (remember the write in the
write tree, send it); a get is answered on the spot when `getServerValue` has a
node (`ReadsLocally`) and sent or held otherwise; `ReceiveAck`, `ReceiveEvent`
and the replies take the server's messages in their order. `Answers(d)` is the
set of blocks that may run next, with their snapshots. `Disconnect` and
`Reconnect` are `onDisconnect` and `restoreState`: pending writes go out again in
order, a get already sent is dropped for good, a get still waiting is sent.
`TimeOut` is the three-second timer. The server applies the requests of a
connection in order and sends events to listeners and an acknowledgement to the
writer.

**Session.** `SignIn` empties the lists and starts the first get, together with
what the next screen asks for; `GotDisplayName` reads the lists or writes a new
account; `GotInventory` and `GotActiveItems` fill the lists, in any dictionary
order. A cast that cannot succeed is `Crash`: the process ends with its lists and
queues. The Dashboard's observer matters in two ways: it feeds the client's cache,
from which later gets are answered, and its block casts fields of every row.

**Wallet.** One action per handler (`BuyOnClick`, `ClaimOnClick`, `RedeemButtonPressed`) and one per
block (`GotBuyLeaves`, `Deliver` / `Refuse` / `CrashOnNilLeaves` for the second block of a purchase,
`GotClaimDate`, `GotRewardCurrent`, `GotRewardAllTime`, `GotUser`). `shelf` is the table cell's
`storeItem`, which reloads replace (`CellForRow`). They do so on the main queue, and the blocks of a
purchase look at it several times on the worker queue: `GotBuyLeaves` compares the price of one item
and deducts that of any item the cell may show by then (`MayShow`); `Deliver` checks, writes, and
walks the rows of the inventory with a look of its own for each. `readLeaves` is the variable the
two blocks of a purchase share. `outcome` and `ledger` are history variables: what the blocks meant,
to compare with what the record shows.

**Land.** `OnPlaceItem` opens the grid with the coordinates free at that moment;
`OnPlacementCompleted` and `OnRemove` change the lists at once and dispatch two
gets each; the blocks write the record. `Rewrite` is the removal's
remove-and-write-again of a whole list. `deeds` counts the items the account owns.

**Account.** `FirstSignIn` leads to `ChooseAvatar`, `SignInAgain` to the tabs. `OpenDashboard` and
`OpenSettings` are the two `viewWillAppear`, whose gets of the whole record end in `GotDashboard`,
`GotSettings` or `CrashOnScreen`. `GotSettings` asks the system for the notification permission
(`asked` counts the questions not answered yet); the answer comes at any time, whatever the user has
done since, and is then written to the record (`PermissionKnown`), or fails when nobody is signed in
any more (`CrashOnPermission`). `UpdateButtonPressed`, `LeaderSettingsSwitched`, `AppNotifySwitched`
and `ChangeAvatar` write one leaf each. `SignOutButtonPressed` and `DeleteButtonPressed` leave
lists, observers and blocks under way as they are. Signing out goes back to the login screen. After
a deletion the user is still signed in (stage `leaving`) until the service has answered or the login
screen has loaded, which signs out (`LoginViewDidLoad`): a late permission is written until then.
The authentication service may refuse a deletion, and the code removes the record in any case.
`identity` is what that service has of the account, `wishes` a history variable: what the user asked
for last.

**Game.** The whole app of one account: a step of the wallet, the land or the account
leaves the other two parts' variables alone, except that a delivery and a deletion
change what the account owns (`deeds`). The placement grid is modal: while it is open
nothing else is started.

**Leaderboard.** Seen from one Dashboard and over all users. A roster gives each user a
row or none. `Window` is the query (ordered by `allTimeLeaves`, then by uid, the last
`Limit`): the rows with fewer than `Limit` above them. `Index` is the number the block has
counted to when it comes to a row that takes part, `Filled` what it writes to the labels.
`ViewDidLoad` is a new Dashboard with blank labels and an observer that gets at once the
window an earlier one has brought. `feed` holds the windows sent and not processed; a lost
connection takes them and the registration, and `Reconnect` sends the listen again.
`Join`, `Earn`, `TakePart` and `Delete` are the ways in which any user's row changes.

**AccountBook, WalletBook.** The book is what the wallet promises to users who take
turns: entries are made at once, each from what the one before it left, and reach the
server one by one. `WalletBook` maps the wallet to it: the book is the server's record
followed by the writes not there yet (those on the wire and those queued behind them);
what is owed and due is read from the outcomes and from the blocks still to run. A
block is then an entry, the server's `ServeWrite` is `Save`, the end of a process is
`Lose`, and everything else - dispatching, sending, caching, acknowledging, answering -
stutters. The refinement is checked without listeners and without lost connections: a
listener's cache is behind (`wallet_second_phone`), and a write sent again after a
reconnection puts an old entry back for a while.

### Abstractions

- A handler or block is one step: all of it runs on one queue without yielding. A hop to
  the main queue is folded in where labels and alerts are all that follows. The casts of
  the Dashboard and the settings follow such a hop as well, and are taken at once: they look
  at the block's own snapshot and at nothing else. What the settings do after their second
  hop, once the permission is known, is a step of its own.
- The only thing another queue changes under a block's hands is the table cell, and each
  look at it is a choice of its own (`MayShow`). That the appended row's name is looked up
  apart from its key is left out: the name is not kept in the model.
- Names, images and dates are what the properties tell apart: the display name of
  an item is a function of its key; a date is a day number; names and avatars are
  numbers. `rewardsForToday` is written once and never read. The notification leaf is
  written and never read back, so one value stands for both.
- Gets that only fill labels (`refreshLeaves`) are left out, except those of the
  Dashboard and the settings, whose blocks cast fields and may end the process.
  Which tab is shown is not tracked: a signed-in user may do anything any tab offers.
- A device is used with one account. Whether the authentication service deletes it is
  decided at the click; when `currentUser` becomes nil is not (stage `leaving`).
- In the account's own modules the Dashboard's block runs when the server's event
  arrives; the additional run that the client makes at once after a write of its own
  is left out. Its cast of the row is the same, on a record that a later event shows.
- `Leaderboard` sends windows whole, where the server sends the changed children.
- A get's reply also overwrites the client's cache at its path. Messages of one
  connection are in order, so a listening client has that data already: no effect.
- `Listening` names the devices whose Dashboard query (top 15) contains the
  account's row. A device not in it has no cache and asks the server.
- What the server has received from a process that died is carried out before the
  app starts again on that device.
- The quantity typed into a form row is any member of `Quantity`, a set of
  integers: the form accepts negative ones. Swift's overflow trap is not modelled;
  it needs totals near 2^63.
- Removing a coordinate on which no entry stands uses the empty key, hence the paths
  of whole lists; where the code goes on to add a blank local row, the model adds a
  row with key `Absent` that is never placed.
- The store's cells are few; the grid has as many coordinates as the instance says.

## 3. Properties and runs

All runs end by exhaustion; none checks for deadlock, because users may simply stop
(operations, drops, kills and days are bounded by `MaxOps`, `MaxDrops`, `MaxKills`,
`MaxDay`).

| run | instance | shows |
|---|---|---|
| `wallet_alone` | 1 listening device, patient user who may type a negative quantity, 3 operations, 1 lost connection, 2 days | `TypeOK`, `Balanced` (the record is the sum of all that was done), `WritesUnderWay`, `OneOutcome`, `OneRewardPerDay` |
| `wallet_two_phones` | 2 devices, none listening, patient users, 2 operations each, fairness | `Balanced`, `OneRewardPerDay`, `OneOutcome`, `AllTimeNeverDrops`, `PaidIsDelivered` and the refinement `ImplementsBook` |
| `wallet_races` | 2 devices, one listening, operations overlap | `InStock`, `AllTimeIsEarned`, `StockIsBought`, `OneOutcome`, `HistoryIsPaid`: updates get lost, nothing is invented, the history is true |
| `wallet_hasty` | 1 device, operations overlap, cells reused, 2 kinds at 20 and 60 leaves; new and damaged accounts | `TypeOK`, `Solvent` (overdrawn by the difference of two prices at most), `AllTimeIsEarned` through every crash |
| `land_alone` | 1 device, patient user, 2 kinds, 2 coordinates, 4 operations, 1 lost connection, 1 kill | `LandTypeOK`, `ListsAreArrays`, `OneOccupant`, `ItemsKept`, `ScreensAgree`, `OnlyDropsCrash` |
| `game_day` | 1 device, patient user with an account (with or without an item on the land) or none yet, 2 operations of all parts, 2 days, 1 lost connection, 1 kill | `ItemsKept`, `ScreensAgree`, `RowsAreWhole`, `SettingsKept`, `DeletionLasts` |
| `board` | 4 users, a query of 3, a board of 2, 3 changes, 1 lost connection, fairness | `BoardTypeOK`, `BoardIsRight`, `BoardCatchesUp` |
| `wallet_second_phone` | 2 patient phones, one listening | **violated:** `OneRewardPerDay` |
| `wallet_nil_leaves` | 1 patient phone | **violated:** `LeavesAreRead` |
| `land_holes` | 1 phone, operations overlap | **violated:** `ListsAreArrays` |
| `game_screen` | 1 patient phone | **violated:** `RewardFitsScreen` |
| `account_deleted` | 1 patient phone | **violated:** `NothingComesBack` |

*A purchase* (`OneOutcome`). The two blocks of a purchase decide separately, on a number they
share. That they always agree needs the price to be the same for both: the second block takes
the item from the table cell, whose `storeItem` a reload may have replaced meanwhile. The property
is claimed while no cell changes its item (`~Reuse`), as in all runs that check it.

*The wallet* (`Solvent`). A block never deducts more than the number it was handed, as long as the
cell keeps its item: then no total is below zero, however purchases overlap and however
stale the number was. When the cell is handed another item between
`StoreTableViewCell.swift:47` and `:48`, the price of a cheap item is checked and that of a
dear one deducted, and the code does overdraw the wallet: by the difference of the two
prices. `Solvent` says that it stays at that: purchases do not add up to more, since the
next check finds the negative number. `wallet_hasty` has prices of 20 and 60, reaches totals below
zero and finds none below -40. With negative quantities totals may fall
further, which is why `Solvent` and `AllTimeIsEarned` exclude them; `wallet_alone` has them,
and `Balanced` includes what they take away.

*The account* (`game_day`). Whatever order an account is made, used, left, deleted and made again in
by a patient user: `RowsAreWhole` says that a record that has more than the notification permission
(`Held`) has every field that the Dashboards of all users, the settings and a redemption cast;
`SettingsKept` that name, avatar and opt-out are those asked for last, so neither the late record of
the new account nor a refused deletion undoes them and one lost connection only delays them. Two may
undo them: a sign-in whose get is lost writes no record, so that an avatar chosen then makes a part
of one; if the get of the next Dashboard, whose cast would fail on it, is lost as well, the next
sign-in finds no name and writes a new account over the wishes. `DeletionLasts` says that nothing of
a deleted account comes back but the permission, which the settings may write late, unless the
process ended before its removal was sent. That exception is real: `account_deleted` shows it, and
with it a record of one field on which casts fail. What the two properties add is that nothing else
is in such a record, and that the account made next, which finds it, is whole all the same.
`ScreensAgree` covers the next sign-in as well, of the same process, which must not add to the lists
of the first, and of one started again after a kill.

*The leaderboard* (`board`). `BoardIsRight`: when the device has processed what the server
sent, everyone who takes part and belongs to the best is at the right place with the right
number. The query is limited before those who have opted out are skipped, so this needs
`Covered`: with more than ten of the top fifteen opted out, the code shows fewer than
five. Labels are never cleared: when fewer than five remain, the places after the
last of them keep what they showed, a deleted account included. `BoardCatchesUp`:
a Dashboard once opened shows the right board in the end, lost connections included.

*Why these bounds.* Everything that goes wrong in this code is a race of at most two chains over one
leaf or one list, or one chain against one fault; two devices with one operation each, or one with
three to five operations, contain all such pairs. Thirty leaves and items of twenty make the first
purchase affordable and the second one not, so `Affords` is met on both sides; where cells are
reused a second kind costs sixty, so that a checked price and a deducted one differ; a reward of two
and a redemption of two per object can tip it. Two days make a claim repeatable. Two coordinates and
two items are the least on which a list can lose an entry, skip an index or be overlapped. Signing
up, in and choosing an avatar are not counted among the operations of the whole app, so two of them
are enough to sign up, change something, delete or leave, and come back. A query of three for a
board of two, with four users, has a row to spare, one outside the window, and a tie. `MaxIndex`
leaves room for every placement (`LandAssumption`, evaluated by TLC), so the lists are never cut by
the bound. The mutants in `PROJECT.json` show that each property fails at these bounds once the code
has a plausible bug.

*Patience.* `Overlap = FALSE` is a user who waits: the own device awaits no answer
and the other devices have nothing under way. Nothing in the app enforces it, so
properties claimed only under patience (`Balanced`, `ItemsKept`, `ScreensAgree`, `SettingsKept` ...)
say what the code guarantees a careful user, and the runs with `Overlap = TRUE` what
it guarantees anybody.

*Faults.* After a lost connection the client sends again what the server may have
had already, and the record goes through old states (`Replayed`); `ListsAreArrays`
and `OneOccupant` are claimed when this is over. Screens are compared with the record
only while no connection was lost: handlers change the local lists at once and the blocks
give up silently on an error, so after a lost get they differ for good.

*Fairness.* `FairWalletSpec`: weak fairness of each device's worker queue, since a
dispatch queue runs what is dispatched to it, and of the server, which answers while
there is a connection. Users, network and operating system owe nothing. The
conclusion excuses a lost connection and an ended process. `FairSpec` of the leaderboard:
weak fairness of `UsersChanged` (the same queue) and of `Reconnect` (the client tries
again until it has a connection, `FPersistentConnection.m:384` onwards); connections are
lost finitely often.

### What the violated runs show

1. **A day's reward can be claimed on two phones** (`wallet_second_phone`,
   `GameViewController.swift:98`). `getData` prefers the Dashboard listener's cache; a
   phone that has not processed the first phone's event reads yesterday's date.
2. **A purchase can end the app** (`wallet_nil_leaves`, `StoreTableViewCell.swift:66`).
   After a purchase of the same item, still unacknowledged, the inventory leaf is
   answered locally and the leaves by the server; the second block unwraps nil.
3. **A list can lose its middle** (`land_holes`, `PlacementGridViewController.swift:140`).
   A placement and a removal of the same kind overlap; the account then crashes
   the app at each sign-in (`LoginViewController.swift:124`).
4. **The reward does not fit the screen** (`game_screen`, `GameViewController.swift:122`).
   Entries of `activeItems` are counted, not items: two trees pay once, a removed one
   still pays, and one placed again pays twice.
5. **A deleted account comes back** (`account_deleted`, `SettingsViewController.swift:82`).
   The settings ask the system for the notification permission and write it when the
   answer comes. A user who has waited for every answer of the database can still press
   Delete before; until the login screen has loaded `currentUser` is set, and the write
   brings the record back with this one field. The casts of every Dashboard whose query
   reaches the row fail on it. A hasty user's blocks bring more back: the sums and the date
   of a claim (`GameViewController.swift:106`, `:137`, `:154`).

A limit of `OneOccupant`: it is claimed for one device. A second phone's grid disables
the coordinates it knew at sign-in (`PlacementGridViewController.swift:57`), so items
placed on the other phone since can be overlapped, against README.txt:45, even if the
users take turns.

## 4. Proofs

Every theorem is proved with TLAPS for any set of devices, items, prices, forms, opening
records and any bounds that satisfy the named assumptions of the modules
(`SchemaAssumption`, `ClientAssumption`, `UsersAssumption`, `WalletAssumption`,
`LandAssumption`, `AccountAssumption`, `LeaderboardAssumption`), which TLC evaluates on
the instances. But for the last six, the theorems hold of hasty users as well, of any number
of lost connections and ended processes, and whichever devices listen.

| module | theorem | statement |
|---|---|---|
| `WalletProofs` | `InvHolds` | `WalletSpec => []Inv(TRUE)` |
| | `TypesAreCorrect` | `WalletSpec => []TypeOK` |
| | `NeverOverdrawn` | `WalletSpec => []Solvent` |
| | `AlwaysInStock` | `WalletSpec => []InStock` |
| | `NothingUnearned` | `WalletSpec => []AllTimeIsEarned` |
| | `NothingUnbought` | `WalletSpec => []StockIsBought` |
| `LandProofs` | `LandTypesAreCorrect` | `LandSpec => []LandTypeOK` |
| `GameProofs` | `GameInvHolds` | `GameSpec => []GameInv` |
| | `GameIsSolvent` | `GameSpec => []Solvent` |
| | `GameIsInStock` | `GameSpec => []InStock` |
| | `GameIsEarned` | `GameSpec => []AllTimeIsEarned` |
| | `GameLandTypes` | `GameSpec => []LandTypeOK` |
| `QueueProofs` | `WritesAreUnderWay` | `WalletSpec => []WritesUnderWay` |
| | `GameWritesAreUnderWay` | `GameSpec => []WritesUnderWay` |
| | `PurchasesHaveOneEnd` | `WalletSpec => []OneOutcome` |
| | `GamePurchasesHaveOneEnd` | `GameSpec => []OneOutcome` |
| `LeaderboardProofs` | `BoardInvHolds` | `Spec => []BoardInv` |
| | `BoardTypesAreCorrect` | `Spec => []BoardTypeOK` |
| | `TheBoardIsRight` | `Spec => []BoardIsRight` |
| `TurnProofs` | `RewardsAreSingle` | `TakingTurns` gives `WalletSpec => [](~ProcessHasEnded => OneRewardPerDay)` |
| | `RecordBalances` | `TakingTurns` and `~Reuse` give `WalletSpec => []Balanced` |
| | `RankNeverFalls` | `TakingTurns` and `Quantity \subseteq Nat` give that `record[AllTimeLeaves]` never falls in a step of `WalletSpec` while `~Disturbed` |
| `AccountProofs` | `DeletedStaysDeleted` | `Solo` and `~Overlap` give `GameSpec => []DeletionLasts` |
| | `RecordStaysWhole` | these, and opening records that are `Whole`, give `GameSpec => []RowsAreWhole` |
| | `WishesAreKept` | under the same conditions `GameSpec => [](faults.drops = 0 => SettingsKept)` |

*Values under way (`Inv`, `GameInv`).* `Solvent`, `InStock` and the two bounds by the ledger speak
of the record alone, but a block writes what it computed from a number it was handed earlier.
`DatabaseInv(G, B)` of `ClientProofs` therefore says of every place a number can be in - the record,
queued calls, pending writes, requests, replies, events, the cache - that leaf `l` has one of the
values `G[l]`, and of every block which leaves it has asked for (`B`), so that it finds what it
looks for. The lemmas about the client, the server, the network and the login screen hold for any
`G` and `B`; the parts of the app choose them. For the wallet `G` is `Known`: the leaves to spend
are within the `Purse` if no quantity is negative - natural numbers, and with `Reuse` those that
lack no more than the difference of two prices -, the total ever earned is a natural number then, a
count is positive, a list entry is a coordinate, and moreover the total ever earned is at most the
ledger's and a count at most what was there and delivered, *at this moment*. The ledger only grows,
so what was read stays within it, and a block that adds to what it read adds the same to the ledger:
this is why a lost update can lose a gain and never invent one. In the whole app the bound on counts
is dropped (`Inv(FALSE)`), since the land gives items back.

*The land and the account.* `LandAmong(G, B)` adds the lists, the grid and the deeds. The one
step that takes work is the removal, which rebuilds a list (`Rewrite`) and the local rows
(`Staying`, `Least`). `GameInv` is `Inv(FALSE)` with `LandInv`; each part's lemmas
are stated for the others' values and blocks, so `GameProofs` only has to combine them
and to add the steps of the account.

*The queues (`QueueInv`).* Number a device's writes by their place in `pending`. The
acknowledgements in its inbox belong to the first ones, the writes on its wire are the others
in order (`UnderWay`). An execution appends to both, the server moves one from the wire to
the acknowledgements, an acknowledgement takes the first pending write away, and a lost
connection replaces the wire by all that is pending and the inbox by nothing. A process that
has ended must have empty queues and no registration, and only gets may be held: the
steps keep `UnderWay` only with both, and neither follows from it. The
theorem speaks of processes that run; from one that ended, the server may still carry out
what it received.

*The two blocks of a purchase (`PurchaseInv`).* A first block that ran twice would pay
twice and could find the number already there. `OncePaid` says that in a device's four
queues together no two first blocks of one purchase are under way: gets move from one queue to the
next and are, unlike writes, never sent again. `Agreed` says that both blocks are
about the same cell, that the shared number is absent as long as the first block is under
way, and that once there is a number, the price was paid iff it was enough - with the price
of the cell, which keeps its item when `~Reuse`. `Ended` covers the purchases whose blocks
are gone. The conclusion is `OneOutcome` in every order of the blocks.

*The board (`BoardInv`).* While the server holds the registration, the last window in the
feed, or the one processed when the feed is empty, is that of the rows; the labels are
those of the window processed (`Shows`). The rest is arithmetic of places: who is among the
first of all that take part, and is in a window that covers the board, has the same rows
above it in the window as in all rows, hence the same `Index`.

*Taking turns (`TurnInv`, `Attentive`).* `TakingTurns` says three things of the constants:
operations do not overlap, every account that is opened has a name, and either there is one
phone or nobody listens to the account's row. Then every number a block is given is the one in
the ledger. A get *holds* the leaves on which its block relies, and those which the gets
that this block is going to issue will ask for (`Holds`). `Tidy` says of the queues of a
device that no two gets hold the same leaf, and that no write which is still to be made covers a
leaf that is held. Hence the newest write of a leaf, among those pending and on the wire, carries
the ledger's value, and so does the record where no write is under way (`Right`,
`RecordRight`). `Turns` says that only one device is at work at a time. A block that
writes `x + v` and adds `v` to the ledger keeps all of this, whatever of it is queued,
sent, answered, acknowledged or sent again. A date is right if it is the last day rewarded
(`Dated`), and a claim is never of an earlier one (`Timely`), so a block that finds another
date than its own rewards a new day: `Counted`.

With one phone that listens, gets are answered from what its listener has seen. `Attentive`
says why this is not too old: each event is followed by the acknowledgement of the write it
tells of, so that a write the listener has not seen is still pending and laid over it; and
after a lost connection the request to listen is sent before the writes are. In
`RankNeverFalls`, `Climbing` adds that the totals on a wire rise from one write to the next,
from the record's up to the ledger's.

No hypothesis can be spared. With a second phone that listens, its cache is behind
(`wallet_second_phone`). The record of an account without a name is written whole by a late
block of the sign-in and resets the totals. A process that ends takes with it writes that were
not sent, the date among them, and operations that overlap lose updates; a cell that is used
again delivers another item than the one asked for. A lost connection does no harm to the sums,
but the writes that are sent again take the record through old totals, and the user's rank
with them.

*A deleted account (`AccountInv`).* The deletion is one more write in a queue, and the writes
that were not acknowledged are sent again after a lost connection, among them older ones of
the same leaves: the record may hold old data long after the button. What counts is therefore
what it *will* be. `Base` is the record with the writes on the wire laid over it, in order,
and `Final` that with those which still wait for the worker. `Agrees` says that the newest
pending write of a leaf gives its value in `Base`, whichever of the pending writes the server has
applied already. Hence executing a write, applying it, its acknowledgement and a lost connection
all leave `Final` as it is; only a dispatch changes it, and a dispatch needs somebody to act.
`Gone` says that the user has left (stage `leaving` or `login`), that no get is unanswered
(`Silent`), so that no block of one is left which could write, and that `Final` holds nothing but
perhaps the notification permission. A patient user has no get under way at the button, and a
listener's events only change labels; what is left is the permission, which may be written
until the login screen has loaded, and whose write keeps `Gone`. When all is settled, `Final` is
the record. With operations that overlap this is false, since blocks are left that write; a process
that ends takes a removal that was not sent with it; and with a second phone the other one may
still be signed in and write.

*A record without a gap (`OrderInv`).* `RowsAreWhole` is about the record of every moment, and the
writes under way make many: so `Steady` says of a queue that the record is `Whole` after each of its
first calls, however many of them a process that ends lets through. A record is whole when it has
all the fields or nothing but the permission. All writes but those of a new account, of a wish and
of a deletion are `Mild`: they remove no field and leave the wishes alone, but all except the
permission's would make a part of a record of an empty one. `Orderly` tells the phases of the phone
apart: the user has left and nothing is asked (`Away`); the question for the name is under way, with
nothing after it but the Dashboard's and a late permission (`Coming`); the name is known, no
question for it is left, and `Final` has all the fields (`Inside`). A user who waits acts only in
the last. The step that takes work is the answer to the question, which decides whether the record
of a new account is written, and which the client may give itself: what its listener has seen must
then be what the record will be (`Informed`: news not processed yet is of the client's own pending
writes; `LocalIsTrue`). In `Coming` nothing but the permission is written, so the answer for the
name is that of `Final`. It says that there is no record only if there is none that holds more, and
then there is no wish either that the new record could overwrite, since `Final` has all of them
(`Wished`).

All of this needs that no question is lost, that is, no connection: a sign-in whose question is
lost leaves a user signed in without a record. `SettingsKept` is therefore proved where no
connection is lost; over one that is lost it is checked (`game_day`, whose device does not
listen; the theorem holds of one that does too).

*The conclusions for the code:* stale reads and lost updates can lose gains and give items away, but
cannot overdraw a wallet while cells keep their items (and by no more than the difference of two
prices otherwise), leave a count of zero behind, add to anybody's rank what was not earned, charge a
refused purchase or deliver an unpaid one (as long as no quantity is negative and no cell changes
its item); no write of the app is lost or reordered by the client; and no cast to `Int`, `String` or
a coordinate ever meets data of another type that this app wrote. Users who take turns, with one
phone or without the Dashboard's listener, get a day's reward once, lose no update to any order of
the calls, and never fall in rank. A user of one phone who waits leaves nothing behind by deleting
the account but perhaps the notification permission, however bad the connection is; and as long as
the connection stands, signing up, leaving, deleting and signing up again leave no other record on
which a screen's cast fails, and overwrite no wish.

*Not proved.*

- `HistoryIsPaid`, `ListsAreArrays`, `OneOccupant`, `ItemsKept`, `ScreensAgree` and
  `OnlyDropsCrash` are model-checked only, and so is `SettingsKept` over one lost connection.
- `AllTimeNeverDrops` is proved while nothing has gone wrong; after a process has ended it is
  checked.
- The refinement `ImplementsBook`: its mapping takes the writes out of the queues with
  `SelectSeq`, which is defined by recursion, and of what that yields for every queue nothing
  can be proved here.
- `StockIsBought` is about the wallet alone; `TypeOK` is not claimed of the whole app, whose
  lists may have a row without a key (section 2, Abstractions).
- Liveness (`PaidIsDelivered`, `BoardCatchesUp`) is out of the prover's reach, as is what a
  fold (`Offered`) computes for every input.

## 5. Not modelled

The e-mail change and authentication itself, which keep their state elsewhere; the history
view, which reads and sorts by a formatted date; labels and animations; the scheduling of
one notification; the web pages of the local information; the database's rules and rejected
writes; disk persistence (not enabled by the app); and the other pods. Reasons stand at
each component in `PROJECT.json`.

## 6. Plan

Done: `UserRecord`, `RealtimeDatabase`, `Session`, `Users`, `Wallet`, `Land`, `Account`,
`Game`, `AccountBook` and `WalletBook`, `Leaderboard`; their runs; the theorems of section 4.

What could come next: `ItemsKept` and `ListsAreArrays` for users who take turns, with the
entries of a list as the record will have them once the writes under way arrive; and
`TurnInv` for the whole app, whose land writes counts of the inventory as well.
