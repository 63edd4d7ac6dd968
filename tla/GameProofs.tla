------------------------------ MODULE GameProofs ------------------------------
(***************************************************************************)
(* The same of the whole app: while items are placed and taken back, the   *)
(* account is made, used, left and deleted, and the screens share one      *)
(* client, the wallet stays solvent, nothing is unearned, and every value  *)
(* in the record and on the land's screens keeps its type.                 *)
(*                                                                         *)
(* The invariant is that of the wallet within the whole app, with that of  *)
(* the land; each part of the app preserves both.                          *)
(***************************************************************************)
EXTENDS Game, WalletProofs, LandProofs

GameInv == Inv(FALSE) /\ LandInv

\* The account's own screens write any names and avatars, and ask for all.
AccountAllows(G) ==
    /\ Allows(G)
    /\ \A l \in {DisplayName, Avatar, OnLeaderboard, Notifications} : Int \subseteq G[l]

AccountAsks(B) ==
    /\ Asks(B)
    /\ \A d \in Device, op \in {"dashboard", "settings"} :
          [op |-> op] \in DOMAIN B[d] /\ B[d][[op |-> op]] = Leaf

-----------------------------------------------------------------------------
(* The account's screens.                                                  *)

LEMMA AskAllIsCalls ==
    ASSUME NEW G, NEW B, AccountAsks(B), NEW d \in Device
    PROVE  /\ PopulateDashboard(d) \in Seq(Call(G, B[d]))
           /\ PopulateSettings \in Seq(Call(G, B[d]))
<1> DEFINE C == Call(G, B[d])
           t1 == [op |-> "dashboard"]
           t2 == [op |-> "settings"]
<1>1. GetData(Leaf, t1) \in C /\ GetData(Leaf, t2) \in C
  <2>1. t1 \in DOMAIN B[d] /\ B[d][t1] = Leaf /\ t2 \in DOMAIN B[d] /\ B[d][t2] = Leaf
        BY DEF AccountAsks
  <2>2. GetData(B[d][t1], t1) \in C /\ GetData(B[d][t2], t2) \in C
        BY <2>1, GetIsCall
  <2>3. QED
        BY <2>1, <2>2
<1>2. ObserveUsers(d) \in Seq(C)
      BY ObserveUsersIsCalls
<1> HIDE DEF C
<1>3. <<GetData(Leaf, t1)>> \in Seq(C) /\ <<GetData(Leaf, t2)>> \in Seq(C)
      BY <1>1
<1>4. <<GetData(Leaf, t1)>> \o ObserveUsers(d) \in Seq(C)
      BY <1>2, <1>3, ConcatProperties
<1>5. QED
      BY <1>3, <1>4 DEF PopulateDashboard, PopulateSettings, C

\* One leaf of the profile is written, and something may be asked afterwards.
LEMMA SaveIsCalls ==
    ASSUME NEW G, NEW b, AccountAllows(G),
           NEW l \in {DisplayName, Avatar, OnLeaderboard, Notifications}, NEW v \in Int,
           NEW calls \in Seq(Call(G, b))
    PROVE  <<SetValue(SetLeaf(l, v))>> \o calls \in Seq(Call(G, b))
<1>1. l \in Leaf /\ v \in G[l] /\ Allows(G)
      BY LeavesAreLeaves DEF AccountAllows
<1>2. <<SetValue(SetLeaf(l, v))>> \in Seq(Call(G, b))
      BY <1>1, OneLeafIsCalls
<1>3. QED
      BY <1>2, ConcatProperties

LEMMA PermissionIsCalls ==
    ASSUME NEW G, NEW b, AccountAllows(G)
    PROVE  PermissionWrite \in Seq(Call(G, b))
<1>1. Notifications \in Leaf /\ 0 \in G[Notifications] /\ Allows(G)
      BY LeavesAreLeaves DEF AccountAllows
<1>2. QED
      BY <1>1, OneLeafIsCalls DEF PermissionWrite

LEMMA RemovalIsCalls ==
    ASSUME NEW G, NEW b, Allows(G)
    PROVE  <<SetValue(RemovedUser)>> \in Seq(Call(G, b))
<1> DEFINE C == Call(G, b)
<1>1. SetValue(RemovedUser) \in C
      BY NothingIsPatch, PatchIsWrite, PutIsCall DEF RemovedUser
<1> HIDE DEF C
<1>2. <<SetValue(RemovedUser)>> \in Seq(C)
      BY <1>1
<1>3. QED
      BY <1>2 DEF C

\* A step that saves one leaf of the profile.
LEMMA SaveKeeps ==
    ASSUME NEW G, NEW B, NEW K, AccountAllows(G), AccountAsks(B), DatabaseInv(G, B),
           SessionInv(K), NEW d \in Device,
           NEW l \in {DisplayName, Avatar, OnLeaderboard, Notifications}, NEW v \in Int,
           NEW calls \in Seq(Call(G, B[d])), Save(d, SetLeaf(l, v), calls)
    PROVE  DatabaseInv(G, B)' /\ SessionInv(K)'
<1>1. <<SetValue(SetLeaf(l, v))>> \o calls \in Seq(Call(G, B[d]))
      BY SaveIsCalls
<1>2. DatabaseInv(G, B)'
      BY <1>1, DispatchKeeps DEF Save
<1>3. SessionInv(K)'
      BY SessionStays DEF Save
<1>4. QED
      BY <1>2, <1>3

LEMMA IssueKeeps ==
    ASSUME NEW G, NEW B, NEW K, DatabaseInv(G, B), SessionInv(K), NEW d \in Device,
           NEW calls \in Seq(Call(G, B[d])), Issue(d, calls)
    PROVE  DatabaseInv(G, B)' /\ SessionInv(K)'
BY DispatchKeeps, SessionStays DEF Issue

\* What the account's screens do to the client and the app's lists.
LEMMA AccountStepKeeps ==
    ASSUME NEW G, NEW B, NEW K, AccountAllows(G), AccountAsks(B), DatabaseInv(G, B),
           SessionInv(K), NEW d \in Device, AccountStep(d)
    PROVE  DatabaseInv(G, B)' /\ SessionInv(K)'
<1>1. Allows(G) /\ Asks(B) /\ <<>> \in Seq(Call(G, B[d]))
      BY EmptySeq DEF AccountAllows, AccountAsks
<1>2. /\ PopulateDashboard(d) \in Seq(Call(G, B[d]))
      /\ PopulateSettings \in Seq(Call(G, B[d]))
      /\ PermissionWrite \in Seq(Call(G, B[d]))
      BY AskAllIsCalls, PermissionIsCalls
<1>3. CASE FirstSignIn(d) \/ SignInAgain(d)
      BY <1>1, <1>2, <1>3, SignInKeeps DEF FirstSignIn, SignInAgain
<1>4. ASSUME NEW c \in Choice, ChooseAvatar(d, c)
      PROVE  DatabaseInv(G, B)' /\ SessionInv(K)'
  <2>1. <<SetValue(AvatarWrite(c))>> \o PopulateDashboard(d) \in Seq(Call(G, B[d]))
        BY <1>2, AccountAssumption, SaveIsCalls DEF AvatarWrite
  <2>2. DatabaseInv(G, B)'
        BY <1>4, <2>1, DispatchKeeps DEF ChooseAvatar
  <2>3. SessionInv(K)'
        BY <1>4 DEF ChooseAvatar, SessionInv, listVars
  <2>4. QED
        BY <2>2, <2>3
<1>5. ASSUME NEW c \in Choice, ChangeAvatar(d, c) \/ UpdateButtonPressed(d, c)
      PROVE  DatabaseInv(G, B)' /\ SessionInv(K)'
      BY <1>1, <1>2, <1>5, AccountAssumption, SaveKeeps
         DEF ChangeAvatar, UpdateButtonPressed, AvatarWrite, NameWrite
<1>6. ASSUME NEW joins \in BOOLEAN, LeaderSettingsSwitched(d, joins)
      PROVE  DatabaseInv(G, B)' /\ SessionInv(K)'
  <2>1. PICK v \in Int : v = IF joins THEN 1 ELSE 0
        OBVIOUS
  <2>2. Save(d, SetLeaf(OnLeaderboard, v), <<>>)
        BY <1>6, <2>1 DEF LeaderSettingsSwitched, RankWrite
  <2>3. QED
        BY <1>1, <2>2, SaveKeeps
<1>7. CASE OpenDashboard(d) \/ OpenSettings(d) \/ AppNotifySwitched(d)
      BY <1>2, <1>7, IssueKeeps DEF OpenDashboard, OpenSettings, AppNotifySwitched
<1>8. CASE GotDashboard(d)
      BY <1>1, <1>8, ReturnKeeps, SessionStays DEF GotDashboard
<1>9. CASE GotSettings(d)
  <2>1. DatabaseInv(G, B)'
        BY <1>1, <1>9, ReturnKeeps DEF GotSettings
  <2>2. QED
        BY <1>9, <2>1, SessionStays DEF GotSettings
<1>10. CASE CrashOnScreen(d) \/ CrashOnPermission(d)
      BY <1>10, AppEndsKeeps DEF CrashOnScreen, CrashOnPermission, Crash
<1>11. CASE SignOutButtonPressed(d)
  <2>1. DatabaseInv(G, B)'
        BY <1>11 DEF SignOutButtonPressed, DatabaseInv, dbVars, clientVars
  <2>2. SessionInv(K)'
        BY <1>11 DEF SignOutButtonPressed, Leave, SessionInv, listVars
  <2>3. QED
        BY <2>1, <2>2
<1>12. CASE DeleteButtonPressed(d)
  <2>1. DatabaseInv(G, B)'
        BY <1>1, <1>12, RemovalIsCalls, DispatchKeeps DEF DeleteButtonPressed
  <2>2. SessionInv(K)'
        BY <1>12 DEF DeleteButtonPressed, Leave, SessionInv, listVars
  <2>3. QED
        BY <2>1, <2>2
<1>13. CASE PermissionKnown(d)
  <2>1. DatabaseInv(G, B)'
    <3>1. CASE Dispatch(d, PermissionWrite)
          BY <1>2, <3>1, DispatchKeeps
    <3>2. CASE UNCHANGED dbVars
          BY <3>2 DEF DatabaseInv, dbVars, clientVars
    <3>3. QED
          BY <1>13, <3>1, <3>2 DEF PermissionKnown
  <2>2. QED
        BY <1>13, <2>1, SessionStays DEF PermissionKnown
<1>14. CASE LoginViewDidLoad(d)
  <2>1. DatabaseInv(G, B)'
        BY <1>14 DEF LoginViewDidLoad, DatabaseInv, dbVars, clientVars
  <2>2. SessionInv(K)'
        BY <1>14 DEF LoginViewDidLoad, Leave, SessionInv, listVars
  <2>3. QED
        BY <2>1, <2>2
<1>15. QED
      BY <1>3, <1>4, <1>5, <1>6, <1>7, <1>8, <1>9, <1>10, <1>11, <1>12, <1>13, <1>14
         DEF AccountStep, ScreenStep

\* And to the count of operations.
LEMMA AccountStarts ==
    ASSUME started \in [Device -> 0..MaxOps], NEW d \in Device, AccountStep(d)
    PROVE  started' \in [Device -> 0..MaxOps]
<1>1. CASE started' = started
      BY <1>1
<1>2. CASE MayStart(d) /\ Start(d)
      BY <1>2, SchemaAssumption DEF MayStart, Start
<1>3. started' = started \/ (MayStart(d) /\ Start(d))
      BY DEF AccountStep, ScreenStep, FirstSignIn, SignInAgain, ChooseAvatar, ChangeAvatar,
         UpdateButtonPressed, LeaderSettingsSwitched, Save, OpenDashboard, OpenSettings,
         AppNotifySwitched, Issue, GotDashboard, GotSettings, CrashOnScreen,
         CrashOnPermission, PermissionKnown, SignOutButtonPressed, DeleteButtonPressed,
         LoginViewDidLoad
<1>4. QED
      BY <1>1, <1>2, <1>3

-----------------------------------------------------------------------------
(* The parts together.                                                     *)

\* The values and the blocks of the whole app are as the land and the account
\* need them.
LEMMA KnownAllowsAll ==
    ASSUME NEW book \in Book
    PROVE  LandAllows(Known(FALSE, book)) /\ AccountAllows(Known(FALSE, book))
<1> DEFINE G == Known(FALSE, book)
<1>1. Allows(G)
      BY KnownAllows
<1>2. \A k \in Key : G[Inventory(k)] = (Nat \ {0}) \cup {Absent}
  <2>1. ASSUME NEW k \in Key
        PROVE  G[Inventory(k)] = (Nat \ {0}) \cup {Absent}
    <3>1. \A v : v \in G[Inventory(k)] <=> v = Absent \/ v \in Nat \ {0}
          BY KnownLeaves
    <3> HIDE DEF G
    <3>2. QED
          BY <3>1
  <2>2. QED
        BY <2>1
<1>3. \A l \in ActiveLeaves : G[l] = Coordinate \cup {Absent}
      BY KnownLeaves
<1>4. ASSUME NEW l \in {DisplayName, Avatar, OnLeaderboard, Notifications}
      PROVE  Int \subseteq G[l]
  <2>1. l \in Profile \ {CurrentLeaves, AllTimeLeaves}
        BY LeavesApart
  <2>2. \A k \in Profile \ {CurrentLeaves, AllTimeLeaves} : G[k] = Int \cup {Absent}
        BY Zenon, KnownLeaves
  <2> HIDE DEF G
  <2>3. QED
        BY <2>1, <2>2
<1> HIDE DEF G
<1>5. QED
      BY <1>1, <1>2, <1>3, <1>4 DEF LandAllows, AccountAllows, G

LEMMA BlocksAskAll == LandAsks(Blocks) /\ AccountAsks(Blocks)
<1>1. ASSUME NEW t \in Tag, t.op # "buyItem", NEW d \in Device
      PROVE  t \in DOMAIN Blocks[d] /\ Blocks[d][t] = Asked(t)
      BY <1>1, BlocksAreTags DEF OnShelf
<1>2. ASSUME NEW d \in Device, NEW k \in Key, NEW c \in Coordinate
      PROVE  LET place == [op |-> "placeActive", key |-> k, at |-> c]
                 count == [op |-> "placeInventory", key |-> k]
             IN  /\ place \in DOMAIN Blocks[d] /\ Blocks[d][place] = ActiveList(k)
                 /\ count \in DOMAIN Blocks[d] /\ Blocks[d][count] = {Inventory(k)}
  <2> DEFINE place == [op |-> "placeActive", key |-> k, at |-> c]
             count == [op |-> "placeInventory", key |-> k]
  <2>1. place \in Tag /\ count \in Tag
        BY DEF Tag
  <2>2. Asked(place) = ActiveList(k) /\ Asked(count) = {Inventory(k)}
        BY DEF Asked
  <2>3. QED
        BY <1>1, <2>1, <2>2
<1>3. ASSUME NEW d \in Device, NEW k \in Key \cup {Absent}, NEW c \in Coordinate
      PROVE  LET clear == [op |-> "removeActive", key |-> k, at |-> c]
                 count == [op |-> "removeInventory", key |-> k]
             IN  /\ clear \in DOMAIN Blocks[d]
                 /\ Blocks[d][clear] = IF k = Absent THEN ActiveLeaves ELSE ActiveList(k)
                 /\ count \in DOMAIN Blocks[d]
                 /\ Blocks[d][count] = IF k = Absent THEN InventoryLeaves ELSE {Inventory(k)}
  <2> DEFINE clear == [op |-> "removeActive", key |-> k, at |-> c]
             count == [op |-> "removeInventory", key |-> k]
  <2>1. clear \in Tag /\ count \in Tag
        BY DEF Tag
  <2>2. /\ Asked(clear) = IF k = Absent THEN ActiveLeaves ELSE ActiveList(k)
        /\ Asked(count) = IF k = Absent THEN InventoryLeaves ELSE {Inventory(k)}
        BY DEF Asked
  <2>3. QED
        BY <1>1, <2>1, <2>2
<1>4. ASSUME NEW d \in Device, NEW t \in DOMAIN Blocks[d]
      PROVE  /\ t.op = "placeActive" => t.key \in Key /\ t.at \in Coordinate
                   /\ Blocks[d][t] = ActiveList(t.key)
             /\ t.op = "placeInventory" => t.key \in Key /\ Blocks[d][t] = {Inventory(t.key)}
             /\ t.op = "removeActive" /\ t.key # Absent => t.key \in Key
                   /\ Blocks[d][t] = ActiveList(t.key)
             /\ t.op = "removeInventory" /\ t.key # Absent => t.key \in Key
                   /\ Blocks[d][t] = {Inventory(t.key)}
  <2>1. t \in Tag /\ Blocks[d][t] = Asked(t)
        BY BlocksAreTags
  <2>2. QED
        BY <2>1, TagFields
<1>5. LandAsks(Blocks)
      BY <1>2, <1>3, <1>4, BlocksAsk DEF LandAsks
<1>6. ASSUME NEW d \in Device, NEW op \in {"dashboard", "settings"}
      PROVE  [op |-> op] \in DOMAIN Blocks[d] /\ Blocks[d][[op |-> op]] = Leaf
  <2>1. [op |-> op] \in Tag /\ Asked([op |-> op]) = Leaf
        BY DEF Tag, Asked
  <2>2. QED
        BY <1>1, <2>1
<1>7. QED
      BY <1>5, <1>6, BlocksAsk DEF AccountAsks

\* The wallet's step delivers items and takes none away.
LEMMA GoodsGrow ==
    ASSUME NEW alone, Inv(alone), NEW d \in Device,
           StoreStep(d) \/ RewardStep(d) \/ RedeemStep(d)
    PROVE  \A k \in Key : ledger.goods[k] <= ledger'.goods[k]
<1>1. ledger \in Book /\ ledger.goods \in [Key -> Nat]
      BY BookFields DEF Inv, WalletInv
<1>2. CASE ledger'.goods = ledger.goods
      BY <1>1, <1>2
<1>3. CASE Deliver(d)
  <2>1. PICK k : ledger' = [ledger EXCEPT !.goods[k] = @ + 1]
        BY <1>3 DEF Deliver
  <2>2. ledger'.goods = [ledger.goods EXCEPT ![k] = @ + 1]
        BY <1>1, <2>1 DEF Book
  <2>3. QED
        BY <1>1, <2>2
<1>4. ASSUME ~Deliver(d)
      PROVE  ledger'.goods = ledger.goods
  <2>1. /\ \A x : [ledger EXCEPT !.current = x].goods = ledger.goods
        /\ \A x : [ledger EXCEPT !.allTime = x].goods = ledger.goods
        BY <1>1 DEF Book
  <2>2. CASE ledger' = ledger
        BY <2>2
  <2>3. CASE GotBuyLeaves(d)
    <3>1. \/ ledger' = ledger
          \/ \E x : ledger' = [ledger EXCEPT !.current = x]
          BY <2>3 DEF GotBuyLeaves, historyVars
    <3>2. QED
          BY <2>1, <3>1
  <2>4. CASE GotClaimDate(d)
    <3>1. PICK a \in AnswersTo(d, "claimDate") :
              ledger' = [ledger EXCEPT !.rewards[a.then.day] =
                            IF a.snap[LastVisitedDate] # a.then.day THEN @ + 1 ELSE @]
          BY <2>4 DEF GotClaimDate
    <3>2. QED
          BY <1>1, <3>1 DEF Book
  <2>5. CASE GotRewardCurrent(d)
    <3>1. \/ ledger' = ledger
          \/ \E x : ledger' = [ledger EXCEPT !.current = x]
          BY <2>5 DEF GotRewardCurrent
    <3>2. QED
          BY <2>1, <3>1
  <2>6. CASE GotRewardAllTime(d)
    <3>1. \/ ledger' = ledger
          \/ \E x : ledger' = [ledger EXCEPT !.allTime = x]
          BY <2>6 DEF GotRewardAllTime
    <3>2. QED
          BY <2>1, <3>1
  <2>7. CASE GotUser(d)
    <3>1. PICK a \in AnswersTo(d, "redeem") :
              ledger' = IF Exists(a.snap)
                        THEN [ledger EXCEPT !.current = @ + a.then.leaves,
                                            !.allTime = @ + a.then.leaves,
                                            !.redeemed = @ + a.then.leaves]
                        ELSE ledger
          BY <2>7 DEF GotUser
    <3>2. QED
          BY <1>1, <3>1 DEF Book
  <2>8. CASE CrashOnNilLeaves(d) \/ CrashOnPartialUser(d)
        BY <2>2, <2>8 DEF CrashOnNilLeaves, CrashOnPartialUser, walletVars, historyVars
  <2>9. ASSUME NEW c \in Cell, BuyOnClick(d, c) \/ \E k \in Key : CellForRow(d, c, k)
        PROVE  ledger' = ledger
        BY <2>9 DEF BuyOnClick, CellForRow, historyVars
  <2>10. CASE Refuse(d) \/ ClaimOnClick(d)
        BY <2>2, <2>10 DEF Refuse, ClaimOnClick, historyVars
  <2>11. ASSUME NEW form \in [Entry -> Quantity], RedeemButtonPressed(d, form)
         PROVE  ledger' = ledger
        BY <2>11 DEF RedeemButtonPressed, historyVars
  <2>12. QED
        BY <1>4, <2>2, <2>3, <2>4, <2>5, <2>6, <2>7, <2>8, <2>9, <2>10, <2>11
           DEF StoreStep, RewardStep, RedeemStep
<1>5. QED
      BY <1>2, <1>3, <1>4

LEMMA WalletPartKeeps ==
    ASSUME GameInv, NEW d \in Device, WalletPart(d)
    PROVE  GameInv'
<1>1. Inv(FALSE)'
      BY WalletStepKeeps DEF GameInv, WalletPart
<1>2. \A k \in Key : ledger.goods[k] <= ledger'.goods[k]
      BY GoodsGrow DEF GameInv, WalletPart
<1>3. deeds' \in [Key -> Nat]
  <2>1. ledger.goods \in [Key -> Nat] /\ ledger'.goods \in [Key -> Nat]
        BY <1>1 DEF GameInv, Inv, WalletInv, Book
  <2>2. \A k \in Key : deeds[k] + ledger'.goods[k] - ledger.goods[k] \in Nat
        BY <1>2, <2>1 DEF GameInv, LandInv
  <2>3. QED
        BY <2>2 DEF WalletPart, DeliveredIsOwned
<1>4. started' \in [Device -> 0..MaxOps]
      BY <1>1 DEF Inv, WalletInv
<1>5. LandInv'
      BY <1>3, <1>4, GridClosesKeeps DEF GameInv, WalletPart, LandInv
<1>6. QED
      BY <1>1, <1>5 DEF GameInv

\* A part that leaves the ledger and the store alone, as long as it preserves the
\* invariants of the client and the session.
LEMMA PartKeeps ==
    ASSUME GameInv, UNCHANGED <<today, storeVars, historyVars>>, LandInv',
           ASSUME NEW G, NEW B, LandAllows(G), LandAsks(B), AccountAllows(G),
                  AccountAsks(B), DatabaseInv(G, B), SessionInv(KeyOrNone)
           PROVE  DatabaseInv(G, B)' /\ SessionInv(KeyOrNone)'
    PROVE  GameInv'
<1>1. PICK G : G = Known(FALSE, ledger)
      OBVIOUS
<1>2. PICK B : B = Blocks
      OBVIOUS
<1>3. KeyShown(FALSE) = KeyOrNone
      BY DEF KeyShown, KeyOrNone
<1>4. /\ LandAllows(G) /\ AccountAllows(G) /\ LandAsks(B) /\ AccountAsks(B)
      /\ DatabaseInv(G, B) /\ SessionInv(KeyOrNone)
      BY <1>1, <1>2, <1>3, KnownAllowsAll, BlocksAskAll DEF GameInv, Inv, WalletInv
<1>5. DatabaseInv(G, B)' /\ SessionInv(KeyOrNone)'
      BY <1>4
<1>6. ledger' = ledger /\ shelf' = shelf
      BY DEF historyVars, storeVars
<1>7. B = Blocks'
      BY <1>2, <1>6, BlocksStay DEF ShelfKept
<1>8. WalletInv'
      BY DEF GameInv, Inv, WalletInv, LandInv, storeVars, historyVars
<1>9. QED
      BY <1>1, <1>3, <1>5, <1>6, <1>7, <1>8 DEF GameInv, Inv

LEMMA LandPartKeeps ==
    ASSUME GameInv, NEW d \in Device, LandPart(d)
    PROVE  GameInv'
<1>1. ASSUME NEW G, NEW B, LandAllows(G), LandAsks(B), DatabaseInv(G, B), SessionInv(KeyOrNone)
      PROVE  DatabaseInv(G, B)' /\ SessionInv(KeyOrNone)' /\ LandInv'
      BY <1>1, LandStepKeeps DEF GameInv, LandPart, LandAmong
<1>2. LandInv'
  <2>1. PICK G : G = Known(FALSE, ledger)
        OBVIOUS
  <2>2. PICK B : B = Blocks
        OBVIOUS
  <2>3. KeyShown(FALSE) = KeyOrNone
        BY DEF KeyShown, KeyOrNone
  <2>4. /\ LandAllows(G) /\ LandAsks(B) /\ DatabaseInv(G, B) /\ SessionInv(KeyOrNone)
        BY <2>1, <2>2, <2>3, KnownAllowsAll, BlocksAskAll DEF GameInv, Inv, WalletInv
  <2>5. QED
        BY <1>1, <2>4
<1>3. QED
      BY <1>1, <1>2, PartKeeps DEF LandPart

LEMMA AccountPartKeeps ==
    ASSUME GameInv, NEW d \in Device, AccountPart(d)
    PROVE  GameInv'
<1>1. LandInv'
  <2>1. started' \in [Device -> 0..MaxOps]
        BY AccountStarts DEF GameInv, LandInv, AccountPart
  <2>2. deeds' \in [Key -> Nat]
        BY DEF GameInv, LandInv, AccountPart, DeletedOwnsNothing
  <2>3. QED
        BY <2>1, <2>2, GridClosesKeeps DEF GameInv, LandInv, AccountPart
<1>2. QED
      BY <1>1, AccountStepKeeps, PartKeeps DEF AccountPart

LEMMA CommonPartKeeps ==
    ASSUME GameInv, NEW d \in Device, CommonPart(d)
    PROVE  GameInv'
<1>1. LandInv'
      BY GridClosesKeeps DEF GameInv, LandInv, CommonPart, walletVars
<1>2. UNCHANGED <<today, storeVars, historyVars>>
      BY DEF CommonPart, walletVars
<1>3. ASSUME NEW G, NEW B, LandAllows(G), LandAsks(B), DatabaseInv(G, B), SessionInv(KeyOrNone)
      PROVE  DatabaseInv(G, B)' /\ SessionInv(KeyOrNone)'
  <2>1. Allows(G) /\ Asks(B) /\ Key \subseteq KeyOrNone
        BY <1>3 DEF LandAllows, LandAsks, KeyOrNone
  <2>2. QED
        BY <1>3, <2>1, SessionAnswerKeeps, EnvironmentKeeps DEF CommonPart
<1>4. QED
      BY <1>1, <1>2, <1>3, PartKeeps

\* At first the account owns what its record shows.
LEMMA GameInitHolds ==
    ASSUME GameInit
    PROVE  GameInv
<1>1. Inv(FALSE)
      BY InitHolds DEF GameInit
<1>2. \A k \in Key : record[Inventory(k)] \in Nat \cup {Absent}
  <2>1. record \in Patch(Known(FALSE, ledger), Leaf)
        BY <1>1 DEF Inv, DatabaseInv
  <2>2. \A k \in Key : record[Inventory(k)] \in Known(FALSE, ledger)[Inventory(k)]
        BY <2>1, LeavesAreLeaves DEF Patch
  <2>3. QED
        BY <2>2, KnownLeaves
<1>3. LandInv
      BY <1>1, <1>2, OwnedIsNat DEF GameInit, LandStart, LandInv, Inv, WalletInv
<1>4. QED
      BY <1>1, <1>3 DEF GameInv

LEMMA GameNextKeeps ==
    ASSUME GameInv, [GameNext]_gameVars
    PROVE  GameInv'
<1>1. CASE UNCHANGED gameVars
  <2>1. UNCHANGED <<today, started, storeVars, historyVars, dbVars, sessionVars, landVars>>
        BY <1>1 DEF gameVars, vars, walletVars
  <2>2. LandInv'
        BY <2>1 DEF GameInv, LandInv, landVars
  <2>3. ASSUME NEW G, NEW B, DatabaseInv(G, B), SessionInv(KeyOrNone)
        PROVE  DatabaseInv(G, B)' /\ SessionInv(KeyOrNone)'
        BY <2>1, <2>3, SessionStays DEF DatabaseInv, dbVars, clientVars
  <2>4. QED
        BY <2>1, <2>2, <2>3, PartKeeps
<1>2. CASE NextDay /\ UNCHANGED <<landVars, asked, accountVars>>
  <2>1. Inv(FALSE)'
        BY <1>2, NextDayKeeps DEF GameInv
  <2>2. LandInv'
        BY <1>2, <2>1 DEF GameInv, LandInv, landVars, Inv, WalletInv
  <2>3. QED
        BY <2>1, <2>2 DEF GameInv
<1>3. QED
      BY <1>1, <1>2, WalletPartKeeps, LandPartKeeps, AccountPartKeeps, CommonPartKeeps
         DEF GameNext

\* Every number that can reach the record from any part of the app is one that
\* may be in it, and no more than was earned by then.
THEOREM GameInvHolds == GameSpec => []GameInv
<1>1. GameInit => GameInv
      BY GameInitHolds
<1>2. GameInv /\ [GameNext]_gameVars => GameInv'
      BY GameNextKeeps
<1>3. QED
      BY <1>1, <1>2, PTL DEF GameSpec

\* The wallet is overdrawn by no more in the whole app either, and not at all
\* while cells keep their items: neither leaving and deleting the account nor the
\* land gets it below zero (StoreTableViewCell.swift:47 and 48,
\* SettingsViewController.swift:262).
THEOREM GameIsSolvent == GameSpec => []Solvent
<1>1. GameInv => Solvent
      BY InvIsSolvent DEF GameInv
<1>2. QED
      BY <1>1, GameInvHolds, PTL

\* Purchases, placing and taking back leave no count of zero or less behind,
\* though each reads the count and writes it later in a call of its own
\* (StoreTableViewCell.swift:68, PlacementGridViewController.swift:159,
\* RemoveItemViewController.swift:131).
THEOREM GameIsInStock == GameSpec => []InStock
<1>1. GameInv => InStock
      BY InvIsInStock DEF GameInv
<1>2. QED
      BY <1>1, GameInvHolds, PTL

\* The leaderboard's total is never more than was earned in the whole app.
THEOREM GameIsEarned == GameSpec => []AllTimeIsEarned
<1>1. GameInv => AllTimeIsEarned
      BY InvIsEarned DEF GameInv
<1>2. QED
      BY <1>1, GameInvHolds, PTL

\* The lists of the land and the record keep their types in the whole app.
THEOREM GameLandTypes == GameSpec => []LandTypeOK
<1>1. GameInv => LandTypeOK
  <2> SUFFICES ASSUME GameInv
               PROVE  LandTypeOK
      OBVIOUS
  <2>1. KeyShown(FALSE) = KeyOrNone
        BY DEF KeyShown, KeyOrNone
  <2>2. LandAmong(Known(FALSE, ledger), Blocks)
        BY <2>1 DEF GameInv, Inv, LandAmong
  <2>3. LandAllows(Known(FALSE, ledger))
        BY KnownAllowsAll DEF GameInv, Inv, WalletInv
  <2>4. \A l \in Leaf : Known(FALSE, ledger)[l] \subseteq ValueAt(l) \cup {Absent}
        BY GoodIsTyped DEF Known
  <2>5. QED
        BY <2>2, <2>3, <2>4, LandIsTyped DEF GameInv
<1>2. QED
      BY <1>1, GameInvHolds, PTL
=============================================================================
