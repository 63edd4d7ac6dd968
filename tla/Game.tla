-------------------------------- MODULE Game --------------------------------
(***************************************************************************)
(* The whole app of one account: leaves are earned and spent (Wallet), the *)
(* bought items are placed on the land and taken back (Land), what stands  *)
(* there yields the reward of the day, and all of it happens between       *)
(* signing up and deleting the account (Account).  The three parts share   *)
(* the record, the client and the app's three lists.                       *)
(***************************************************************************)
EXTENDS Wallet, Land, Account

\* The placement grid covers the screens that start other operations.
GridIsModal == \A d \in Device : started'[d] # started[d] => grid[d] = NoGrid

\* Every item that is delivered is the account's.
DeliveredIsOwned ==
    deeds' = [k \in Key |-> deeds[k] + ledger'.goods[k] - ledger.goods[k]]

\* A deleted account owns nothing.
DeletedOwnsNothing(d) ==
    deeds' = IF DeleteButtonPressed(d) THEN [k \in Key |-> 0] ELSE deeds

GameInit == WalletInit /\ LandStart /\ AccountStart

WalletPart(d) ==
    /\ StoreStep(d) \/ RewardStep(d) \/ RedeemStep(d)
    /\ GridIsModal /\ GridStays /\ DeliveredIsOwned
    /\ QuestionsStay /\ UNCHANGED accountVars

LandPart(d) ==
    /\ LandStep(d)
    /\ QuestionsStay
    /\ UNCHANGED <<today, storeVars, historyVars, accountVars>>

AccountPart(d) ==
    /\ AccountStep(d)
    /\ GridIsModal /\ GridStays /\ DeletedOwnsNothing(d)
    /\ UNCHANGED <<today, storeVars, historyVars>>

CommonPart(d) ==
    /\ SessionAnswer(d) \/ EnvironmentStep(d)
    /\ GridStays /\ QuestionsStay
    /\ UNCHANGED <<walletVars, deeds, accountVars>>

GameNext ==
    \/ \E d \in Device : WalletPart(d) \/ LandPart(d) \/ AccountPart(d) \/ CommonPart(d)
    \/ NextDay /\ UNCHANGED <<landVars, asked, accountVars>>

gameVars == <<vars, landVars, asked, accountVars>>

GameSpec == GameInit /\ [][GameNext]_gameVars

-----------------------------------------------------------------------------
(* What the source says of itself and the code does not keep.              *)

\* "calculate reward based on price of items in game screen"
\* (GameViewController.swift:120): a tenth of the price of every image that
\* loadActiveItems puts on a button.
RewardFitsScreen ==
    \A d \in Device :
        (stage[d] = "tabs" /\ Settled(d)) =>
            Yield(activeItems[d]) =
                Cardinality(UNION {Shown(d, k) \X {k} \X (1..(Cost[k] \div 10)) : k \in Key})
=============================================================================
