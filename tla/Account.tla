------------------------------ MODULE Account ------------------------------
(***************************************************************************)
(* What a user does about the account itself: the first sign-in with its   *)
(* choice of an avatar (WelcomeViewController), the Dashboard's and the    *)
(* settings' looks at the record, the settings, signing out and deleting   *)
(* the account (SettingsViewController).                                   *)
(*                                                                         *)
(*   identity   what the authentication service has of the account:        *)
(*              "new" before the first sign-in, "known", "deleted"         *)
(*   asked[d]   questions for the permission for notifications that the    *)
(*              system has not answered device d's settings yet            *)
(*   wishes     history variable: the name, the avatar and the place on    *)
(*              the leaderboard the user has asked for last, Absent where  *)
(*              nothing was asked for since the account was made           *)
(***************************************************************************)
EXTENDS Users

CONSTANT
    Choice      \* names and avatars a user may choose

ASSUME AccountAssumption == Choice \subseteq Int

VARIABLES identity, asked, wishes

\* The variables but asked, which steps of the other parts change as well: the
\* questions of a process end with it.
accountVars == <<identity, wishes>>

QuestionsStay == asked' = [d \in Device |-> IF up'[d] THEN asked[d] ELSE 0]

Wishable == {DisplayName, Avatar, OnLeaderboard}
NoWishes == [l \in Wishable |-> Absent]

Wish(l, v) == wishes' = [wishes EXCEPT ![l] = v]

-----------------------------------------------------------------------------
(* The screens that read the whole record.                                 *)

\* populateDashboard: the labels' get and another observer.
PopulateDashboard(d) == <<GetData(Leaf, [op |-> "dashboard"])>> \o ObserveUsers(d)
PopulateSettings     == <<GetData(Leaf, [op |-> "settings"])>>

\* The fields that the blocks of the two screens cast.
CastBy(op) ==
    IF op = "dashboard" THEN {DisplayName, CurrentLeaves, AllTimeLeaves}
    ELSE {DisplayName, CurrentLeaves, OnLeaderboard}

Castable(a) == Exists(a.snap) => \A l \in CastBy(a.then.op) : a.snap[l] # Absent

\* A user's step that changes nothing but what is under way.
Issue(d, calls) ==
    /\ MayStart(d)
    /\ Start(d)
    /\ Dispatch(d, calls)
    /\ UNCHANGED <<sessionVars, accountVars>>

\* viewWillAppear of either.
OpenDashboard(d) == Issue(d, PopulateDashboard(d))
OpenSettings(d)  == Issue(d, PopulateSettings)

GotDashboard(d) ==
    \E a \in AnswersTo(d, "dashboard") :
        /\ Castable(a)
        /\ Return(d, a, <<>>)
        /\ UNCHANGED <<sessionVars, started, accountVars>>

\* The block looks at the snapshot on the main queue, fills the labels and asks
\* the system for the permission.
GotSettings(d) ==
    \E a \in AnswersTo(d, "settings") :
        /\ Castable(a)
        /\ Return(d, a, <<>>)
        /\ asked' = [asked EXCEPT ![d] = IF Exists(a.snap) THEN @ + 1 ELSE @]
        /\ UNCHANGED <<sessionVars, started, accountVars>>

\* A cast fails.
CrashOnScreen(d) ==
    /\ \E op \in {"dashboard", "settings"} : \E a \in AnswersTo(d, op) : ~Castable(a)
    /\ Crash(d)
    /\ QuestionsStay
    /\ UNCHANGED <<started, accountVars>>

\* The permission is never read back: one value stands for both.
PermissionWrite == <<SetValue(SetLeaf(Notifications, 0))>>

\* The system's answer reaches the main queue, whatever the user has done since.
\* If the permission was given or denied, it is copied into the record.
PermissionKnown(d) ==
    /\ asked[d] > 0
    /\ asked' = [asked EXCEPT ![d] = @ - 1]
    /\ \/ SignedIn(d) /\ Dispatch(d, PermissionWrite)
       \/ UNCHANGED dbVars
    /\ UNCHANGED <<sessionVars, started, accountVars>>

\* "currentUser!" after the user has left.
CrashOnPermission(d) ==
    /\ asked[d] > 0
    /\ ~SignedIn(d)
    /\ Crash(d)
    /\ QuestionsStay
    /\ UNCHANGED <<started, accountVars>>

-----------------------------------------------------------------------------
(* Signing in, and the avatar.                                             *)

AvatarWrite(picture) == SetLeaf(Avatar, picture)

\* A new user is sent to the choice of an avatar.
FirstSignIn(d) ==
    /\ identity = "new"
    /\ identity' = "known"
    /\ SignIn(d, "welcome", <<>>)
    /\ UNCHANGED <<started, wishes>>

SignInAgain(d) ==
    /\ identity = "known"
    /\ SignIn(d, "tabs", PopulateDashboard(d))
    /\ UNCHANGED <<started, accountVars>>

\* WelcomeViewController.buttonPressed for a first-time user, on to the
\* Dashboard.
ChooseAvatar(d, picture) ==
    /\ stage[d] = "welcome"
    /\ Overlap \/ Patient(d)
    /\ stage' = [stage EXCEPT ![d] = "tabs"]
    /\ Dispatch(d, <<SetValue(AvatarWrite(picture))>> \o PopulateDashboard(d))
    /\ Wish(Avatar, picture)
    /\ UNCHANGED <<listVars, started, identity>>

-----------------------------------------------------------------------------
(* The settings.                                                           *)

\* One leaf is written as the user wishes.
Save(d, write, calls) ==
    /\ MayStart(d)
    /\ Start(d)
    /\ Dispatch(d, <<SetValue(write)>> \o calls)
    /\ UNCHANGED <<sessionVars, identity>>

\* buttonPressed again, from the settings: back to them.
ChangeAvatar(d, picture) ==
    /\ Save(d, AvatarWrite(picture), PopulateSettings)
    /\ Wish(Avatar, picture)

WholeUser(name) == [l \in Leaf |-> IF l = DisplayName THEN name ELSE Absent]
NameWrite(name) == SetLeaf(DisplayName, name)

UpdateButtonPressed(d, name) ==
    /\ Save(d, NameWrite(name), <<>>)
    /\ Wish(DisplayName, name)

OppositeRank(joins) == SetLeaf(OnLeaderboard, IF joins THEN 0 ELSE 1)
RankWrite(joins) == SetLeaf(OnLeaderboard, IF joins THEN 1 ELSE 0)

\* Either alert of the switch, with either answer.
LeaderSettingsSwitched(d, joins) ==
    /\ Save(d, RankWrite(joins), <<>>)
    /\ Wish(OnLeaderboard, IF joins THEN 1 ELSE 0)

\* The alert's Cancel writes the permission known last.
AppNotifySwitched(d) == Issue(d, PermissionWrite)

-----------------------------------------------------------------------------
(* Leaving.  The lists and the observers stay as they are.                 *)

Leave(d, screen) == stage' = [stage EXCEPT ![d] = screen]

SignOutButtonPressed(d) ==
    /\ MayStart(d)
    /\ Start(d)
    /\ Leave(d, "login")
    /\ UNCHANGED <<dbVars, listVars, accountVars>>

RemovedProfile == [l \in Profile |-> Absent]
RemovedUser == Nothing

\* The authentication service may refuse; the record is removed in any case.
\* currentUser stays until the service has answered or the login screen loads.
DeleteButtonPressed(d) ==
    /\ MayStart(d)
    /\ Start(d)
    /\ Leave(d, "leaving")
    /\ identity' \in {identity, "deleted"}
    /\ Dispatch(d, <<SetValue(RemovedUser)>>)
    /\ wishes' = NoWishes
    /\ UNCHANGED listVars

\* The login screen loads, and signs out.
LoginViewDidLoad(d) ==
    /\ stage[d] = "leaving"
    /\ Leave(d, "login")
    /\ UNCHANGED <<dbVars, listVars, started, accountVars>>

-----------------------------------------------------------------------------

AccountStart ==
    /\ identity = IF Exists(record) THEN "known" ELSE "new"
    /\ asked = [d \in Device |-> 0]
    /\ wishes = NoWishes

\* What the user does, and the answers to it.
ScreenStep(d) ==
    \/ FirstSignIn(d) \/ SignInAgain(d)
    \/ \E c \in Choice :
          ChooseAvatar(d, c) \/ ChangeAvatar(d, c) \/ UpdateButtonPressed(d, c)
    \/ \E joins \in BOOLEAN : LeaderSettingsSwitched(d, joins)
    \/ OpenDashboard(d) \/ GotDashboard(d)
    \/ OpenSettings(d) \/ AppNotifySwitched(d)
    \/ SignOutButtonPressed(d) \/ DeleteButtonPressed(d) \/ LoginViewDidLoad(d)

AccountStep(d) ==
    \/ ScreenStep(d) /\ QuestionsStay
    \/ GotSettings(d) \/ PermissionKnown(d)
    \/ CrashOnScreen(d) \/ CrashOnPermission(d)

-----------------------------------------------------------------------------
(* Properties.                                                             *)

AllSettled == \A d \in Device : Settled(d)

\* The record has more than the permission for notifications, which the settings
\* write when they get to know it, however late.
Held(account) == \E l \in Leaf \ {Notifications} : account[l] # Absent

\* A record with anything but the late permission has every field that the
\* Dashboard of any user, the settings and a redemption cast, whatever order the
\* account is made, used, deleted and made again in, by users who wait
\* (DashboardViewController.swift:93 and 135, SettingsViewController.swift:73).
RowsAreWhole ==
    (faults.drops = 0 /\ Held(record)) =>
        \A l \in {DisplayName, OnLeaderboard, CurrentLeaves, AllTimeLeaves} :
            record[l] # Absent

\* The name, the avatar and the place on the leaderboard are those the user has
\* asked for last: neither the record of the new account
\* (LoginViewController.swift:150) nor a removal that comes later than its click
\* overwrites them, and one lost connection only delays them
\* (FPersistentConnection.m:1098).  Two may undo them: a sign-in whose get is lost
\* leaves a user without a record, whose wishes make a part of one.  If the get of
\* the next Dashboard, which would fail on it, is lost as well, the next sign-in
\* writes the record of a new account over them.
SettingsKept ==
    (~ProcessHasEnded /\ AllSettled /\ faults.drops <= 1) =>
        \A l \in Wishable : wishes[l] # Absent => record[l] = wishes[l]

\* Nothing of a deleted account is left, and nothing comes back but the permission
\* for notifications, if the system's answer comes after the click; over a lost
\* connection too (SettingsViewController.swift:278 removes the record, :82 and 89
\* write).
DeletionLasts ==
    (identity = "deleted" /\ ~ProcessHasEnded /\ AllSettled) => ~Held(record)

-----------------------------------------------------------------------------
(* What the source says of itself and the code does not keep.              *)

\* "A method that deletes the current user's account"
\* (SettingsViewController.swift:262), for a user who has waited for every answer
\* of the database before.
NothingComesBack ==
    (identity = "deleted" /\ ~ProcessHasEnded /\ AllSettled) => ~Exists(record)
=============================================================================
