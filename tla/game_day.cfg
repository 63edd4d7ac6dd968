\* One device and a user who waits, with an account or about to make one: two
\* operations of any kind on two days, from signing up to deleting the account;
\* the connection may be lost once and the app killed once.
SPECIFICATION GameSpec
CONSTANTS
  Device = {d1}
  Key = {k1}
  Cost <- MCCost
  Rank <- MCRank
  Entry = {0}
  Points <- MCPoints
  Coordinate = {c00, c01}
  MaxOps = 2
  MaxIndex = 3
  Absent = Absent
  Listening = {}
  MaxDrops = 1
  MaxKills = 1
  Cell = {cell1}
  Quantity = {1}
  MaxDay = 2
  c00 = c00
  Openings <- MCAnyOwner
  Overlap = FALSE
  Reuse = FALSE
  Choice = {1}
INVARIANTS ItemsKept ScreensAgree RowsAreWhole SettingsKept DeletionLasts
CHECK_DEADLOCK FALSE
