\* Two devices that show the Dashboard and users who wait until nothing is under
\* way anywhere else: the reward of a day is granted twice.
SPECIFICATION WalletSpec
CONSTANTS
  Device = {d1, d2}
  Key = {k1}
  Cost <- MCCost
  Rank <- MCRank
  Entry = {0}
  Points <- MCPoints
  Coordinate = {c00}
  MaxOps = 2
  MaxIndex = 0
  Absent = Absent
  Listening = {d2}
  MaxDrops = 0
  MaxKills = 0
  Cell = {cell1}
  Quantity = {0}
  MaxDay = 1
  Openings <- MCSettler
  Overlap = FALSE
  Reuse = FALSE
INVARIANTS OneRewardPerDay
CHECK_DEADLOCK FALSE
