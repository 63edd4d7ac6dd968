\* One device and a user who waits: the permission for notifications is written
\* after the account is deleted.
SPECIFICATION GameSpec
CONSTANTS
  Device = {d1}
  Key = {k1}
  Cost <- MCCost
  Rank <- MCRank
  Entry = {0}
  Points <- MCPoints
  Coordinate = {c00}
  MaxOps = 2
  MaxIndex = 1
  Absent = Absent
  Listening = {}
  MaxDrops = 0
  MaxKills = 0
  Cell = {cell1}
  Quantity = {1}
  MaxDay = 1
  c00 = c00
  Openings <- MCOwner
  Overlap = FALSE
  Reuse = FALSE
  Choice = {1}
INVARIANT NothingComesBack
CHECK_DEADLOCK FALSE
