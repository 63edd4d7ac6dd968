\* One device and a user who waits: what a claim would pay and what the screen shows.
SPECIFICATION GameSpec
CONSTANTS
  Device = {d1}
  Key = {k1}
  Cost <- MCCost
  Rank <- MCRank
  Entry = {}
  Points <- MCPoints
  Coordinate = {c00, c01}
  MaxOps = 2
  MaxIndex = 3
  Absent = Absent
  Listening = {d1}
  MaxDrops = 0
  MaxKills = 0
  Cell = {cell1}
  Quantity = {0, 1}
  MaxDay = 1
  c00 = c00
  Openings <- MCOwner
  Overlap = FALSE
  Reuse = FALSE
  Choice = {1}
INVARIANT RewardFitsScreen
SYMMETRY MCSymmetry
CHECK_DEADLOCK FALSE
