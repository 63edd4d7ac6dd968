\* One device and a user who waits for each answer: the second block of a
\* purchase runs before the first.
SPECIFICATION WalletSpec
CONSTANTS
  Device = {d1}
  Key = {k1}
  Cost <- MCCost
  Rank <- MCRank
  Entry = {0}
  Points <- MCPoints
  Coordinate = {c00}
  MaxOps = 2
  MaxIndex = 0
  Absent = Absent
  Listening = {}
  MaxDrops = 0
  MaxKills = 0
  Cell = {cell1}
  Quantity = {0, 1}
  MaxDay = 1
  Openings <- MCSettler
  Overlap = FALSE
  Reuse = FALSE
INVARIANTS LeavesAreRead
CHECK_DEADLOCK FALSE
