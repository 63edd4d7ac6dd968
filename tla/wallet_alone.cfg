\* One device that shows the Dashboard, a user who waits for each answer and may
\* type a negative quantity, a connection that may be lost once, two days.
SPECIFICATION WalletSpec
CONSTANTS
  Device = {d1}
  Key = {k1}
  Cost <- MCCost
  Rank <- MCRank
  Entry = {0}
  Points <- MCPoints
  Coordinate = {c00}
  MaxOps = 3
  MaxIndex = 0
  Absent = Absent
  Listening = {d1}
  MaxDrops = 1
  MaxKills = 0
  Cell = {cell1}
  Quantity <- MCQuantities
  MaxDay = 2
  Openings <- MCSettler
  Overlap = FALSE
  Reuse = FALSE
INVARIANTS TypeOK Balanced WritesUnderWay OneOutcome OneRewardPerDay
CHECK_DEADLOCK FALSE
