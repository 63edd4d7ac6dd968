\* Two devices and users who wait until nothing is under way anywhere: one account
\* book, and purchases that come to their end.
SPECIFICATION FairWalletSpec
CONSTANTS
  Device = {d1, d2}
  Key = {k1}
  Cost <- MCCost
  Rank <- MCRank
  Entry = {0}
  Points <- MCPoints
  Coordinate = {c00}
  MaxOps = 2
  MaxIndex = 0
  Absent = Absent
  Listening = {}
  MaxDrops = 0
  MaxKills = 0
  Cell = {cell1}
  Quantity = {1}
  MaxDay = 1
  Openings <- MCSettler
  Overlap = FALSE
  Reuse = FALSE
INVARIANTS Balanced OneRewardPerDay OneOutcome
PROPERTIES AllTimeNeverDrops PaidIsDelivered ImplementsBook
CHECK_DEADLOCK FALSE
