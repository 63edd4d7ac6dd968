\* Two devices, one operation each, that overlap as the messages permit.
SPECIFICATION WalletSpec
CONSTANTS
  Device = {d1, d2}
  Key = {k1}
  Cost <- MCCost
  Rank <- MCRank
  Entry = {0}
  Points <- MCPoints
  Coordinate = {c00}
  MaxOps = 1
  MaxIndex = 0
  Absent = Absent
  Listening = {d2}
  MaxDrops = 0
  MaxKills = 0
  Cell = {cell1}
  Quantity = {0, 1}
  MaxDay = 1
  Openings <- MCPlanter
  Overlap = TRUE
  Reuse = FALSE
INVARIANTS InStock AllTimeIsEarned StockIsBought OneOutcome HistoryIsPaid
CHECK_DEADLOCK FALSE
