\* One device and a user who waits for nothing; cells change their item and their
\* price with it, also between two looks of one block, the app may crash and be
\* started again, the account may be new or damaged.
SPECIFICATION WalletSpec
CONSTANTS
  Device = {d1}
  Key = {k1, k2}
  Cost <- MCPrices
  Rank <- MCRank
  Entry = {0}
  Points <- MCPoints
  Coordinate = {c00}
  MaxOps = 2
  MaxIndex = 1
  Absent = Absent
  Listening = {d1}
  MaxDrops = 0
  MaxKills = 0
  Cell = {cell1}
  Quantity = {0, 1}
  MaxDay = 1
  Openings <- MCAnyone
  Overlap = TRUE
  Reuse = TRUE
INVARIANTS TypeOK Solvent AllTimeIsEarned
CHECK_DEADLOCK FALSE
