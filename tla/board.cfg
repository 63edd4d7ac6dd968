\* Four users, a query of three rows and a board of two; the connection may be
\* lost once.
SPECIFICATION FairSpec
CONSTANTS
  ann = ann
  bob = bob
  cy = cy
  di = di
  User <- MCUser
  IdRank <- MCIdRank
  Gain = {1}
  Limit = 3
  Places = 2
  Rosters <- MCRosters
  NoRow = NoRow
  MaxChanges = 3
  MaxDrops = 1
INVARIANTS BoardTypeOK BoardIsRight
PROPERTIES BoardCatchesUp
CHECK_DEADLOCK FALSE
