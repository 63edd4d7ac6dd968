\* One device whose user does not wait: the blocks of a placement and of a removal
\* of the same kind of item work on the same list.
SPECIFICATION LandSpec
CONSTANTS
  Device = {d1}
  Key = {k1}
  Cost <- MCCost
  Rank <- MCRank
  Entry = {}
  Points <- MCPoints
  Coordinate = {c00, c01}
  MaxOps = 4
  MaxIndex = 3
  Absent = Absent
  Listening = {}
  MaxDrops = 0
  MaxKills = 0
  Openings <- MCTwoItems
  Overlap = TRUE
INVARIANT ListsAreArrays
SYMMETRY MCSymmetry
CHECK_DEADLOCK FALSE
