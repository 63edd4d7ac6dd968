\* One device, a user who waits for each answer; the connection may be lost
\* once and the app killed once.
SPECIFICATION LandSpec
CONSTANTS
  Device = {d1}
  Key = {k1, k2}
  Cost <- MCCost
  Rank <- MCRank
  Entry = {}
  Points <- MCPoints
  Coordinate = {c00, c01}
  MaxOps = 4
  MaxIndex = 3
  Absent = Absent
  Listening = {d1}
  MaxDrops = 1
  MaxKills = 1
  Openings <- MCTwoItems
  Overlap = FALSE
INVARIANTS LandTypeOK ListsAreArrays OneOccupant ItemsKept ScreensAgree OnlyDropsCrash
SYMMETRY MCSymmetry
CHECK_DEADLOCK FALSE
