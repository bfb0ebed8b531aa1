SPECIFICATION Spec
CONSTANTS
  Instances = {i1, i2}
  MaxBuilds = 2
  MaxVersions = 1
  MaxCrashes = 1
INVARIANT TypeOK
INVARIANT ServesLastAnnounced
INVARIANT OverlapNeedsExpiry
INVARIANT AnnouncedStored
PROPERTY NewestAnnounced
SYMMETRY Symmetry
CHECK_DEADLOCK FALSE
