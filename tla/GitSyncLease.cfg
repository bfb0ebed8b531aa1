SPECIFICATION FairSpec
CONSTANTS
  Workers = {w1, w2}
  Requests = {r}
  Syncs = {s1, s2}
  NumEntries = 2
  MaxCommits = 2
  MaxSources = 1
  MaxQuiet = 1
  ByHand = {1}
  FailFast = FALSE
  Reverts = FALSE
  Faults = {"crash", "database", "publish", "bind", "storage"}
INVARIANTS TypeOK LinkedToLiveSource
PROPERTIES ImplementsLease SuccessIsCurrent SourceIsFreed
CHECK_DEADLOCK FALSE
