SPECIFICATION FairSpec
CONSTANTS
  Versions = {v1, v2}
  Artifacts = {good, bad}
  None = None
  Publishers = {p}
  Moderators = {m}
  Workers = {w}
  Compliant = {good}
  ReviewEnabled = TRUE
  SnapshotConflicts = FALSE
  Ops = {"publish", "approve"}
  Faults = {"engine"}
  MaxPublishes = 2
  MaxCalls = 2
  MaxAttempts = 2
PROPERTY ReviewConcludes
CHECK_DEADLOCK FALSE
