SPECIFICATION FairSpec
CONSTANTS
  Versions = {v1}
  Artifacts = {good, bad}
  None = None
  Publishers = {p}
  Moderators = {m}
  Workers = {w}
  Compliant = {good}
  ReviewEnabled = TRUE
  SnapshotConflicts = TRUE
  Ops = {"publish", "force"}
  Faults = {}
  MaxPublishes = 2
  MaxCalls = 2
  MaxAttempts = 2
PROPERTY ReviewConcludes
CHECK_DEADLOCK FALSE
