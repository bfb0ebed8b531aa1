SPECIFICATION Spec
CONSTANTS
  Versions = {v1}
  Artifacts = {good, bad}
  None = None
  Publishers = {p}
  Moderators = {m}
  Workers = {w}
  Compliant = {good}
  ReviewEnabled = TRUE
  SnapshotConflicts = FALSE
  Ops = {"publish", "force"}
  Faults = {}
  MaxPublishes = 2
  MaxCalls = 2
  MaxAttempts = 2
INVARIANT VerdictOnRecordedArtifact
CHECK_DEADLOCK FALSE
