SPECIFICATION Spec
CONSTANTS
  Versions = {v1, v2}
  Artifacts = {good, bad}
  None = None
  Publishers = {p}
  Moderators = {m}
  Workers = {w1, w2}
  Compliant = {good}
  ReviewEnabled = TRUE
  SnapshotConflicts = FALSE
  Ops = {"publish", "approve", "reject"}
  Faults = {"storage", "engine", "crash"}
  MaxPublishes = 2
  MaxCalls = 2
  MaxAttempts = 2
INVARIANT StoredArtifactIsRecorded
INVARIANT OnlyCompliantArtifacts
PROPERTY ImplementsLifecycle
CHECK_DEADLOCK FALSE
