SPECIFICATION Spec
CONSTANTS
  Versions = {v1}
  Artifacts = {good, bad}
  None = None
  Publishers = {p}
  Moderators = {m}
  Workers = {w}
  Compliant = {good}
  ReviewEnabled = TRUE
  SnapshotConflicts = TRUE
  Ops = {"publish", "force", "retry", "approve", "reject", "delete"}
  Faults = {"storage", "engine", "crash"}
  MaxPublishes = 3
  MaxCalls = 2
  MaxAttempts = 2
INVARIANT TypeOK
INVARIANT VerdictOnRecordedArtifact
INVARIANT VerdictsAreIsolated
PROPERTY NewBytesStartOver
CHECK_DEADLOCK FALSE
