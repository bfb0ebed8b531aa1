SPECIFICATION Spec
CONSTANTS
  Versions = {v1}
  Artifacts = {good, bad}
  None = None
  Publishers = {p}
  Moderators = {m}
  Workers = {w}
  Compliant = {good}
  ReviewEnabled = FALSE
  SnapshotConflicts = FALSE
  Ops = {"publish", "force", "approve"}
  Faults = {}
  MaxPublishes = 2
  MaxCalls = 2
  MaxAttempts = 2
PROPERTY NewBytesStartOver
CHECK_DEADLOCK FALSE
