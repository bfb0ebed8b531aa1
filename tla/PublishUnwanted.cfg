SPECIFICATION Spec
CONSTANTS
  Versions = {v1}
  Artifacts = {good, bad}
  None = None
  Publishers = {p}
  Moderators = {m}
  Workers = {w}
  Compliant = {good}
  ReviewEnabled = TRUE
  SnapshotConflicts = TRUE
  Ops = {"publish", "retry", "approve"}
  Faults = {}
  MaxPublishes = 1
  MaxCalls = 2
  MaxAttempts = 2
PROPERTY ApprovalIsFinal
CHECK_DEADLOCK FALSE
