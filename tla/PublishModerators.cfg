SPECIFICATION Spec
CONSTANTS
  Versions = {v1, v2}
  Artifacts = {good, bad}
  None = None
  Publishers = {p}
  Moderators = {m1, m2}
  Workers = {w}
  Compliant = {}
  ReviewEnabled = FALSE
  SnapshotConflicts = TRUE
  Ops = {"publish", "force", "approve", "delete"}
  Faults = {"storage"}
  MaxPublishes = 3
  MaxCalls = 2
  MaxAttempts = 2
SYMMETRY Symmetry
INVARIANT PublicLatestIsNewest
PROPERTY ImplementsLifecycle
CHECK_DEADLOCK FALSE
