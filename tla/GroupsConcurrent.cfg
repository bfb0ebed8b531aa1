SPECIFICATION Spec
CONSTANTS
  Users = {founder, author, admin}
  Founder = founder
  Publisher = author
  Privileged = {admin}
  Skills = {k}
  Requests = {r1, r2}
  MaxMembers = 2
  MaxJoins = 2
  SnapshotConflicts = TRUE
INVARIANTS TypeOK MemberCountExact ApprovedAreMembers
PROPERTIES LimitKept RevocationSticks SkillCountFollows
SYMMETRY Symmetry
CHECK_DEADLOCK FALSE
