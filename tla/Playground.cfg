SPECIFICATION Spec
CONSTANTS
  Sessions = {s1, s2}
  Pods = {p1}
  None = None
  MaxConcurrent = 1
  DailyLimit = 1
  RunnerMax = 2
  PoolSize = 1
  MaxIdle = 1
  MaxRestarts = 1
INVARIANT TypeOK
INVARIANT ConcurrencyKept
INVARIANT SessionsCharged
INVARIANT LeaseExclusive
INVARIANT TokensFollowLeases
INVARIANT OwnSkill
PROPERTY CreationAnswered
PROPERTY SessionsEnd
CHECK_DEADLOCK FALSE
