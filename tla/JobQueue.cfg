SPECIFICATION Spec
CONSTANTS
  s1 = s1 s2 = s2 o1 = o1 o2 = o2
  poll1 = poll1 refresh1 = refresh1 text1 = text1 fanout2 = fanout2
  Jobs = {poll1, refresh1}
  Kind <- KindOf
  SourceOf <- SourceOfJob
  OriginOf <- OriginOfJob
  Jitter <- NoJitter
  Sources = {s1, s2}
  Origins = {o1, o2}
  Workers = {w1, w2}
  Tokens = {1, 2, 3, 4}
  None = None
  PerOriginConcurrency = 2
  LeaseDuration = 1
  PollInterval = 1
  MaxRetryAge = 1
  RetryAttempts = 2
  RateLimitDelay = 2
  RetryAfter = {0, 3}
  MaxTime = 3
  CrashHorizon = 1
SYMMETRY Symmetry
ACTION_CONSTRAINT LeastToken
INVARIANTS PollSerialized CommitFenced
PROPERTIES RevivalBounded ImplementsFenced
