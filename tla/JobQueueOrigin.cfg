SPECIFICATION FairSpec
CONSTANTS
  s1 = s1 s2 = s2 o1 = o1 o2 = o2
  poll1 = poll1 refresh1 = refresh1 text1 = text1 fanout2 = fanout2
  Jobs = {text1, refresh1}
  Kind <- KindOf
  SourceOf <- SourceOfJob
  OriginOf <- OriginOfJob
  Jitter <- NoJitter
  Sources = {s1, s2}
  Origins = {o1, o2}
  Workers = {w1, w2}
  Tokens = {1, 2, 3, 4}
  None = None
  PerOriginConcurrency = 1
  LeaseDuration = 1
  PollInterval = 1
  MaxRetryAge = 1
  RetryAttempts = 2
  RateLimitDelay = 0
  RetryAfter = {0}
  MaxTime = 2
  CrashHorizon = 0
ACTION_CONSTRAINT LeastToken
INVARIANTS OriginCapacity
PROPERTIES DueServed
