CONSTANTS
  k1 = k1  k2 = k2  k3 = k3  ckA = ckA  ckB = ckB
  NoKey = NoKey
  Keys <- MCKeys
  CacheKeys <- MCCacheKeys
  CacheKeyOf <- MCCacheKeyOf
  Callers = {c1, c2}
  BatchSizes = {0, 1, 2}
  CacheModes = {TRUE, FALSE}
  MaxFutures = 2
SPECIFICATION FairSpec
INVARIANTS ResultsAreOwn EveryLoadAccounted OnePlaceEach
PROPERTIES CallersResume ImplementsMemo
CHECK_DEADLOCK FALSE
