SPECIFICATION FairSpec
CONSTANTS
  r1 = r1
  r2 = r2
  Calls = {r1, r2}
  Extensions <- MCExtensions
  Shared = {"instance"}
  Config <- MCConfig
  Traffic <- MCTraffic
INVARIANTS GetIsSafe BatchIsWhole ContextIsOwn
PROPERTIES HooksAreResumed EveryRequestAnswered
CHECK_DEADLOCK FALSE
