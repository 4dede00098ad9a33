CONSTANTS
  m1 = m1  m2 = m2  plain = plain  lone = lone  session = session  clock = clock
  Box = Box  NoField = NoField
  Fields <- MCFields
  Deps <- MCDeps
  Plan <- MCPlan
  Async = {session}
  Explicit = {session}
  Timed = {m1}
SPECIFICATION InjectionFairSpec
INVARIANTS MadeOnce SameValue AbortsAreShared FailuresAreRecorded
PROPERTY EveryFieldEnds
CHECK_DEADLOCK FALSE
