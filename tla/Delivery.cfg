SPECIFICATION FairSpec
CONSTANTS
  f = f
  s = s
  t = t
  x = x
  outer = outer
  inner = inner
  below = below
  within = within
  Positions <- MCPositions
  Abandonable = {f}
  Streams = {s, t}
  Length <- MCLength
  Fragments = {outer, inner, below, within}
  Under <- MCUnder
  Deferrals <- MCDeferrals
  InitialCounts = {0, 1}
  Setups <- MCSetups
  MaxEvents = 2
INVARIANTS FalseHasNextIsLast ItemsInPlace PayloadErrorsAreOwn WireIsHonest
PROPERTIES ImplementsJobStream BegunStreamsAreClosed
CHECK_DEADLOCK FALSE
